------------------------- MODULE KierkiThreadsProofs -------------------------
(***************************************************************************)
(* Every step of the server keeps each part of IInv: the type invariant    *)
(* and the one permit to play; Handoff, that permits, flag and pipe say    *)
(* how far a seat's two threads have come with a command; Lockstep, that   *)
(* all player threads are between the same two barriers; and Admission,    *)
(* that seats, count of players and threads agree.  One lemma per part and *)
(* group of actions; in it, one case per action.                           *)
(***************************************************************************)
EXTENDS KierkiServerInv, TLAPS, FiniteSetTheorems


-----------------------------------------------------------------------------
(* The type invariant and the turn permit.                                 *)

(***************************************************************************)
(* The monitor's type invariant speaks of the monitor's variables only.    *)
(***************************************************************************)
LEMMA GMFrame == GMTypeOK /\ UNCHANGED gmVars => GMTypeOK'
  BY DEF GMTypeOK, AdmissionTypeOK, TurnTypeOK, LewaTypeOK, RoundTypeOK,
     gmVars, admission, turn, lewa, round
(***************************************************************************)
(* The main thread's type invariant speaks of its variables only.          *)
(***************************************************************************)
LEMMA MainFrame == MainTypeOK /\ UNCHANGED mainVars => MainTypeOK'
  BY DEF MainTypeOK, mainVars

(***************************************************************************)
(* The variables that say how a message fared, whichever way it went.      *)
(***************************************************************************)
OutcomeTypeOK ==
    /\ semaphore_TCP \in [Seats -> Nat]
    /\ thread_ended \in [Seats -> BOOLEAN]
    /\ tcp \in [Seats -> TcpLocs]
    /\ dying \in [Seats -> Nat]
    /\ process \in {"running", "exited", "aborted", "killed"}
    /\ faults \in 0 .. MaxFaults

(***************************************************************************)
(* A message that was written leaves the hand-off variables well typed.    *)
(***************************************************************************)
LEMMA ServedTypes ==
    ASSUME SeatTypeOK, NEW s \in Seats, Served(s)
    PROVE  OutcomeTypeOK'
  BY DEF SeatTypeOK, OutcomeTypeOK, Served, Release, tcpState, env

(***************************************************************************)
(* A write that fails ends the TCP thread and leaves the same variables    *)
(* well typed.                                                             *)
(***************************************************************************)
LEMMA WriteFailsTypes ==
    ASSUME SeatTypeOK, NEW s \in Seats, NEW kind, WriteFails(s, kind)
    PROVE  OutcomeTypeOK'
  BY MaxFaultsAssumption DEF SeatTypeOK, OutcomeTypeOK, WriteFails, Fault,
     EndThread, TcpLocs

(***************************************************************************)
(* Types: the player thread's half of handle_btwn_thread_comm              *)
(* (player_threads.cpp). The command it writes depends on loc, so the      *)
(* hand-off invariant is needed to know that loc names one.                *)
(***************************************************************************)
LEMMA TypeTalk ==
    ASSUME TypeOK, Handoff, TakerKnown, NEW s \in Seats, TalkStep(s)
    PROVE  TypeOK'
<1>1. CASE BySeat(SendCommand(s))
  <2>1. SendCommand(s) /\ UNCHANGED mainVars
    BY <1>1 DEF BySeat
  <2>2. CommandAt(loc[s]) \in Commands
    BY <2>1 DEF SendCommand, CommandAt, CommLocs, Commands
  <2>3. GMTypeOK'
    BY <2>1, GMFrame DEF SendCommand, TypeOK
  <2>4. MainTypeOK'
    BY <2>1, MainFrame DEF TypeOK
  <2>5. SeatTypeOK'
    BY <2>1, <2>2, MaxFaultsAssumption DEF SendCommand, Subs, TypeOK,
       SeatTypeOK, tcpVars, tcpState, points, clientView, env, playerVars,
       seatSync
  <2> QED BY <2>3, <2>4, <2>5 DEF TypeOK, GMTypeOK
<1>2. CASE BySeat(CollectServed(s))
  <2>1. CollectServed(s) /\ UNCHANGED mainVars
    BY <1>2 DEF BySeat
  <2>2. loc[s] \in CommLocs
    BY <2>1 DEF Handoff, HandoffOf, CollectServed
  <2>3. AfterCommand(loc[s]) \in Locs
    BY <2>2 DEF AfterCommand, CommLocs, Locs, BarrierLocs, StepLocs
  <2>4. GMTypeOK'
    BY <2>1, GMFrame DEF CollectServed, TypeOK
  <2>5. MainTypeOK'
    BY <2>1, MainFrame DEF TypeOK
  <2>6. SeatTypeOK'
    BY <2>1, <2>2, <2>3, MaxFaultsAssumption DEF CollectServed, Acquire, Goto,
       Subs, TypeOK, SeatTypeOK, tcpVars, tcpState, points, clientView, env,
       playerVars, seatSync
  <2> QED BY <2>4, <2>5, <2>6 DEF TypeOK, GMTypeOK
<1>3. CASE BySeat(CollectEnded(s))
  <2>1. CollectEnded(s) /\ UNCHANGED mainVars
    BY <1>3 DEF BySeat
  <2>2. GMTypeOK'
    BY <2>1, GMFrame DEF CollectEnded, TypeOK
  <2>3. MainTypeOK'
    BY <2>1, MainFrame DEF TypeOK
  <2>4. SeatTypeOK'
    BY <2>1, MaxFaultsAssumption DEF CollectEnded, Acquire, Subs, TypeOK,
       SeatTypeOK, tcpVars, tcpState, points, clientView, env, playerVars,
       seatSync
  <2> QED BY <2>2, <2>3, <2>4 DEF TypeOK, GMTypeOK
<1>4. CASE BySeat(Recover(s))
  <2>1. Recover(s) /\ UNCHANGED mainVars
    BY <1>4 DEF BySeat
  <2>2. AdmissionTypeOK'
    BY <2>1, SizesAssumption, StarterAssumption DEF Recover, SetPlayerLeft,
       TypeOK, GMTypeOK, AdmissionTypeOK, admission
  <2>3. TurnTypeOK'
    BY <2>1, SizesAssumption, StarterAssumption DEF Recover, SetPlayerLeft,
       TypeOK, GMTypeOK, TurnTypeOK, turn
  <2>4. LewaTypeOK'
    BY <2>1, SizesAssumption, StarterAssumption DEF Recover, SetPlayerLeft,
       TypeOK, GMTypeOK, LewaTypeOK, lewa
  <2>5. RoundTypeOK'
    BY <2>1, SizesAssumption, StarterAssumption DEF Recover, SetPlayerLeft,
       TypeOK, GMTypeOK, RoundTypeOK, round
  <2>6. MainTypeOK'
    BY <2>1, MainFrame DEF TypeOK
  <2>7. SeatTypeOK'
    BY <2>1, MaxFaultsAssumption DEF Recover, Subs, TypeOK, SeatTypeOK,
       tcpVars, tcpState, points, clientView, env, playerVars, seatSync
  <2> QED BY <2>2, <2>3, <2>4, <2>5, <2>6, <2>7 DEF TypeOK, GMTypeOK
<1>5. CASE BySeat(Replace(s))
  <2>1. Replace(s) /\ UNCHANGED mainVars
    BY <1>5 DEF BySeat
  <2>2. AdmissionTypeOK'
    BY <2>1, SizesAssumption, StarterAssumption DEF Replace,
       AcquireDisconnectedSem, TypeOK, GMTypeOK, AdmissionTypeOK, admission
  <2>3. TurnTypeOK'
    BY <2>1, SizesAssumption, StarterAssumption DEF Replace,
       AcquireDisconnectedSem, TypeOK, GMTypeOK, TurnTypeOK, turn
  <2>4. LewaTypeOK'
    BY <2>1, SizesAssumption, StarterAssumption DEF Replace,
       AcquireDisconnectedSem, TypeOK, GMTypeOK, LewaTypeOK, lewa
  <2>5. RoundTypeOK'
    BY <2>1, SizesAssumption, StarterAssumption DEF Replace,
       AcquireDisconnectedSem, TypeOK, GMTypeOK, RoundTypeOK, round
  <2>6. MainTypeOK'
    BY <2>1, MainFrame DEF TypeOK
  <2>7. SeatTypeOK'
    BY <2>1, MaxFaultsAssumption DEF Replace, Subs, TcpLocs, TypeOK,
       SeatTypeOK, tcpVars, tcpState, points, clientView, env, playerVars,
       seatSync
  <2> QED BY <2>2, <2>3, <2>4, <2>5, <2>6, <2>7 DEF TypeOK, GMTypeOK
<1>6. CASE BySeat(ResendCommand(s))
  <2>1. ResendCommand(s) /\ UNCHANGED mainVars
    BY <1>6 DEF BySeat
  <2>2. loc[s] \in CommLocs
    BY <2>1 DEF Handoff, HandoffOf, ResendCommand
  <2>3. CommandAt(loc[s]) \in Commands
    BY <2>2 DEF CommandAt, CommLocs, Commands
  <2>4. GMTypeOK'
    BY <2>1, GMFrame DEF ResendCommand, TypeOK
  <2>5. MainTypeOK'
    BY <2>1, MainFrame DEF TypeOK
  <2>6. SeatTypeOK'
    BY <2>1, <2>2, <2>3, MaxFaultsAssumption, SMTT(30) DEF ResendCommand, Acquire, Subs,
       TypeOK, SeatTypeOK, tcpVars, tcpState, points, clientView, env,
       playerVars, seatSync
  <2> QED BY <2>4, <2>5, <2>6 DEF TypeOK, GMTypeOK
<1> QED BY <1>1, <1>2, <1>3, <1>4, <1>5, <1>6 DEF TalkStep

(***************************************************************************)
(* Types: the player thread's walk through the round, with the monitor     *)
(* methods it calls. The lead goes to a seat because the taker has been    *)
(* decided.                                                                *)
(***************************************************************************)
LEMMA TypeGame ==
    ASSUME TypeOK, Handoff, TakerKnown, NEW s \in Seats, GameStep(s)
    PROVE  TypeOK'
<1>1. CASE BySeat(TakeTurn(s))
  <2>1. TakeTurn(s) /\ UNCHANGED mainVars
    BY <1>1 DEF BySeat
  <2>2. AdmissionTypeOK'
    BY <2>1, SizesAssumption, StarterAssumption DEF TakeTurn, Step,
       WaitForTurn, TypeOK, GMTypeOK, AdmissionTypeOK, admission
  <2>3. TurnTypeOK'
    BY <2>1, SizesAssumption, StarterAssumption DEF TakeTurn, Step,
       WaitForTurn, TypeOK, GMTypeOK, TurnTypeOK, turn
  <2>4. LewaTypeOK'
    BY <2>1, SizesAssumption, StarterAssumption DEF TakeTurn, Step,
       WaitForTurn, TypeOK, GMTypeOK, LewaTypeOK, lewa
  <2>5. RoundTypeOK'
    BY <2>1, SizesAssumption, StarterAssumption DEF TakeTurn, Step,
       WaitForTurn, TypeOK, GMTypeOK, RoundTypeOK, round
  <2>6. MainTypeOK'
    BY <2>1, MainFrame DEF TypeOK
  <2>7. SeatTypeOK'
    BY <2>1, MaxFaultsAssumption DEF TakeTurn, Step, Goto, Locs, CommLocs,
       BarrierLocs, StepLocs, TypeOK, SeatTypeOK, tcpVars, tcpState, points,
       clientView, env, playerVars, seatSync
  <2> QED BY <2>2, <2>3, <2>4, <2>5, <2>6, <2>7 DEF TypeOK, GMTypeOK
<1>2. CASE BySeat(CheckFull(s))
  <2>1. CheckFull(s) /\ UNCHANGED mainVars
    BY <1>2 DEF BySeat
  <2>2. GMTypeOK'
    BY <2>1, GMFrame DEF CheckFull, Step, TypeOK
  <2>3. MainTypeOK'
    BY <2>1, MainFrame DEF TypeOK
  <2>4. SeatTypeOK'
    BY <2>1, MaxFaultsAssumption DEF CheckFull, Step, Goto, Locs, CommLocs,
       BarrierLocs, StepLocs, TypeOK, SeatTypeOK, tcpVars, tcpState, points,
       clientView, env, playerVars, seatSync
  <2> QED BY <2>2, <2>3, <2>4 DEF TypeOK, GMTypeOK
<1>3. CASE BySeat(DecideTaker(s))
  <2>1. DecideTaker(s) /\ UNCHANGED mainVars
    BY <1>3 DEF BySeat
  <2>2. AdmissionTypeOK'
    BY <2>1, SizesAssumption, StarterAssumption DEF DecideTaker, Step,
       CheckWhoWonLewa, TypeOK, GMTypeOK, AdmissionTypeOK, admission
  <2>3. TurnTypeOK'
    BY <2>1, SizesAssumption, StarterAssumption DEF DecideTaker, Step,
       CheckWhoWonLewa, TypeOK, GMTypeOK, TurnTypeOK, turn
  <2>4. LewaTypeOK'
    BY <2>1, SizesAssumption, StarterAssumption DEF DecideTaker, Step,
       CheckWhoWonLewa, TypeOK, GMTypeOK, LewaTypeOK, lewa
  <2>5. RoundTypeOK'
    BY <2>1, SizesAssumption, StarterAssumption DEF DecideTaker, Step,
       CheckWhoWonLewa, TypeOK, GMTypeOK, RoundTypeOK, round
  <2>6. MainTypeOK'
    BY <2>1, MainFrame DEF TypeOK
  <2>7. SeatTypeOK'
    BY <2>1, MaxFaultsAssumption DEF DecideTaker, Step, Goto, Locs, CommLocs,
       BarrierLocs, StepLocs, TypeOK, SeatTypeOK, tcpVars, tcpState, points,
       clientView, env, playerVars, seatSync
  <2> QED BY <2>2, <2>3, <2>4, <2>5, <2>6, <2>7 DEF TypeOK, GMTypeOK
<1>4. CASE BySeat(GiveLead(s))
  <2>1. GiveLead(s) /\ UNCHANGED mainVars
    BY <1>4 DEF BySeat
  <2>2. who_won_lewa \in Seats
    BY <2>1 DEF GiveLead, Step, TakerKnown
  <2>3. AdmissionTypeOK'
    BY <2>1, <2>2, SizesAssumption, StarterAssumption DEF GiveLead, Step,
       SetFirstPlayerForNextTurn, TypeOK, GMTypeOK, AdmissionTypeOK, admission
  <2>4. TurnTypeOK'
    BY <2>1, <2>2, SizesAssumption, StarterAssumption DEF GiveLead, Step,
       SetFirstPlayerForNextTurn, TypeOK, GMTypeOK, TurnTypeOK, turn
  <2>5. LewaTypeOK'
    BY <2>1, <2>2, SizesAssumption, StarterAssumption DEF GiveLead, Step,
       SetFirstPlayerForNextTurn, TypeOK, GMTypeOK, LewaTypeOK, lewa
  <2>6. RoundTypeOK'
    BY <2>1, <2>2, SizesAssumption, StarterAssumption DEF GiveLead, Step,
       SetFirstPlayerForNextTurn, TypeOK, GMTypeOK, RoundTypeOK, round
  <2>7. MainTypeOK'
    BY <2>1, MainFrame DEF TypeOK
  <2>8. SeatTypeOK'
    BY <2>1, <2>2, MaxFaultsAssumption DEF GiveLead, Step, Goto, Locs,
       CommLocs, BarrierLocs, StepLocs, TypeOK, SeatTypeOK, tcpVars, tcpState,
       points, clientView, env, playerVars, seatSync
  <2> QED BY <2>3, <2>4, <2>5, <2>6, <2>7, <2>8 DEF TypeOK, GMTypeOK
<1>5. CASE BySeat(CountCards(s))
  <2>1. CountCards(s) /\ UNCHANGED mainVars
    BY <1>5 DEF BySeat
  <2>2. AdmissionTypeOK'
    BY <2>1, SizesAssumption, StarterAssumption DEF CountCards, Step,
       CountCardsPlayed, TypeOK, GMTypeOK, AdmissionTypeOK, admission
  <2>3. TurnTypeOK'
    BY <2>1, SizesAssumption, StarterAssumption DEF CountCards, Step,
       CountCardsPlayed, TypeOK, GMTypeOK, TurnTypeOK, turn
  <2>4. LewaTypeOK'
    BY <2>1, SizesAssumption, StarterAssumption DEF CountCards, Step,
       CountCardsPlayed, TypeOK, GMTypeOK, LewaTypeOK, lewa
  <2>5. RoundTypeOK'
    BY <2>1, SizesAssumption, StarterAssumption DEF CountCards, Step,
       CountCardsPlayed, TypeOK, GMTypeOK, RoundTypeOK, round
  <2>6. MainTypeOK'
    BY <2>1, MainFrame DEF TypeOK
  <2>7. SeatTypeOK'
    BY <2>1, MaxFaultsAssumption DEF CountCards, Step, Goto, Locs, CommLocs,
       BarrierLocs, StepLocs, TypeOK, SeatTypeOK, tcpVars, tcpState, points,
       clientView, env, playerVars, seatSync
  <2> QED BY <2>2, <2>3, <2>4, <2>5, <2>6, <2>7 DEF TypeOK, GMTypeOK
<1>6. CASE BySeat(PassTurn(s))
  <2>1. PassTurn(s) /\ UNCHANGED mainVars
    BY <1>6 DEF BySeat
  <2>2. FollowingSeat(whose_turn) \in Seats
    BY SizesAssumption DEF TypeOK, GMTypeOK, LewaTypeOK, TurnTypeOK,
       FollowingSeat, Seats
  <2>3. AdmissionTypeOK'
    BY <2>1, <2>2, SizesAssumption, StarterAssumption DEF PassTurn, Step,
       NextPlayerTurn, TypeOK, GMTypeOK, AdmissionTypeOK, admission
  <2>4. TurnTypeOK'
    BY <2>1, <2>2, SizesAssumption, StarterAssumption DEF PassTurn, Step,
       NextPlayerTurn, TypeOK, GMTypeOK, TurnTypeOK, turn
  <2>5. LewaTypeOK'
    BY <2>1, <2>2, SizesAssumption, StarterAssumption DEF PassTurn, Step,
       NextPlayerTurn, TypeOK, GMTypeOK, LewaTypeOK, lewa
  <2>6. RoundTypeOK'
    BY <2>1, <2>2, SizesAssumption, StarterAssumption DEF PassTurn, Step,
       NextPlayerTurn, TypeOK, GMTypeOK, RoundTypeOK, round
  <2>7. MainTypeOK'
    BY <2>1, MainFrame DEF TypeOK
  <2>8. SeatTypeOK'
    BY <2>1, <2>2, MaxFaultsAssumption DEF PassTurn, Step, Goto, Locs,
       CommLocs, BarrierLocs, StepLocs, TypeOK, SeatTypeOK, tcpVars, tcpState,
       points, clientView, env, playerVars, seatSync
  <2> QED BY <2>3, <2>4, <2>5, <2>6, <2>7, <2>8 DEF TypeOK, GMTypeOK
<1>7. CASE BySeat(ClearTable(s))
  <2>1. ClearTable(s) /\ UNCHANGED mainVars
    BY <1>7 DEF BySeat
  <2>arg. /\ << >> \in Seq(Seats)
           /\ Append(lewas_played, who_won_lewa) \in Seq(Seats \cup {NONE_POS})
    BY DEF TypeOK, GMTypeOK, RoundTypeOK, LewaTypeOK
  <2>2. AdmissionTypeOK'
    BY <2>1, SizesAssumption, StarterAssumption DEF ClearTable, Step,
       PrepareNewLewa, NewLewaDefined, LewaIdReadable, TypeOK, GMTypeOK,
       LewaTypeOK, RoundTypeOK, TurnTypeOK, AdmissionTypeOK, admission
  <2>3. TurnTypeOK'
    BY <2>1, SizesAssumption, StarterAssumption DEF ClearTable, Step,
       PrepareNewLewa, NewLewaDefined, LewaIdReadable, TypeOK, GMTypeOK,
       LewaTypeOK, RoundTypeOK, TurnTypeOK, AdmissionTypeOK, turn
  <2>4. LewaTypeOK'
    <3>1. CASE LewaFull
      BY <2>1, <2>arg, <3>1, SizesAssumption DEF ClearTable, PrepareNewLewa,
         NewLewaDefined, LewaIdReadable, TypeOK, GMTypeOK, LewaTypeOK,
         RoundTypeOK
    <3>2. CASE ~LewaFull
      BY <2>1, <3>2 DEF ClearTable, PrepareNewLewa, TypeOK, GMTypeOK,
         LewaTypeOK, RoundTypeOK
    <3> QED BY <3>1, <3>2
  <2>5. RoundTypeOK'
    <3>1. CASE LewaFull
      BY <2>1, <2>arg, <3>1, SizesAssumption DEF ClearTable, PrepareNewLewa,
         NewLewaDefined, LewaIdReadable, TypeOK, GMTypeOK, LewaTypeOK,
         RoundTypeOK
    <3>2. CASE ~LewaFull
      BY <2>1, <3>2 DEF ClearTable, PrepareNewLewa, TypeOK, GMTypeOK,
         LewaTypeOK, RoundTypeOK
    <3> QED BY <3>1, <3>2
  <2>6. MainTypeOK'
    BY <2>1, MainFrame DEF TypeOK
  <2>7. SeatTypeOK'
    BY <2>1, MaxFaultsAssumption DEF ClearTable, Step, Goto, Locs, CommLocs,
       BarrierLocs, StepLocs, TypeOK, SeatTypeOK, tcpVars, tcpState, points,
       clientView, env, playerVars, seatSync
  <2> QED BY <2>2, <2>3, <2>4, <2>5, <2>6, <2>7 DEF TypeOK, GMTypeOK
<1>8. CASE BySeat(CheckRound(s))
  <2>1. CheckRound(s) /\ UNCHANGED mainVars
    BY <1>8 DEF BySeat
  <2>2. GMTypeOK'
    BY <2>1, GMFrame DEF CheckRound, Step, TypeOK
  <2>3. MainTypeOK'
    BY <2>1, MainFrame DEF TypeOK
  <2>4. SeatTypeOK'
    BY <2>1, MaxFaultsAssumption DEF CheckRound, Step, Goto, Locs, CommLocs,
       BarrierLocs, StepLocs, TypeOK, SeatTypeOK, tcpVars, tcpState, points,
       clientView, env, playerVars, seatSync
  <2> QED BY <2>2, <2>3, <2>4 DEF TypeOK, GMTypeOK
<1>9. CASE BySeat(CheckLastRound(s))
  <2>1. CheckLastRound(s) /\ UNCHANGED mainVars
    BY <1>9 DEF BySeat
  <2>2. GMTypeOK'
    BY <2>1, GMFrame DEF CheckLastRound, Step, TypeOK
  <2>3. MainTypeOK'
    BY <2>1, MainFrame DEF TypeOK
  <2>4. SeatTypeOK'
    BY <2>1, MaxFaultsAssumption DEF CheckLastRound, Step, Goto, Locs,
       CommLocs, BarrierLocs, StepLocs, TypeOK, SeatTypeOK, tcpVars, tcpState,
       points, clientView, env, playerVars, seatSync
  <2> QED BY <2>2, <2>3, <2>4 DEF TypeOK, GMTypeOK
<1>10. CASE BySeat(StartRound(s))
  <2>1. StartRound(s) /\ UNCHANGED mainVars
    BY <1>10 DEF BySeat
  <2>arg. lewa_id > 1 => /\ round_number + 1 \in Rounds
                       /\ Starter[round_number + 1] \in Seats
                       /\ 1 \in 1 .. NumTricks + 1
                       /\ << >> \in Seq(Seats) /\ << >> \in Seq(Seats \cup {NONE_POS})
    BY <2>1, SizesAssumption, StarterAssumption DEF StartRound,
       PrepareNewRound, NewRoundDefined, LastRound, Rounds, TypeOK, GMTypeOK,
       RoundTypeOK
  <2>2. AdmissionTypeOK'
    BY <2>1, SizesAssumption, StarterAssumption DEF StartRound, Step,
       PrepareNewRound, NewRoundDefined, LewaIdReadable, LastRound, Rounds,
       TypeOK, GMTypeOK, LewaTypeOK, RoundTypeOK, TurnTypeOK, AdmissionTypeOK,
       admission
  <2>3. TurnTypeOK'
    <3>1. CASE lewa_id > 1
      <4> DEFINE back == [semaphore_map EXCEPT ![whose_turn] = @ - 1]
      <4>1. /\ first_player' = Starter[round_number + 1]
            /\ whose_turn' = Starter[round_number + 1]
            /\ semaphore_map' = [back EXCEPT ![Starter[round_number + 1]] = @ + 1]
            /\ semaphore_map[whose_turn] > 0
        BY <2>1, <3>1 DEF StartRound, PrepareNewRound
      <4>2. back \in [Seats -> Nat]
        BY <4>1 DEF TypeOK, GMTypeOK, TurnTypeOK
      <4> HIDE DEF back
      <4> QED BY <2>arg, <3>1, <4>1, <4>2 DEF TurnTypeOK
    <3>2. CASE ~(lewa_id > 1)
      BY <2>1, <3>2 DEF StartRound, PrepareNewRound, TypeOK, GMTypeOK,
         TurnTypeOK, LewaTypeOK, RoundTypeOK, turn, lewa
    <3> QED BY <3>1, <3>2
  <2>4. LewaTypeOK'
    <3>1. CASE lewa_id > 1
      BY <2>1, <2>arg, <3>1 DEF StartRound, PrepareNewRound, TypeOK, GMTypeOK,
         LewaTypeOK, TurnTypeOK, RoundTypeOK, NONE_POS
    <3>2. CASE ~(lewa_id > 1)
      BY <2>1, <3>2 DEF StartRound, PrepareNewRound, TypeOK, GMTypeOK,
         TurnTypeOK, LewaTypeOK, RoundTypeOK, turn, lewa
    <3> QED BY <3>1, <3>2
  <2>5. RoundTypeOK'
    <3>1. CASE lewa_id > 1
      BY <2>1, <2>arg, <3>1 DEF StartRound, PrepareNewRound, TypeOK, GMTypeOK,
         LewaTypeOK, TurnTypeOK, RoundTypeOK, NONE_POS
    <3>2. CASE ~(lewa_id > 1)
      BY <2>1, <3>2 DEF StartRound, PrepareNewRound, TypeOK, GMTypeOK,
         TurnTypeOK, LewaTypeOK, RoundTypeOK, turn, lewa
    <3> QED BY <3>1, <3>2
  <2>6. MainTypeOK'
    BY <2>1, MainFrame DEF TypeOK
  <2>7. SeatTypeOK'
    BY <2>1, MaxFaultsAssumption DEF StartRound, Step, Goto, Locs, CommLocs,
       BarrierLocs, StepLocs, TypeOK, SeatTypeOK, tcpVars, tcpState, points,
       clientView, env, playerVars, seatSync
  <2> QED BY <2>2, <2>3, <2>4, <2>5, <2>6, <2>7 DEF TypeOK, GMTypeOK
<1>11. CASE BySeat(MonitorThrows(s))
  <2>1. MonitorThrows(s) /\ UNCHANGED mainVars
    BY <1>11 DEF BySeat
  <2>2. GMTypeOK'
    BY <2>1, GMFrame DEF MonitorThrows, TypeOK
  <2>3. MainTypeOK'
    BY <2>1, MainFrame DEF TypeOK
  <2>4. SeatTypeOK'
    BY <2>1, MaxFaultsAssumption DEF MonitorThrows, TypeOK, SeatTypeOK,
       tcpVars, tcpState, points, clientView, env, playerVars, seatSync
  <2> QED BY <2>2, <2>3, <2>4 DEF TypeOK, GMTypeOK
<1>12. CASE ByMain(LeaveGame(s))
  <2>1. LeaveGame(s)
    BY <1>12 DEF ByMain
  <2>2. AdmissionTypeOK'
    BY <2>1, SizesAssumption, StarterAssumption DEF LeaveGame,
       DecrementPresentPlayers, TypeOK, GMTypeOK, AdmissionTypeOK, admission
  <2>3. TurnTypeOK'
    BY <2>1, SizesAssumption, StarterAssumption DEF LeaveGame,
       DecrementPresentPlayers, TypeOK, GMTypeOK, TurnTypeOK, turn
  <2>4. LewaTypeOK'
    BY <2>1, SizesAssumption, StarterAssumption DEF LeaveGame,
       DecrementPresentPlayers, TypeOK, GMTypeOK, LewaTypeOK, lewa
  <2>5. RoundTypeOK'
    BY <2>1, SizesAssumption, StarterAssumption DEF LeaveGame,
       DecrementPresentPlayers, TypeOK, GMTypeOK, RoundTypeOK, round
  <2>6. MainTypeOK'
    BY <2>1 DEF LeaveGame, TypeOK, MainTypeOK
  <2>7. SeatTypeOK'
    BY <2>1, MaxFaultsAssumption DEF LeaveGame, Goto, Locs, CommLocs,
       BarrierLocs, StepLocs, TypeOK, SeatTypeOK, tcpVars, tcpState, points,
       clientView, env, playerVars, seatSync
  <2> QED BY <2>2, <2>3, <2>4, <2>5, <2>6, <2>7 DEF TypeOK, GMTypeOK
<1>13. CASE BySeat(SendEnd(s))
  <2>1. SendEnd(s) /\ UNCHANGED mainVars
    BY <1>13 DEF BySeat
  <2>2. GMTypeOK'
    BY <2>1, GMFrame DEF SendEnd, TypeOK
  <2>3. MainTypeOK'
    BY <2>1, MainFrame DEF TypeOK
  <2>4. SeatTypeOK'
    BY <2>1, MaxFaultsAssumption DEF SendEnd, Commands, Goto, Locs, CommLocs,
       BarrierLocs, StepLocs, TypeOK, SeatTypeOK, tcpVars, tcpState, points,
       clientView, env, playerVars, seatSync
  <2> QED BY <2>2, <2>3, <2>4 DEF TypeOK, GMTypeOK
<1>14. CASE BySeat(CollectEnd(s))
  <2>1. CollectEnd(s) /\ UNCHANGED mainVars
    BY <1>14 DEF BySeat
  <2>2. GMTypeOK'
    BY <2>1, GMFrame DEF CollectEnd, TypeOK
  <2>3. MainTypeOK'
    BY <2>1, MainFrame DEF TypeOK
  <2>4. SeatTypeOK'
    BY <2>1, MaxFaultsAssumption, SMTT(30) DEF CollectEnd, Acquire, Goto, Locs, CommLocs,
       BarrierLocs, StepLocs, TypeOK, SeatTypeOK, tcpVars, tcpState, points,
       clientView, env, playerVars, seatSync
  <2> QED BY <2>2, <2>3, <2>4 DEF TypeOK, GMTypeOK
<1> QED BY <1>1, <1>2, <1>3, <1>4, <1>5, <1>6, <1>7, <1>8, <1>9, <1>10, <1>11,
    <1>12, <1>13, <1>14 DEF GameStep

(***************************************************************************)
(* Types: the command handlers of the TCP thread (TCP_threads.cpp).        *)
(***************************************************************************)
LEMMA TypeTcp ==
    ASSUME TypeOK, Handoff, TakerKnown, NEW s \in Seats, TcpStep(s)
    PROVE  TypeOK'
<1>1. CASE BySeat(HandleDeal(s))
  <2>1. HandleDeal(s) /\ UNCHANGED mainVars
    BY <1>1 DEF BySeat
  <2>arg. << >> \in Seq(Nat)
    BY SMT
  <2>2. Tail(child_pipe[s]) \in Seq(Commands)
    BY <2>1 DEF HandleDeal, ReadCommand, Told, TypeOK, SeatTypeOK
  <2>3. OutcomeTypeOK'
    BY <2>1, ServedTypes, WriteFailsTypes DEF HandleDeal, TypeOK
  <2>4. whose_turn \in Seats
    BY DEF TypeOK, GMTypeOK, TurnTypeOK
  <2>5. GMTypeOK'
    BY <2>1, GMFrame DEF HandleDeal, TypeOK
  <2>6. MainTypeOK'
    BY <2>1, MainFrame DEF TypeOK
  <2>7. SeatTypeOK'
    <3>1. announced' \in [Seats -> Seats \cup {NONE_POS}] /\ taken_seen' \in [Seats -> Seq(Nat)]
      BY <2>1, <2>4, <2>arg DEF HandleDeal, Served, WriteFails, EndThread,
         TypeOK, SeatTypeOK, clientView, points, tcpVars
    <3>2. cards_played' \in [Seats -> Nat] /\ curr_game_points' \in [Seats -> Nat] /\ all_points' \in [Seats -> Nat]
      BY <2>1 DEF HandleDeal, TypeOK, SeatTypeOK, clientView, points, tcpVars
    <3>3. loc' = loc /\ sub' = sub /\ child_pipe' \in [Seats -> Seq(Commands)]
      BY <2>1, <2>2 DEF HandleDeal, ReadCommand, playerVars, TypeOK, SeatTypeOK
    <3> QED BY <2>3, <3>1, <3>2, <3>3 DEF OutcomeTypeOK, TypeOK, SeatTypeOK
  <2> QED BY <2>5, <2>6, <2>7 DEF TypeOK, GMTypeOK
<1>2. CASE BySeat(AskForCard(s))
  <2>1. AskForCard(s) /\ UNCHANGED mainVars
    BY <1>2 DEF BySeat
  <2>2. Tail(child_pipe[s]) \in Seq(Commands)
    BY <2>1 DEF AskForCard, ReadCommand, Told, TypeOK, SeatTypeOK
  <2>3. GMTypeOK'
    BY <2>1, GMFrame DEF AskForCard, TypeOK
  <2>4. MainTypeOK'
    BY <2>1, MainFrame DEF TypeOK
  <2>5. SeatTypeOK'
    BY <2>1, <2>2, MaxFaultsAssumption DEF AskForCard, ReadCommand, Told,
       Served, Release, WriteFails, Fault, EndThread, TcpLocs, TypeOK,
       SeatTypeOK, tcpVars, tcpState, points, clientView, env, playerVars,
       seatSync
  <2> QED BY <2>3, <2>4, <2>5 DEF TypeOK, GMTypeOK
<1>3. CASE BySeat(AcceptCard(s))
  <2>1. AcceptCard(s) /\ UNCHANGED mainVars
    BY <1>3 DEF BySeat
  <2>2. AdmissionTypeOK'
    BY <2>1, SizesAssumption, StarterAssumption DEF AcceptCard, AddCardToLewa,
       TypeOK, GMTypeOK, AdmissionTypeOK, admission
  <2>3. TurnTypeOK'
    BY <2>1, SizesAssumption, StarterAssumption DEF AcceptCard, AddCardToLewa,
       TypeOK, GMTypeOK, TurnTypeOK, turn
  <2>4. LewaTypeOK'
    BY <2>1, SizesAssumption, StarterAssumption DEF AcceptCard, AddCardToLewa,
       TypeOK, GMTypeOK, LewaTypeOK, lewa
  <2>5. RoundTypeOK'
    BY <2>1, SizesAssumption, StarterAssumption DEF AcceptCard, AddCardToLewa,
       TypeOK, GMTypeOK, RoundTypeOK, round
  <2>6. MainTypeOK'
    BY <2>1, MainFrame DEF TypeOK
  <2>7. SeatTypeOK'
    BY <2>1, MaxFaultsAssumption DEF AcceptCard, ReadCommand, Served, Release,
       WriteFails, Fault, EndThread, TcpLocs, TypeOK, SeatTypeOK, tcpVars,
       tcpState, points, clientView, env, playerVars, seatSync
  <2> QED BY <2>2, <2>3, <2>4, <2>5, <2>6, <2>7 DEF TypeOK, GMTypeOK
<1>4. CASE BySeat(CardOverflows(s))
  <2>1. CardOverflows(s) /\ UNCHANGED mainVars
    BY <1>4 DEF BySeat
  <2>2. GMTypeOK'
    BY <2>1, GMFrame DEF CardOverflows, TypeOK
  <2>3. MainTypeOK'
    BY <2>1, MainFrame DEF TypeOK
  <2>4. SeatTypeOK'
    BY <2>1, MaxFaultsAssumption DEF CardOverflows, ReadCommand, Served,
       Release, WriteFails, Fault, EndThread, TcpLocs, TypeOK, SeatTypeOK,
       tcpVars, tcpState, points, clientView, env, playerVars, seatSync
  <2> QED BY <2>2, <2>3, <2>4 DEF TypeOK, GMTypeOK
<1>5. CASE BySeat(HandleTaken(s))
  <2>1. HandleTaken(s) /\ UNCHANGED mainVars
    BY <1>5 DEF BySeat
  <2>arg. Append(taken_seen[s], lewa_id) \in Seq(Nat)
    BY SizesAssumption DEF TypeOK, SeatTypeOK, GMTypeOK, LewaTypeOK
  <2>2. Tail(child_pipe[s]) \in Seq(Commands)
    BY <2>1 DEF HandleTaken, ReadCommand, Told, TypeOK, SeatTypeOK
  <2>3. OutcomeTypeOK'
    BY <2>1, ServedTypes, WriteFailsTypes DEF HandleTaken, TypeOK
  <2>4. lewa_id \in Nat
    BY SizesAssumption DEF TypeOK, GMTypeOK, LewaTypeOK, TurnTypeOK
  <2>5. GMTypeOK'
    BY <2>1, GMFrame DEF HandleTaken, TypeOK
  <2>6. MainTypeOK'
    BY <2>1, MainFrame DEF TypeOK
  <2>7. SeatTypeOK'
    <3>1. announced' \in [Seats -> Seats \cup {NONE_POS}] /\ taken_seen' \in [Seats -> Seq(Nat)]
      BY <2>1, <2>4, <2>arg DEF HandleTaken, Served, WriteFails, EndThread,
         TypeOK, SeatTypeOK, clientView, points, tcpVars
    <3>2. cards_played' \in [Seats -> Nat] /\ curr_game_points' \in [Seats -> Nat] /\ all_points' \in [Seats -> Nat]
      BY <2>1 DEF HandleTaken, TypeOK, SeatTypeOK, clientView, points, tcpVars
    <3>3. loc' = loc /\ sub' = sub /\ child_pipe' \in [Seats -> Seq(Commands)]
      BY <2>1, <2>2 DEF HandleTaken, ReadCommand, playerVars, TypeOK, SeatTypeOK
    <3> QED BY <2>3, <3>1, <3>2, <3>3 DEF OutcomeTypeOK, TypeOK, SeatTypeOK
  <2> QED BY <2>5, <2>6, <2>7 DEF TypeOK, GMTypeOK
<1>10. CASE BySeat(TakenThrows(s))
  <2>1. TakenThrows(s) /\ UNCHANGED mainVars
    BY <1>10 DEF BySeat
  <2>2. Tail(child_pipe[s]) \in Seq(Commands)
    BY <2>1 DEF TakenThrows, ReadCommand, Told, TypeOK, SeatTypeOK
  <2>3. GMTypeOK'
    BY <2>1, GMFrame DEF TakenThrows, TypeOK
  <2>4. MainTypeOK'
    BY <2>1, MainFrame DEF TypeOK
  <2>5. SeatTypeOK'
    BY <2>1, <2>2 DEF TakenThrows, ReadCommand, EndThread, TcpLocs, TypeOK, SeatTypeOK,
       tcpVars, tcpState, points, clientView, playerVars, seatSync
  <2> QED BY <2>3, <2>4, <2>5 DEF TypeOK, GMTypeOK
<1>6. CASE BySeat(HandleScore(s))
  <2>1. HandleScore(s) /\ UNCHANGED mainVars
    BY <1>6 DEF BySeat
  <2>2. Tail(child_pipe[s]) \in Seq(Commands)
    BY <2>1 DEF HandleScore, ReadCommand, Told, TypeOK, SeatTypeOK
  <2>3. OutcomeTypeOK'
    BY <2>1, ServedTypes, WriteFailsTypes DEF HandleScore, TypeOK
  <2>4. GMTypeOK'
    BY <2>1, GMFrame DEF HandleScore, TypeOK
  <2>5. MainTypeOK'
    BY <2>1, MainFrame DEF TypeOK
  <2>6. SeatTypeOK'
    <3>1. announced' \in [Seats -> Seats \cup {NONE_POS}] /\ taken_seen' \in [Seats -> Seq(Nat)]
      BY <2>1 DEF HandleScore, Served, WriteFails, EndThread, TypeOK,
         SeatTypeOK, clientView, points, tcpVars
    <3>2. cards_played' \in [Seats -> Nat] /\ curr_game_points' \in [Seats -> Nat] /\ all_points' \in [Seats -> Nat]
      BY <2>1 DEF HandleScore, TypeOK, SeatTypeOK, clientView, points, tcpVars
    <3>3. loc' = loc /\ sub' = sub /\ child_pipe' \in [Seats -> Seq(Commands)]
      BY <2>1, <2>2 DEF HandleScore, ReadCommand, playerVars, TypeOK, SeatTypeOK
    <3> QED BY <2>3, <3>1, <3>2, <3>3 DEF OutcomeTypeOK, TypeOK, SeatTypeOK
  <2> QED BY <2>4, <2>5, <2>6 DEF TypeOK, GMTypeOK
<1>7. CASE BySeat(HandleTotal(s))
  <2>1. HandleTotal(s) /\ UNCHANGED mainVars
    BY <1>7 DEF BySeat
  <2>2. Tail(child_pipe[s]) \in Seq(Commands)
    BY <2>1 DEF HandleTotal, ReadCommand, Told, TypeOK, SeatTypeOK
  <2>3. OutcomeTypeOK'
    BY <2>1, ServedTypes, WriteFailsTypes DEF HandleTotal, TypeOK
  <2>4. GMTypeOK'
    BY <2>1, GMFrame DEF HandleTotal, TypeOK
  <2>5. MainTypeOK'
    BY <2>1, MainFrame DEF TypeOK
  <2>6. SeatTypeOK'
    BY <2>1, <2>2, <2>3, MaxFaultsAssumption DEF HandleTotal, OutcomeTypeOK,
       ReadCommand, Served, WriteFails, EndThread, TypeOK, SeatTypeOK, tcpVars,
       tcpState, points, clientView, env, playerVars, seatSync
  <2> QED BY <2>4, <2>5, <2>6 DEF TypeOK, GMTypeOK
<1>8. CASE BySeat(HandleEnd(s))
  <2>1. HandleEnd(s) /\ UNCHANGED mainVars
    BY <1>8 DEF BySeat
  <2>2. Tail(child_pipe[s]) \in Seq(Commands)
    BY <2>1 DEF HandleEnd, ReadCommand, Told, TypeOK, SeatTypeOK
  <2>3. GMTypeOK'
    BY <2>1, GMFrame DEF HandleEnd, TypeOK
  <2>4. MainTypeOK'
    BY <2>1, MainFrame DEF TypeOK
  <2>5. SeatTypeOK'
    BY <2>1, <2>2, MaxFaultsAssumption, SMTT(30) DEF HandleEnd, ReadCommand, Served,
       Release, WriteFails, Fault, EndThread, TcpLocs, TypeOK, SeatTypeOK,
       tcpVars, tcpState, points, clientView, env, playerVars, seatSync
  <2> QED BY <2>3, <2>4, <2>5 DEF TypeOK, GMTypeOK
<1>9. CASE BySeat(Resync(s))
  <2>1. Resync(s) /\ UNCHANGED mainVars
    BY <1>9 DEF BySeat
  <2>2. WriteFails(s, "resync") => OutcomeTypeOK'
    BY WriteFailsTypes DEF TypeOK
  <2>3. first_player \in Seats
    BY DEF TypeOK, GMTypeOK, TurnTypeOK
  <2>4. [i \in 1 .. Len(lewas_played) |-> i] \in Seq(Nat)
    BY DEF TypeOK, GMTypeOK, RoundTypeOK
  <2>5. GMTypeOK'
    BY <2>1, GMFrame DEF Resync, TypeOK
  <2>6. MainTypeOK'
    BY <2>1, MainFrame DEF TypeOK
  <2>7. SeatTypeOK'
    <3>1. CASE WriteFails(s, "resync")
      BY <2>1, <2>2, <3>1 DEF Resync, OutcomeTypeOK, WriteFails, EndThread,
         TypeOK, SeatTypeOK, clientView, points, playerVars
    <3>2. CASE ~WriteFails(s, "resync")
      <4> DEFINE seen == [i \in 1 .. Len(lewas_played) |-> i]
      <4>1. /\ taken_seen' = [taken_seen EXCEPT ![s] = seen]
            /\ semaphore_TCP' = [semaphore_TCP EXCEPT ![s] = @ + 1]
            /\ tcp' = [tcp EXCEPT ![s] = "poll"]
            /\ announced' = [announced EXCEPT ![s] = first_player]
        BY <2>1, <3>2 DEF Resync, Release
      <4>2. seen \in Seq(Nat)
        BY <2>4
      <4> HIDE DEF seen
      <4>3. taken_seen' \in [Seats -> Seq(Nat)]
        BY <4>1, <4>2 DEF TypeOK, SeatTypeOK
      <4>4. /\ semaphore_TCP' \in [Seats -> Nat] /\ tcp' \in [Seats -> TcpLocs]
            /\ announced' \in [Seats -> Seats \cup {NONE_POS}]
        BY <2>3, <4>1, SMTT(30) DEF TcpLocs, TypeOK, SeatTypeOK
      <4> QED BY <2>1, <3>2, <4>3, <4>4 DEF Resync, TypeOK, SeatTypeOK, env,
          clientView, points, playerVars
    <3> QED BY <3>1, <3>2
  <2> QED BY <2>5, <2>6, <2>7 DEF TypeOK, GMTypeOK
<1> QED BY <1>1, <1>2, <1>3, <1>4, <1>5, <1>6, <1>7, <1>8, <1>9, <1>10 DEF TcpStep

(***************************************************************************)
(* Types: the failures of a client or of its connection.                   *)
(***************************************************************************)
LEMMA TypeFailure ==
    ASSUME TypeOK, Handoff, TakerKnown, NEW s \in Seats, FailureStep(s)
    PROVE  TypeOK'
<1>1. CASE BySeat(LoseClientInPoll(s))
  <2>1. LoseClientInPoll(s) /\ UNCHANGED mainVars
    BY <1>1 DEF BySeat
  <2>2. GMTypeOK'
    BY <2>1, GMFrame DEF LoseClientInPoll, TypeOK
  <2>3. MainTypeOK'
    BY <2>1, MainFrame DEF TypeOK
  <2>4. SeatTypeOK'
    BY <2>1, MaxFaultsAssumption DEF LoseClientInPoll, ReadCommand, Served,
       Release, WriteFails, Fault, EndThread, TcpLocs, TypeOK, SeatTypeOK,
       tcpVars, tcpState, points, clientView, env, playerVars, seatSync
  <2> QED BY <2>2, <2>3, <2>4 DEF TypeOK, GMTypeOK
<1>2. CASE BySeat(LoseClientInTrick(s))
  <2>1. LoseClientInTrick(s) /\ UNCHANGED mainVars
    BY <1>2 DEF BySeat
  <2>2. GMTypeOK'
    BY <2>1, GMFrame DEF LoseClientInTrick, TypeOK
  <2>3. MainTypeOK'
    BY <2>1, MainFrame DEF TypeOK
  <2>4. SeatTypeOK'
    BY <2>1, MaxFaultsAssumption DEF LoseClientInTrick, ReadCommand, Served,
       Release, WriteFails, Fault, EndThread, TcpLocs, TypeOK, SeatTypeOK,
       tcpVars, tcpState, points, clientView, env, playerVars, seatSync
  <2> QED BY <2>2, <2>3, <2>4 DEF TypeOK, GMTypeOK
<1>3. CASE BySeat(ResetInTrick(s))
  <2>1. ResetInTrick(s) /\ UNCHANGED mainVars
    BY <1>3 DEF BySeat
  <2>2. GMTypeOK'
    BY <2>1, GMFrame DEF ResetInTrick, TypeOK
  <2>3. MainTypeOK'
    BY <2>1, MainFrame DEF TypeOK
  <2>4. SeatTypeOK'
    BY <2>1, MaxFaultsAssumption DEF ResetInTrick, ReadCommand, Served,
       Release, WriteFails, Fault, EndThread, TcpLocs, TypeOK, SeatTypeOK,
       tcpVars, tcpState, points, clientView, env, playerVars, seatSync
  <2> QED BY <2>2, <2>3, <2>4 DEF TypeOK, GMTypeOK
<1>4. CASE BySeat(WrongAborts(s))
  <2>1. WrongAborts(s) /\ UNCHANGED mainVars
    BY <1>4 DEF BySeat
  <2>2. GMTypeOK'
    BY <2>1, GMFrame DEF WrongAborts, TypeOK
  <2>3. MainTypeOK'
    BY <2>1, MainFrame DEF TypeOK
  <2>4. SeatTypeOK'
    BY <2>1, MaxFaultsAssumption DEF WrongAborts, ReadCommand, Served, Release,
       WriteFails, Fault, EndThread, TcpLocs, TypeOK, SeatTypeOK, tcpVars,
       tcpState, points, clientView, env, playerVars, seatSync
  <2> QED BY <2>2, <2>3, <2>4 DEF TypeOK, GMTypeOK
<1>5. CASE BySeat(BrokenPipe(s))
  <2>1. BrokenPipe(s) /\ UNCHANGED mainVars
    BY <1>5 DEF BySeat
  <2>2. GMTypeOK'
    BY <2>1, GMFrame DEF BrokenPipe, TypeOK
  <2>3. MainTypeOK'
    BY <2>1, MainFrame DEF TypeOK
  <2>4. SeatTypeOK'
    BY <2>1, MaxFaultsAssumption DEF BrokenPipe, ReadCommand, Served, Release,
       WriteFails, Fault, EndThread, TcpLocs, TypeOK, SeatTypeOK, tcpVars,
       tcpState, points, clientView, env, playerVars, seatSync
  <2> QED BY <2>2, <2>3, <2>4 DEF TypeOK, GMTypeOK
<1> QED BY <1>1, <1>2, <1>3, <1>4, <1>5 DEF FailureStep

(***************************************************************************)
(* Types: the release with which a TCP thread ends.                        *)
(***************************************************************************)
LEMMA TypeSignal ==
    ASSUME TypeOK, NEW s \in Seats, SignalStep(s)
    PROVE  TypeOK'
<1>1. SignalEnded(s) /\ UNCHANGED mainVars
  BY DEF SignalStep, BySeat
<1>2. GMTypeOK'
  BY <1>1, GMFrame DEF SignalEnded, TypeOK
<1>3. MainTypeOK'
  BY <1>1, MainFrame DEF TypeOK
<1>4. SeatTypeOK'
  BY <1>1 DEF SignalEnded, Release, TypeOK, SeatTypeOK, playerVars, points,
     clientView, env
<1> QED BY <1>2, <1>3, <1>4 DEF TypeOK

(***************************************************************************)
(* Types: the barrier takes each thread to a place of thread_main.         *)
(***************************************************************************)
LEMMA TypeBarrier ==
    ASSUME TypeOK, BarrierStep
    PROVE  TypeOK'
<1>1. BarrierTrips /\ UNCHANGED mainVars
  BY DEF BarrierStep, BySeat
<1>2. GMTypeOK'
  BY <1>1, GMFrame DEF BarrierTrips, TypeOK
<1>3. MainTypeOK'
  BY <1>1, MainFrame DEF TypeOK
<1>4. \A s \in Seats : AfterBarrier(loc[s]) \in Locs
  BY <1>1 DEF BarrierTrips, AfterBarrier, BarrierLocs, Locs, CommLocs, StepLocs
<1>5. SeatTypeOK'
  BY <1>1, <1>4 DEF BarrierTrips, TypeOK, SeatTypeOK, seatSync, tcpVars,
     tcpState, points, clientView, env
<1> QED BY <1>2, <1>3, <1>5 DEF TypeOK

(***************************************************************************)
(* The seats' type invariant speaks of the seats' variables only.          *)
(***************************************************************************)
LEMMA SeatFrame ==
    SeatTypeOK /\ UNCHANGED <<playerVars, seatSync, tcpVars, env>> => SeatTypeOK'
  BY DEF SeatTypeOK, playerVars, seatSync, tcpVars, tcpState, points,
     clientView, env

(***************************************************************************)
(* Types: the main thread. It admits to request, which is a seat once a    *)
(* client has asked for one.                                               *)
(***************************************************************************)
LEMMA TypeMain ==
    ASSUME TypeOK, Admission, MainStep
    PROVE  TypeOK'
<1>1. CASE ByMain(CheckIfPositionTaken)
  BY <1>1, GMFrame, SeatFrame DEF ByMain, CheckIfPositionTaken, TypeOK,
     MainTypeOK
<1>2. CASE ByMain(SendBusy)
  BY <1>2, GMFrame, SeatFrame DEF ByMain, SendBusy, TypeOK, MainTypeOK
<1>3. CASE ByMain(AdmitNew) \/ ByMain(AdmitReplacement)
  <2>1. AddNewPlayer(request) /\ request \in Seats
    BY <1>3 DEF ByMain, AdmitNew, AdmitReplacement, Admission
  <2>2. AdmissionTypeOK'
    BY <2>1, SizesAssumption DEF AddNewPlayer, TypeOK, GMTypeOK, AdmissionTypeOK
  <2>3. TurnTypeOK' /\ LewaTypeOK' /\ RoundTypeOK'
    BY <2>1 DEF AddNewPlayer, TypeOK, GMTypeOK, TurnTypeOK, LewaTypeOK,
       RoundTypeOK, turn, lewa, round
  <2>4. SeatTypeOK'
    BY <1>3, SeatFrame DEF ByMain, AdmitNew, AdmitReplacement, TypeOK
  <2>5. MainTypeOK'
    BY <1>3 DEF ByMain, AdmitNew, AdmitReplacement, TypeOK, MainTypeOK
  <2> QED BY <2>2, <2>3, <2>4, <2>5 DEF TypeOK, GMTypeOK
<1>4. CASE ByMain(Spawn)
  <2>1. Spawn
    BY <1>4 DEF ByMain
  <2>2. SeatTypeOK'
    BY <2>1 DEF Spawn, Goto, TypeOK, SeatTypeOK, seatSync, points, clientView,
       env, Locs, BarrierLocs, TcpLocs
  <2> QED BY <2>1, <2>2, GMFrame DEF Spawn, TypeOK, MainTypeOK
<1>5. CASE ByMain(Exit)
  <2>1. Exit
    BY <1>5 DEF ByMain
  <2>2. SeatTypeOK'
    BY <2>1 DEF Exit, TypeOK, SeatTypeOK, playerVars, seatSync, tcpVars,
       tcpState, points, clientView
  <2> QED BY <2>1, <2>2, GMFrame, MainFrame DEF Exit, TypeOK
<1> QED BY <1>1, <1>2, <1>3, <1>4, <1>5 DEF MainStep

(***************************************************************************)
(* Types: a client asks for a seat.                                        *)
(***************************************************************************)
LEMMA TypeJoin ==
    ASSUME TypeOK, NEW s \in Seats, JoinStep(s)
    PROVE  TypeOK'
  BY GMFrame, SeatFrame DEF JoinStep, ByMain, JoinRequest, TypeOK, MainTypeOK

(***************************************************************************)
(* Types: nothing changes.                                                 *)
(***************************************************************************)
LEMMA TypeStutter ==
    ASSUME TypeOK, UNCHANGED vars
    PROVE  TypeOK'
  BY GMFrame, SeatFrame, MainFrame DEF vars, TypeOK

(***************************************************************************)
(* Types: the initial state.                                               *)
(***************************************************************************)
LEMMA TypeInit == Init => TypeOK
<1> SUFFICES ASSUME Init PROVE TypeOK
  OBVIOUS
<1>1. GMTypeOK
  <2>1. << >> \in Seq(Seats) /\ << >> \in Seq(Seats \cup {NONE_POS}) /\ Starter[1] \in Seats /\ 1 \in Rounds
    BY SizesAssumption, StarterAssumption DEF Rounds
  <2>2. AdmissionTypeOK
    BY SizesAssumption DEF Init, GMInit, AdmissionTypeOK
  <2>3. TurnTypeOK
    BY <2>1 DEF Init, GMInit, TurnTypeOK
  <2>4. LewaTypeOK
    BY <2>1, SizesAssumption DEF Init, GMInit, LewaTypeOK
  <2>5. RoundTypeOK
    BY <2>1 DEF Init, GMInit, RoundTypeOK
  <2> QED BY <2>2, <2>3, <2>4, <2>5 DEF GMTypeOK
<1>2. SeatTypeOK
  <2>1. << >> \in Seq(Commands) /\ << >> \in Seq(Nat)
    OBVIOUS
  <2> QED BY <2>1, MaxFaultsAssumption DEF Init, SeatInit, SeatTypeOK, Locs,
      Subs, TcpLocs
<1>3. MainTypeOK
  BY DEF Init, MainInit, MainTypeOK
<1> QED BY <1>1, <1>2, <1>3 DEF TypeOK

-----------------------------------------------------------------------------
(* The permit to play.                                                     *)

(***************************************************************************)
(* What the proof of TurnToken carries along: the lead is given to a taker *)
(* that has been decided.                                                  *)
(***************************************************************************)
Token == TurnToken /\ TakerKnown

(***************************************************************************)
(* The permit is where it was when neither a player thread nor the turn    *)
(* moves.                                                                  *)
(***************************************************************************)
LEMMA TokenStill ==
    ASSUME Token, UNCHANGED <<loc, turn, who_won_lewa>>
    PROVE  Token'
  BY DEF Token, TurnToken, TakerKnown, Holders, turn

(***************************************************************************)
(* The permit stays with its holder while a player thread moves between    *)
(* places that hold it, or between places that do not.                     *)
(***************************************************************************)
LEMMA TokenMove ==
    ASSUME TypeOK, Token, NEW s \in Seats, NEW to, Goto(s, to), UNCHANGED turn,
           loc[s] \in HolderLocs <=> to \in HolderLocs,
           to = "lead" => who_won_lewa' \in Seats,
           who_won_lewa' = who_won_lewa \/ who_won_lewa' \in Seats
    PROVE  Token'
<1>1. loc' = [loc EXCEPT ![s] = to] /\ loc \in [Seats -> Locs]
  BY DEF Goto, TypeOK, SeatTypeOK
<1>2. Holders' = Holders
  BY <1>1 DEF Holders
<1>3. TakerKnown'
  BY <1>1 DEF Token, TakerKnown
<1> QED BY <1>2, <1>3 DEF Token, TurnToken, turn

(***************************************************************************)
(* Permit: a thread that has sent TRICK keeps the permit while it talks to *)
(* its client.                                                             *)
(***************************************************************************)
LEMMA TokenTalk ==
    ASSUME TypeOK, Handoff, Token, NEW s \in Seats, TalkStep(s)
    PROVE  Token'
<1>1. CASE BySeat(CollectServed(s))
  <2>1. CollectServed(s)
    BY <1>1 DEF BySeat
  <2>2. loc[s] \in CommLocs
    BY <2>1 DEF CollectServed, Handoff, HandoffOf
  <2>3. /\ loc[s] \in HolderLocs <=> AfterCommand(loc[s]) \in HolderLocs
        /\ AfterCommand(loc[s]) # "lead"
    BY <2>2 DEF AfterCommand, CommLocs, HolderLocs
  <2>4. UNCHANGED <<turn, who_won_lewa>> /\ Goto(s, AfterCommand(loc[s]))
    BY <2>1 DEF CollectServed, gmVars, lewa
  <2> QED BY <2>3, <2>4, TokenMove
<1>2. CASE ~BySeat(CollectServed(s))
  <2>1. UNCHANGED <<loc, turn, who_won_lewa>>
    BY <1>2 DEF TalkStep, BySeat, SendCommand, CollectEnded, Recover,
       SetPlayerLeft, Replace, AcquireDisconnectedSem, ResendCommand, gmVars,
       lewa
  <2> QED BY <2>1, TokenStill
<1> QED BY <1>1, <1>2

(***************************************************************************)
(* Permit: it is taken in wait_for_turn, and given to the next seat, to    *)
(* the taker, or to the starter of the next round, which first takes it    *)
(* back from the last taker (prepare_new_round).                           *)
(***************************************************************************)
LEMMA TokenGame ==
    ASSUME TypeOK, Token, NEW s \in Seats, GameStep(s)
    PROVE  Token'
<1>0. /\ loc \in [Seats -> Locs] /\ whose_turn \in Seats
      /\ semaphore_map \in [Seats -> Nat]
  BY DEF TypeOK, SeatTypeOK, GMTypeOK, TurnTypeOK
<1>1. CASE BySeat(TakeTurn(s))
  <2>1. TakeTurn(s) /\ semaphore_map[s] > 0
    BY <1>1 DEF BySeat, TakeTurn, WaitForTurn
  <2>2. Holders = {} /\ s = whose_turn
        /\ semaphore_map = [t \in Seats |-> IF t = whose_turn THEN 1 ELSE 0]
    BY <2>1 DEF Token, TurnToken
  <2>3. loc' = [loc EXCEPT ![s] = "trick"] /\ UNCHANGED <<whose_turn, who_won_lewa>>
    BY <2>1 DEF TakeTurn, Step, Goto, WaitForTurn, lewa
  <2>4. Holders' = {whose_turn}
    BY <1>0, <2>2, <2>3 DEF Holders, HolderLocs
  <2>5. semaphore_map' = [t \in Seats |-> 0]
    BY <2>1, <2>2 DEF TakeTurn, WaitForTurn
  <2> QED BY <1>0, <2>3, <2>4, <2>5 DEF Token, TurnToken, TakerKnown
<1>2. CASE BySeat(CheckFull(s))
  <2>1. \E to \in {"won", "pass"} : loc[s] = "full" /\ Goto(s, to)
    BY <1>2 DEF BySeat, CheckFull, Step
  <2>2. UNCHANGED <<turn, who_won_lewa>>
    BY <1>2 DEF BySeat, CheckFull, gmVars, lewa
  <2> QED BY <2>1, <2>2, TokenMove DEF HolderLocs
<1>3. CASE BySeat(DecideTaker(s))
  <2>1. loc[s] = "won" /\ Goto(s, "lead") /\ UNCHANGED turn /\ who_won_lewa' \in Seats
    BY <1>3 DEF BySeat, DecideTaker, Step, CheckWhoWonLewa
  <2> QED BY <2>1, TokenMove DEF HolderLocs
<1>4. CASE BySeat(GiveLead(s))
  <2>1. GiveLead(s) /\ loc[s] = "lead" /\ who_won_lewa \in Seats
    BY <1>4 DEF BySeat, GiveLead, Step, Token, TakerKnown
  <2>2. Holders = {whose_turn} /\ s = whose_turn /\ semaphore_map = [t \in Seats |-> 0]
    BY <2>1 DEF Token, TurnToken, Holders, HolderLocs
  <2>3. /\ loc' = [loc EXCEPT ![s] = "count"] /\ whose_turn' = who_won_lewa
        /\ semaphore_map' = [semaphore_map EXCEPT ![who_won_lewa] = @ + 1]
        /\ UNCHANGED who_won_lewa
    BY <2>1 DEF GiveLead, Step, Goto, SetFirstPlayerForNextTurn, lewa
  <2>4. Holders' = {}
    BY <1>0, <2>2, <2>3 DEF Holders, HolderLocs
  <2>5. semaphore_map' = [t \in Seats |-> IF t = whose_turn' THEN 1 ELSE 0]
    BY <2>2, <2>3
  <2> QED BY <1>0, <2>3, <2>4, <2>5 DEF Token, TurnToken, TakerKnown
<1>5. CASE BySeat(CountCards(s))
  <2>1. loc[s] = "count" /\ Goto(s, "passed") /\ UNCHANGED <<turn, who_won_lewa>>
    BY <1>5 DEF BySeat, CountCards, Step, CountCardsPlayed, lewa
  <2> QED BY <2>1, TokenMove DEF HolderLocs
<1>6. CASE BySeat(PassTurn(s))
  <2>1. PassTurn(s) /\ loc[s] = "pass" /\ FollowingSeat(whose_turn) \in Seats
    BY <1>0, <1>6, SizesAssumption DEF BySeat, PassTurn, Step, FollowingSeat,
       Seats
  <2>2. Holders = {whose_turn} /\ s = whose_turn /\ semaphore_map = [t \in Seats |-> 0]
    BY <2>1 DEF Token, TurnToken, Holders, HolderLocs
  <2>3. /\ loc' = [loc EXCEPT ![s] = "passed"] /\ whose_turn' = FollowingSeat(whose_turn)
        /\ semaphore_map' = [semaphore_map EXCEPT ![FollowingSeat(whose_turn)] = @ + 1]
        /\ UNCHANGED who_won_lewa
    BY <2>1 DEF PassTurn, Step, Goto, NextPlayerTurn, lewa
  <2>4. Holders' = {}
    BY <1>0, <2>2, <2>3 DEF Holders, HolderLocs
  <2>5. semaphore_map' = [t \in Seats |-> IF t = whose_turn' THEN 1 ELSE 0]
    BY <2>1, <2>2, <2>3
  <2> QED BY <1>0, <2>3, <2>4, <2>5 DEF Token, TurnToken, TakerKnown
<1>7. CASE BySeat(ClearTable(s))
  <2>1. loc[s] = "newlewa" /\ Goto(s, "cleared") /\ UNCHANGED <<turn, who_won_lewa>>
    BY <1>7 DEF BySeat, ClearTable, Step, PrepareNewLewa
  <2> QED BY <2>1, TokenMove DEF HolderLocs
<1>8. CASE BySeat(CheckRound(s))
  <2>1. \E to \in {"score", "turn"} : loc[s] = "over" /\ Goto(s, to)
    BY <1>8 DEF BySeat, CheckRound, Step
  <2>2. UNCHANGED <<turn, who_won_lewa>>
    BY <1>8 DEF BySeat, CheckRound, gmVars, lewa
  <2> QED BY <2>1, <2>2, TokenMove DEF HolderLocs
<1>9. CASE BySeat(CheckLastRound(s))
  <2>1. \E to \in {"leave", "nextround"} : loc[s] = "last" /\ Goto(s, to)
    BY <1>9 DEF BySeat, CheckLastRound, Step
  <2>2. UNCHANGED <<turn, who_won_lewa>>
    BY <1>9 DEF BySeat, CheckLastRound, gmVars, lewa
  <2> QED BY <2>1, <2>2, TokenMove DEF HolderLocs
<1>10. CASE BySeat(StartRound(s))
  <2>1. StartRound(s) /\ loc[s] = "newround" /\ Goto(s, "start")
    BY <1>10 DEF BySeat, StartRound, Step
  <2>2. CASE lewa_id > 1
    <3> DEFINE starter == Starter[round_number + 1]
               back == [semaphore_map EXCEPT ![whose_turn] = @ - 1]
    <3>1. /\ semaphore_map[whose_turn] > 0
          /\ whose_turn' = starter
          /\ semaphore_map' = [back EXCEPT ![starter] = @ + 1]
          /\ round_number # NumRounds
      BY <2>1, <2>2 DEF StartRound, PrepareNewRound, NewRoundDefined, LastRound
    <3>2. starter \in Seats
      BY <3>1, SizesAssumption, StarterAssumption DEF Rounds, TypeOK, GMTypeOK,
         RoundTypeOK
    <3>3. Holders = {}
          /\ semaphore_map = [t \in Seats |-> IF t = whose_turn THEN 1 ELSE 0]
      BY <1>0, <3>1 DEF Token, TurnToken
    <3>4. back = [t \in Seats |-> 0]
      BY <3>3
    <3>5. loc' = [loc EXCEPT ![s] = "start"]
      BY <2>1 DEF Goto
    <3> HIDE DEF back, starter
    <3>6. Holders' = {}
      BY <1>0, <3>3, <3>5 DEF Holders, HolderLocs
    <3>7. semaphore_map' = [t \in Seats |-> IF t = whose_turn' THEN 1 ELSE 0]
      BY <3>1, <3>2, <3>4
    <3>8. TakerKnown'
      BY <3>6 DEF TakerKnown, Holders, HolderLocs
    <3> QED BY <3>6, <3>7, <3>8 DEF Token, TurnToken
  <2>3. CASE ~(lewa_id > 1)
    <3>1. UNCHANGED <<turn, who_won_lewa>>
      BY <2>1, <2>3 DEF StartRound, PrepareNewRound, lewa
    <3> QED BY <2>1, <3>1, TokenMove DEF HolderLocs
  <2> QED BY <2>2, <2>3
<1>11. CASE BySeat(MonitorThrows(s))
  BY <1>11, TokenStill DEF BySeat, MonitorThrows, playerVars, gmVars, lewa
<1>12. CASE ByMain(LeaveGame(s))
  <2>1. loc[s] = "leave" /\ Goto(s, "end") /\ UNCHANGED <<turn, who_won_lewa>>
    BY <1>12 DEF ByMain, LeaveGame, DecrementPresentPlayers, lewa
  <2> QED BY <2>1, TokenMove DEF HolderLocs
<1>13. CASE BySeat(SendEnd(s))
  <2>1. loc[s] = "end" /\ Goto(s, "endwait") /\ UNCHANGED <<turn, who_won_lewa>>
    BY <1>13 DEF BySeat, SendEnd, gmVars, lewa
  <2> QED BY <2>1, TokenMove DEF HolderLocs
<1>14. CASE BySeat(CollectEnd(s))
  <2>1. loc[s] = "endwait" /\ Goto(s, "finished") /\ UNCHANGED <<turn, who_won_lewa>>
    BY <1>14 DEF BySeat, CollectEnd, gmVars, lewa
  <2> QED BY <2>1, TokenMove DEF HolderLocs
<1> QED BY <1>1, <1>2, <1>3, <1>4, <1>5, <1>6, <1>7, <1>8, <1>9, <1>10, <1>11,
    <1>12,
           <1>13, <1>14 DEF GameStep

(***************************************************************************)
(* Permit: the TCP threads do not touch the turn.                          *)
(***************************************************************************)
LEMMA TokenSocket ==
    ASSUME Token, NEW s \in Seats, TcpStep(s) \/ SignalStep(s) \/ FailureStep(s)
    PROVE  Token'
<1>1. UNCHANGED <<turn, who_won_lewa>>
  BY DEF TcpStep, SignalStep, FailureStep, BySeat, HandleDeal, AskForCard,
     AcceptCard, AddCardToLewa, CardOverflows, HandleTaken, TakenThrows, HandleScore,
     HandleTotal, HandleEnd, Resync, SignalEnded, LoseClientInPoll,
     LoseClientInTrick, ResetInTrick, WrongAborts, BrokenPipe, gmVars, lewa
<1>2. UNCHANGED loc
  BY DEF TcpStep, SignalStep, FailureStep, BySeat, HandleDeal, AskForCard,
     AcceptCard, CardOverflows, HandleTaken, TakenThrows, HandleScore, HandleTotal,
     HandleEnd, Resync, SignalEnded, LoseClientInPoll, LoseClientInTrick,
     ResetInTrick, WrongAborts, BrokenPipe, playerVars
<1> QED BY <1>1, <1>2, TokenStill

(***************************************************************************)
(* Permit: no thread holds it at a barrier, nor after one.                 *)
(***************************************************************************)
LEMMA TokenBarrier ==
    ASSUME TypeOK, Token, BarrierStep
    PROVE  Token'
<1>1. BarrierTrips
  BY DEF BarrierStep, BySeat
<1>2. Holders = {}
  BY <1>1 DEF BarrierTrips, Holders, HolderLocs, BarrierLocs
<1>3. \A s \in Seats : AfterBarrier(loc[s]) \notin HolderLocs
  BY <1>1 DEF BarrierTrips, AfterBarrier, HolderLocs, BarrierLocs
<1>4. \A s \in Seats : loc'[s] \notin HolderLocs
  BY <1>1, <1>3 DEF BarrierTrips
<1>5. Holders' = {} /\ TakerKnown'
  BY <1>4 DEF Holders, HolderLocs, TakerKnown
<1>6. UNCHANGED turn
  BY <1>1 DEF BarrierTrips, gmVars
<1> QED BY <1>2, <1>5, <1>6 DEF Token, TurnToken, turn

(***************************************************************************)
(* Permit: the main thread does not touch the turn.                        *)
(***************************************************************************)
LEMMA TokenMain ==
    ASSUME TypeOK, Token, Admission, MainStep
    PROVE  Token'
<1>1. UNCHANGED <<turn, who_won_lewa>>
  BY DEF MainStep, ByMain, CheckIfPositionTaken, SendBusy, AdmitNew,
     AdmitReplacement, AddNewPlayer, Spawn, Exit, gmVars, lewa
<1>2. CASE ByMain(Spawn)
  BY <1>1, <1>2, TokenMove DEF ByMain, Spawn, Admission, HolderLocs
<1>3. CASE ~ByMain(Spawn)
  <2>1. UNCHANGED loc
    BY <1>3 DEF MainStep, ByMain, CheckIfPositionTaken, SendBusy, AdmitNew,
       AdmitReplacement, Exit, playerVars
  <2> QED BY <1>1, <2>1, TokenStill
<1> QED BY <1>2, <1>3

(***************************************************************************)
(* Permit: a client asks for a seat.                                       *)
(***************************************************************************)
LEMMA TokenJoin ==
    ASSUME Token, NEW s \in Seats, JoinStep(s)
    PROVE  Token'
  BY TokenStill DEF JoinStep, ByMain, JoinRequest, playerVars, gmVars, lewa

(***************************************************************************)
(* Permit: nothing changes.                                                *)
(***************************************************************************)
LEMMA TokenStutter == Token /\ UNCHANGED vars => Token'
  BY TokenStill DEF vars, playerVars, gmVars, lewa

(***************************************************************************)
(* Permit: the initial state; the constructor gave it to the first         *)
(* starter.                                                                *)
(***************************************************************************)
LEMMA TokenInit == Init => Token
  BY DEF Init, GMInit, SeatInit, Token, TurnToken, Holders, HolderLocs,
     TakerKnown

-----------------------------------------------------------------------------
(* The hand-off.                                                           *)

(***************************************************************************)
(* The hand-off variables of a seat do not change.                         *)
(***************************************************************************)
SeatStill(t) ==
    /\ loc'[t] = loc[t] /\ sub'[t] = sub[t]
    /\ child_pipe'[t] = child_pipe[t] /\ semaphore_TCP'[t] = semaphore_TCP[t]
    /\ tcp'[t] = tcp[t] /\ thread_ended'[t] = thread_ended[t] /\ dying'[t] = dying[t]

(***************************************************************************)
(* A seat whose hand-off variables do not change keeps its hand-off.       *)
(***************************************************************************)
LEMMA HandoffOfStill ==
    ASSUME NEW t \in Seats, HandoffOf(t), SeatStill(t)
    PROVE  HandoffOf(t)'
  BY DEF HandoffOf, SeatStill, DuringCommand, DuringSync, DuringEnd,
     BetweenCommands, Working, Lost, Done, Gone, Pending

(***************************************************************************)
(* A step that touches one seat has to restore the hand-off of that seat   *)
(* only.                                                                   *)
(***************************************************************************)
LEMMA HandoffLocal ==
    ASSUME Handoff, NEW s \in Seats, HandoffOf(s)',
           \A t \in Seats \ {s} : SeatStill(t)
    PROVE  Handoff'
  BY HandoffOfStill DEF Handoff

(***************************************************************************)
(* A step that touches no seat keeps every hand-off.                       *)
(***************************************************************************)
LEMMA HandoffStill ==
    ASSUME Handoff, UNCHANGED <<playerVars, seatSync, tcpState>>
    PROVE  Handoff'
<1>1. \A t \in Seats : SeatStill(t)
  BY DEF SeatStill, playerVars, seatSync, tcpState
<1> QED BY <1>1, HandoffOfStill DEF Handoff

(***************************************************************************)
(* A pipe never holds more than one command; this is how such a pipe is    *)
(* written and read.                                                       *)
(***************************************************************************)
LEMMA PipeOfOne ==
    ASSUME NEW c
    PROVE  /\ Append(<< >>, c) = <<c>>
           /\ Head(<<c>>) = c /\ Tail(<<c>>) = << >> /\ <<c>> # << >>
  OBVIOUS

(***************************************************************************)
(* The commands of the round, told apart from one another and from END,    *)
(* and the places they lead to.                                            *)
(***************************************************************************)
LEMMA CommandNames ==
    ASSUME NEW l \in CommLocs
    PROVE  /\ CommandAt(l) # "END"
           /\ CommandAt(l) = "TRICK" => l = "trick"
           /\ AfterCommand(l) \notin CommLocs \cup {"none", "endwait", "finished"}
  BY DEF CommLocs, CommandAt, AfterCommand

(***************************************************************************)
(* A TCP thread that finds a command of the round in its pipe finds the    *)
(* one its player thread waits for, and no permit has been given for it    *)
(* yet.                                                                    *)
(***************************************************************************)
LEMMA CommandRead ==
    ASSUME TypeOK, Handoff, NEW s \in Seats, NEW c, c # "END", Told(s, c)
    PROVE  /\ sub[s] = "wait" /\ loc[s] \in CommLocs /\ CommandAt(loc[s]) = c
           /\ child_pipe[s] = <<c>> /\ Tail(child_pipe[s]) = << >>
           /\ Working(s, "poll")
<1>1. child_pipe[s] # << >> /\ tcp[s] = "poll" /\ Head(child_pipe[s]) = c
  BY DEF Told
<1>2. HandoffOf(s) /\ sub[s] \in Subs
  BY DEF Handoff, TypeOK, SeatTypeOK
<1>3. sub[s] \notin {"sync", "recover", "left"}
  BY <1>1, <1>2 DEF HandoffOf, DuringSync, Gone
<1>4. sub[s] # "ready"
  BY <1>1, <1>2, PipeOfOne DEF HandoffOf, BetweenCommands, DuringEnd, Gone
<1>5. sub[s] = "wait"
  BY <1>2, <1>3, <1>4 DEF Subs
<1>6. loc[s] \in CommLocs /\ DuringCommand(s)
  BY <1>2, <1>5 DEF HandoffOf
<1> QED BY <1>1, <1>5, <1>6, PipeOfOne DEF DuringCommand, Lost

(***************************************************************************)
(* A TCP thread that finds END in its pipe serves a player thread that has *)
(* left the game and waits.                                                *)
(***************************************************************************)
LEMMA EndRead ==
    ASSUME TypeOK, Handoff, NEW s \in Seats, Told(s, "END")
    PROVE  /\ sub[s] = "ready" /\ loc[s] = "endwait"
           /\ Tail(child_pipe[s]) = << >> /\ Working(s, "poll")
<1>1. child_pipe[s] # << >> /\ tcp[s] = "poll" /\ Head(child_pipe[s]) = "END"
  BY DEF Told
<1>2. HandoffOf(s) /\ sub[s] \in Subs
  BY DEF Handoff, TypeOK, SeatTypeOK
<1>3. sub[s] \notin {"sync", "recover", "left"}
  BY <1>1, <1>2 DEF HandoffOf, DuringSync, Gone
<1>4. sub[s] # "wait"
  BY <1>1, <1>2, PipeOfOne, CommandNames DEF HandoffOf, DuringCommand
<1>5. sub[s] = "ready"
  BY <1>2, <1>3, <1>4 DEF Subs
<1>6. loc[s] = "endwait"
  BY <1>1, <1>2, <1>5, PipeOfOne DEF HandoffOf, BetweenCommands, Gone
<1>7. DuringEnd(s)
  BY <1>2, <1>5, <1>6 DEF HandoffOf
<1> QED BY <1>1, <1>5, <1>6, <1>7, PipeOfOne DEF DuringEnd, Lost

(***************************************************************************)
(* Hand-off: the player thread writes a command and collects the permit;   *)
(* if the permit was the last act of its TCP thread it frees the seat,     *)
(* starts a new thread and sends the command again.                        *)
(***************************************************************************)
LEMMA HandoffTalk ==
    ASSUME TypeOK, Handoff, NEW s \in Seats, TalkStep(s)
    PROVE  Handoff'
<1> USE DEF TypeOK, SeatTypeOK
<1>0. HandoffOf(s)
  BY DEF Handoff
<1>1. CASE BySeat(SendCommand(s))
  <2>1. SendCommand(s)
    BY <1>1 DEF BySeat
  <2>2. BetweenCommands(s) /\ loc[s] \in CommLocs
    BY <1>0, <2>1 DEF SendCommand, HandoffOf, CommLocs
  <2>3. child_pipe'[s] = <<CommandAt(loc[s])>> /\ sub'[s] = "wait"
    BY <2>1, <2>2, PipeOfOne DEF SendCommand, BetweenCommands
  <2>4. HandoffOf(s)'
    BY <2>1, <2>2, <2>3 DEF SendCommand, HandoffOf, DuringCommand,
       BetweenCommands, Working, Lost, Pending, tcpVars, tcpState
  <2>5. \A t \in Seats \ {s} : SeatStill(t)
    BY <2>1 DEF SendCommand, SeatStill, tcpVars, tcpState
  <2> QED BY <2>4, <2>5, HandoffLocal
<1>2. CASE BySeat(CollectServed(s))
  <2>1. CollectServed(s)
    BY <1>2 DEF BySeat
  <2>2. DuringCommand(s) /\ loc[s] \in CommLocs
    BY <1>0, <2>1 DEF CollectServed, HandoffOf
  <2>3. Done(s) /\ child_pipe[s] = << >>
    BY <2>1, <2>2 DEF CollectServed, Acquire, DuringCommand, Working, Lost,
       Pending
  <2>4. loc'[s] \notin CommLocs \cup {"none", "endwait", "finished"} /\ sub'[s] = "ready"
    BY <2>1, <2>2, CommandNames DEF CollectServed, Goto
  <2>5. BetweenCommands(s)'
    BY <2>1, <2>3 DEF CollectServed, Acquire, BetweenCommands, Working,
       Pending, Done, tcpVars, tcpState
  <2>6. HandoffOf(s)'
    BY <2>4, <2>5 DEF HandoffOf
  <2>7. \A t \in Seats \ {s} : SeatStill(t)
    BY <2>1 DEF CollectServed, Acquire, Goto, SeatStill, tcpVars, tcpState
  <2> QED BY <2>6, <2>7, HandoffLocal
<1>3. CASE BySeat(CollectEnded(s))
  <2>1. CollectEnded(s)
    BY <1>3 DEF BySeat
  <2>2. Lost(s) /\ loc[s] \in CommLocs
    BY <1>0, <2>1 DEF CollectEnded, HandoffOf, DuringCommand, DuringSync,
       Working, Done
  <2>3. (Gone(s) /\ thread_ended[s])' /\ sub'[s] = "recover" /\ loc'[s] = loc[s]
    BY <2>1, <2>2 DEF CollectEnded, Acquire, Lost, Gone, Pending, tcpVars,
       tcpState
  <2>4. HandoffOf(s)'
    BY <2>2, <2>3 DEF HandoffOf
  <2>5. \A t \in Seats \ {s} : SeatStill(t)
    BY <2>1 DEF CollectEnded, Acquire, SeatStill, tcpVars, tcpState
  <2> QED BY <2>4, <2>5, HandoffLocal
<1>4. CASE BySeat(Recover(s))
  <2>1. Recover(s)
    BY <1>4 DEF BySeat
  <2>2. Gone(s) /\ loc[s] \in CommLocs
    BY <1>0, <2>1 DEF Recover, HandoffOf
  <2>3. HandoffOf(s)'
    BY <2>1, <2>2 DEF Recover, HandoffOf, Gone, Pending
  <2>4. \A t \in Seats \ {s} : SeatStill(t)
    BY <2>1 DEF Recover, SeatStill
  <2> QED BY <2>3, <2>4, HandoffLocal
<1>5. CASE BySeat(Replace(s))
  <2>1. Replace(s)
    BY <1>5 DEF BySeat
  <2>2. Gone(s) /\ loc[s] \in CommLocs /\ child_pipe[s] = << >> /\ ~thread_ended[s]
    BY <1>0, <2>1 DEF Replace, HandoffOf
  <2>3. HandoffOf(s)'
    BY <2>1, <2>2 DEF Replace, HandoffOf, DuringSync, Working, Gone, Pending,
       seatSync
  <2>4. \A t \in Seats \ {s} : SeatStill(t)
    BY <2>1 DEF Replace, SeatStill, seatSync
  <2> QED BY <2>3, <2>4, HandoffLocal
<1>6. CASE BySeat(ResendCommand(s))
  <2>1. ResendCommand(s)
    BY <1>6 DEF BySeat
  <2>2. DuringSync(s) /\ loc[s] \in CommLocs
    BY <1>0, <2>1 DEF ResendCommand, HandoffOf
  <2>3. Done(s) /\ child_pipe[s] = << >>
    BY <2>1, <2>2 DEF ResendCommand, Acquire, DuringSync, Working, Lost, Pending
  <2>4. child_pipe'[s] = <<CommandAt(loc[s])>> /\ sub'[s] = "wait"
    BY <2>1, <2>3, PipeOfOne DEF ResendCommand
  <2>5. HandoffOf(s)'
    BY <2>1, <2>2, <2>3, <2>4 DEF ResendCommand, Acquire, HandoffOf,
       DuringCommand, Done, Working, Pending, tcpVars, tcpState
  <2>6. \A t \in Seats \ {s} : SeatStill(t)
    BY <2>1 DEF ResendCommand, Acquire, SeatStill, tcpVars, tcpState
  <2> QED BY <2>5, <2>6, HandoffLocal
<1> QED BY <1>1, <1>2, <1>3, <1>4, <1>5, <1>6 DEF TalkStep

(***************************************************************************)
(* The places where a player thread neither talks to its client nor has    *)
(* ended.                                                                  *)
(***************************************************************************)
Passing == Locs \ (CommLocs \cup {"none", "endwait", "finished"})

(***************************************************************************)
(* Hand-off: a player thread that goes on without talking to its client    *)
(* leaves the hand-off as it was between two commands.                     *)
(***************************************************************************)
LEMMA HandoffMove ==
    ASSUME TypeOK, Handoff, NEW s \in Seats, loc[s] \in Passing,
           NEW to \in Passing \cup CommLocs, Goto(s, to),
           UNCHANGED <<sub, seatSync, tcpState>>
    PROVE  Handoff'
<1>1. HandoffOf(s)
  BY DEF Handoff
<1>2. sub[s] = "ready" /\ BetweenCommands(s)
  BY <1>1 DEF HandoffOf, Passing
<1>3. loc'[s] = to /\ to \notin {"none", "endwait", "finished"}
  BY DEF Goto, TypeOK, SeatTypeOK, Passing, CommLocs
<1>4. HandoffOf(s)'
  BY <1>2, <1>3 DEF HandoffOf, BetweenCommands, Working, Lost, Pending,
     seatSync, tcpState
<1>5. \A t \in Seats \ {s} : SeatStill(t)
  BY DEF Goto, SeatStill, seatSync, tcpState, TypeOK, SeatTypeOK
<1> QED BY <1>4, <1>5, HandoffLocal

(***************************************************************************)
(* Hand-off: the steps of the game, and the END a player thread finishes   *)
(* with.                                                                   *)
(***************************************************************************)
LEMMA HandoffGame ==
    ASSUME TypeOK, Handoff, NEW s \in Seats, GameStep(s)
    PROVE  Handoff'
<1>0. HandoffOf(s)
  BY DEF Handoff
<1>1. ASSUME NEW from, NEW to, Step(s, from, to), from \in Passing,
             to \in Passing \cup CommLocs
      PROVE  Handoff'
  BY <1>1, HandoffMove DEF Step, tcpVars
<1>2. \A l \in {"turn", "full", "won", "lead", "count", "pass", "newlewa", "over", "last",
                "newround", "leave", "end", "passed", "cleared", "nextround", "start"} :
         l \in Passing
  BY DEF Passing, Locs, CommLocs, BarrierLocs, StepLocs
<1>3. "trick" \in CommLocs /\ "score" \in CommLocs
  BY DEF CommLocs
<1>4. CASE BySeat(TakeTurn(s))
  BY <1>1, <1>2, <1>3, <1>4 DEF BySeat, TakeTurn
<1>5. CASE BySeat(CheckFull(s))
  BY <1>1, <1>2, <1>5 DEF BySeat, CheckFull
<1>6. CASE BySeat(DecideTaker(s))
  BY <1>1, <1>2, <1>6 DEF BySeat, DecideTaker
<1>7. CASE BySeat(GiveLead(s))
  BY <1>1, <1>2, <1>7 DEF BySeat, GiveLead
<1>8. CASE BySeat(CountCards(s))
  BY <1>1, <1>2, <1>8 DEF BySeat, CountCards
<1>9. CASE BySeat(PassTurn(s))
  BY <1>1, <1>2, <1>9 DEF BySeat, PassTurn
<1>10. CASE BySeat(ClearTable(s))
  BY <1>1, <1>2, <1>10 DEF BySeat, ClearTable
<1>11. CASE BySeat(CheckRound(s))
  BY <1>1, <1>2, <1>3, <1>11 DEF BySeat, CheckRound
<1>12. CASE BySeat(CheckLastRound(s))
  BY <1>1, <1>2, <1>12 DEF BySeat, CheckLastRound
<1>13. CASE BySeat(StartRound(s))
  BY <1>1, <1>2, <1>13 DEF BySeat, StartRound
<1>14. CASE BySeat(MonitorThrows(s))
  BY <1>14, HandoffStill DEF BySeat, MonitorThrows, tcpVars
<1>15. CASE ByMain(LeaveGame(s))
  BY <1>2, <1>15, HandoffMove DEF ByMain, LeaveGame, tcpVars
<1>16. CASE BySeat(SendEnd(s))
  <2>1. SendEnd(s)
    BY <1>16 DEF BySeat
  <2>2. sub[s] = "ready" /\ BetweenCommands(s)
    BY <1>0, <2>1 DEF HandoffOf, SendEnd, CommLocs
  <2>3. child_pipe'[s] = <<"END">> /\ loc'[s] = "endwait"
    BY <2>1, <2>2, PipeOfOne DEF SendEnd, Goto, BetweenCommands, TypeOK,
       SeatTypeOK
  <2>4. HandoffOf(s)'
    BY <2>1, <2>2, <2>3 DEF SendEnd, HandoffOf, DuringEnd, BetweenCommands,
       Working, Lost, Pending, tcpVars, tcpState
  <2>5. \A t \in Seats \ {s} : SeatStill(t)
    BY <2>1 DEF SendEnd, Goto, SeatStill, tcpVars, tcpState, TypeOK, SeatTypeOK
  <2> QED BY <2>4, <2>5, HandoffLocal
<1>17. CASE BySeat(CollectEnd(s))
  <2>1. CollectEnd(s)
    BY <1>17 DEF BySeat
  <2>2. sub[s] = "ready" /\ DuringEnd(s)
    BY <1>0, <2>1 DEF HandoffOf, CollectEnd, CommLocs
  <2>3. semaphore_TCP[s] = 1 /\ dying[s] = 0 /\ tcp[s] = "none"
    BY <2>1, <2>2 DEF CollectEnd, Acquire, DuringEnd, Working, Lost, Pending,
       TypeOK, SeatTypeOK
  <2>4. HandoffOf(s)'
    BY <2>1, <2>2, <2>3 DEF CollectEnd, Acquire, Goto, HandoffOf, Gone,
       Pending, tcpVars, tcpState, TypeOK, SeatTypeOK
  <2>5. \A t \in Seats \ {s} : SeatStill(t)
    BY <2>1 DEF CollectEnd, Acquire, Goto, SeatStill, tcpVars, tcpState,
       TypeOK, SeatTypeOK
  <2> QED BY <2>4, <2>5, HandoffLocal
<1> QED BY <1>4, <1>5, <1>6, <1>7, <1>8, <1>9, <1>10, <1>11, <1>12, <1>13,
    <1>14, <1>15,
           <1>16, <1>17 DEF GameStep

(***************************************************************************)
(* Hand-off: a command that was served leaves one permit to collect.       *)
(***************************************************************************)
LEMMA HandoffServed ==
    ASSUME TypeOK, Handoff, NEW s \in Seats, NEW c, c # "END", ReadCommand(s, c),
           Served(s), UNCHANGED playerVars
    PROVE  Handoff'
<1>1. /\ sub[s] = "wait" /\ loc[s] \in CommLocs
      /\ Tail(child_pipe[s]) = << >> /\ Working(s, "poll")
  BY CommandRead DEF ReadCommand
<1>2. HandoffOf(s)'
  BY <1>1 DEF ReadCommand, Served, Release, HandoffOf, DuringCommand, Done,
     Working, Pending, tcpState, playerVars, TypeOK, SeatTypeOK
<1>3. \A t \in Seats \ {s} : SeatStill(t)
  BY DEF ReadCommand, Served, Release, SeatStill, tcpState, playerVars, TypeOK,
     SeatTypeOK
<1> QED BY <1>2, <1>3, HandoffLocal

(***************************************************************************)
(* Hand-off: a TCP thread that fails while it serves a command leaves one  *)
(* permit, given or due, and the flag that says so.                        *)
(***************************************************************************)
LEMMA HandoffLostReading ==
    ASSUME TypeOK, Handoff, NEW s \in Seats, NEW c, c # "END", ReadCommand(s, c),
           EndThread(s), UNCHANGED playerVars
    PROVE  Handoff'
<1>1. /\ sub[s] = "wait" /\ loc[s] \in CommLocs
      /\ Tail(child_pipe[s]) = << >> /\ Working(s, "poll")
  BY CommandRead DEF ReadCommand
<1>2. HandoffOf(s)'
  BY <1>1 DEF ReadCommand, EndThread, HandoffOf, DuringCommand, Lost, Working,
     Pending, playerVars, TypeOK, SeatTypeOK
<1>3. \A t \in Seats \ {s} : SeatStill(t)
  BY DEF ReadCommand, EndThread, SeatStill, playerVars, TypeOK, SeatTypeOK
<1> QED BY <1>2, <1>3, HandoffLocal

(***************************************************************************)
(* Hand-off: so does a TCP thread that fails with no permit outstanding,   *)
(* whatever it was doing.                                                  *)
(***************************************************************************)
LEMMA HandoffLostWorking ==
    ASSUME TypeOK, Handoff, NEW s \in Seats, tcp[s] # "none", semaphore_TCP[s] = 0,
           EndThread(s), UNCHANGED <<playerVars, child_pipe>>
    PROVE  Handoff'
<1>1. HandoffOf(s)
  BY DEF Handoff
<1>2. semaphore_TCP[s] + dying[s] = 0 /\ ~thread_ended[s]
  BY <1>1 DEF HandoffOf, BetweenCommands, DuringCommand, DuringSync, DuringEnd,
     Working, Lost, Done, Gone, Pending, TypeOK, SeatTypeOK, Subs
<1>3. Lost(s)'
  BY <1>2 DEF EndThread, Lost, Pending, TypeOK, SeatTypeOK
<1>4. HandoffOf(s)'
  BY <1>1, <1>3 DEF HandoffOf, BetweenCommands, DuringCommand, DuringSync,
     DuringEnd, Lost, Working, Done, Gone, playerVars, TypeOK, SeatTypeOK, Subs
<1>5. \A t \in Seats \ {s} : SeatStill(t)
  BY DEF EndThread, SeatStill, playerVars, TypeOK, SeatTypeOK
<1> QED BY <1>4, <1>5, HandoffLocal

(***************************************************************************)
(* A TCP thread is inside handle_TRICK only while its player thread waits  *)
(* for the card.                                                           *)
(***************************************************************************)
LEMMA HandoffInTrick ==
    ASSUME TypeOK, Handoff, NEW s \in Seats, tcp[s] = "TRICK"
    PROVE  /\ sub[s] = "wait" /\ loc[s] = "trick" /\ child_pipe[s] = << >>
           /\ Working(s, "TRICK") /\ semaphore_TCP[s] = 0
<1>1. HandoffOf(s) /\ sub[s] \in Subs
  BY DEF Handoff, TypeOK, SeatTypeOK
<1> QED BY <1>1 DEF HandoffOf, BetweenCommands, DuringCommand, DuringSync,
    DuringEnd, Working, Lost, Done, Gone, Pending, TypeOK, SeatTypeOK, Subs

(***************************************************************************)
(* Hand-off: the command handlers of the TCP thread.                       *)
(***************************************************************************)
LEMMA HandoffTcp ==
    ASSUME TypeOK, Handoff, NEW s \in Seats, TcpStep(s)
    PROVE  Handoff'
<1>0. HandoffOf(s)
  BY DEF Handoff
<1>1. CASE BySeat(HandleDeal(s))
  BY <1>1, HandoffServed, HandoffLostReading DEF BySeat, HandleDeal, WriteFails
<1>2. CASE BySeat(AskForCard(s))
  <2>1. AskForCard(s)
    BY <1>2 DEF BySeat
  <2>2. CASE LewaIdReadable
    <3>1. /\ sub[s] = "wait" /\ loc[s] = "trick"
          /\ Tail(child_pipe[s]) = << >> /\ Working(s, "poll")
      BY <2>1, <2>2, CommandRead, CommandNames DEF AskForCard, ReadCommand
    <3>2. HandoffOf(s)'
      BY <2>1, <2>2, <3>1 DEF AskForCard, ReadCommand, HandoffOf,
         DuringCommand, Working, Pending, playerVars, TypeOK, SeatTypeOK,
         CommLocs
    <3>3. \A t \in Seats \ {s} : SeatStill(t)
      BY <2>1, <2>2 DEF AskForCard, ReadCommand, SeatStill, playerVars, TypeOK,
         SeatTypeOK
    <3> QED BY <3>2, <3>3, HandoffLocal
  <2>3. CASE ~LewaIdReadable
    BY <2>1, <2>3, HandoffStill DEF AskForCard, seatSync, tcpState
  <2> QED BY <2>2, <2>3
<1>3. CASE BySeat(AcceptCard(s))
  <2>1. AcceptCard(s)
    BY <1>3 DEF BySeat
  <2>2. /\ sub[s] = "wait" /\ loc[s] = "trick" /\ child_pipe[s] = << >>
        /\ Working(s, "TRICK")
    BY <2>1, HandoffInTrick DEF AcceptCard
  <2>3. HandoffOf(s)'
    BY <2>1, <2>2 DEF AcceptCard, Release, HandoffOf, DuringCommand, Done,
       Working, Pending, playerVars, TypeOK, SeatTypeOK, CommLocs
  <2>4. \A t \in Seats \ {s} : SeatStill(t)
    BY <2>1 DEF AcceptCard, Release, SeatStill, playerVars, TypeOK, SeatTypeOK
  <2> QED BY <2>3, <2>4, HandoffLocal
<1>4. CASE BySeat(CardOverflows(s))
  BY <1>4, HandoffInTrick, HandoffLostWorking DEF BySeat, CardOverflows
<1>5. CASE BySeat(HandleTaken(s)) \/ BySeat(TakenThrows(s))
  BY <1>5, HandoffServed, HandoffLostReading DEF BySeat, HandleTaken, TakenThrows, WriteFails
<1>6. CASE BySeat(HandleScore(s))
  BY <1>6, HandoffServed, HandoffLostReading DEF BySeat, HandleScore, WriteFails
<1>7. CASE BySeat(HandleTotal(s))
  BY <1>7, HandoffServed, HandoffLostReading DEF BySeat, HandleTotal, WriteFails
<1>8. CASE BySeat(HandleEnd(s))
  <2>1. HandleEnd(s)
    BY <1>8 DEF BySeat
  <2>2. /\ sub[s] = "ready" /\ loc[s] = "endwait"
        /\ Tail(child_pipe[s]) = << >> /\ Working(s, "poll")
    BY <2>1, EndRead DEF HandleEnd, ReadCommand
  <2>3. HandoffOf(s)'
    BY <2>1, <2>2 DEF HandleEnd, ReadCommand, Release, HandoffOf, DuringEnd,
       Working, Pending, playerVars, TypeOK, SeatTypeOK, CommLocs
  <2>4. \A t \in Seats \ {s} : SeatStill(t)
    BY <2>1 DEF HandleEnd, ReadCommand, Release, SeatStill, playerVars, TypeOK,
       SeatTypeOK
  <2> QED BY <2>3, <2>4, HandoffLocal
<1>9. CASE BySeat(Resync(s))
  <2>1. Resync(s) /\ tcp[s] = "resync"
    BY <1>9 DEF BySeat, Resync
  <2>2. /\ sub[s] = "sync" /\ loc[s] \in CommLocs /\ child_pipe[s] = << >>
        /\ Working(s, "resync") /\ semaphore_TCP[s] = 0
    BY <1>0, <2>1 DEF HandoffOf, BetweenCommands, DuringCommand, DuringSync,
       DuringEnd, Working, Lost, Done, Gone, Pending, TypeOK, SeatTypeOK, Subs
  <2>3. CASE WriteFails(s, "resync")
    BY <2>1, <2>2, <2>3, HandoffLostWorking DEF Resync, WriteFails
  <2>4. CASE ~WriteFails(s, "resync")
    <3>1. /\ semaphore_TCP' = [semaphore_TCP EXCEPT ![s] = @ + 1]
          /\ tcp' = [tcp EXCEPT ![s] = "poll"]
          /\ UNCHANGED <<playerVars, child_pipe, thread_ended, dying>>
      BY <2>1, <2>4 DEF Resync, Release
    <3>2. HandoffOf(s)'
      BY <2>2, <3>1 DEF HandoffOf, DuringSync, Done, Working, Pending,
         playerVars, TypeOK, SeatTypeOK
    <3>3. \A t \in Seats \ {s} : SeatStill(t)
      BY <3>1 DEF SeatStill, playerVars, TypeOK, SeatTypeOK
    <3> QED BY <3>2, <3>3, HandoffLocal
  <2> QED BY <2>3, <2>4
<1> QED BY <1>1, <1>2, <1>3, <1>4, <1>5, <1>6, <1>7, <1>8, <1>9 DEF TcpStep

(***************************************************************************)
(* Hand-off: the release that follows thread_ended turns a due permit into *)
(* a given one.                                                            *)
(***************************************************************************)
LEMMA HandoffSignal ==
    ASSUME TypeOK, Handoff, NEW s \in Seats, SignalStep(s)
    PROVE  Handoff'
<1>0. HandoffOf(s)
  BY DEF Handoff
<1>1. SignalEnded(s)
  BY DEF SignalStep, BySeat
<1>2. Lost(s) /\ dying[s] = 1 /\ semaphore_TCP[s] = 0
  BY <1>0, <1>1 DEF SignalEnded, HandoffOf, BetweenCommands, DuringCommand,
     DuringSync, DuringEnd, Working, Lost, Done, Gone, Pending, TypeOK,
     SeatTypeOK, Subs
<1>3. Lost(s)'
  BY <1>1, <1>2 DEF SignalEnded, Release, Lost, Pending, TypeOK, SeatTypeOK
<1>4. HandoffOf(s)'
  BY <1>0, <1>1, <1>2, <1>3 DEF SignalEnded, HandoffOf, BetweenCommands,
     DuringCommand, DuringSync, DuringEnd, Lost, Working, Done, Gone, Pending,
     playerVars, TypeOK, SeatTypeOK, Subs
<1>5. \A t \in Seats \ {s} : SeatStill(t)
  BY <1>1 DEF SignalEnded, Release, SeatStill, playerVars, TypeOK, SeatTypeOK
<1> QED BY <1>4, <1>5, HandoffLocal

(***************************************************************************)
(* Hand-off: the failures. The kinds excluded by the assumption are the    *)
(* two that break it: a client lost while a permit is outstanding, and a   *)
(* return from handle_TRICK that tells nobody.                             *)
(***************************************************************************)
LEMMA HandoffFailure ==
    ASSUME TypeOK, Handoff, Failures \subseteq RecoverableKinds, NEW s \in Seats, FailureStep(s)
    PROVE  Handoff'
<1>1. CASE BySeat(LoseClientInPoll(s))
  <2>1. LoseClientInPoll(s)
    BY <1>1 DEF BySeat
  <2>2. semaphore_TCP[s] = 0
    BY <2>1 DEF LoseClientInPoll, WriteFails, Fault, RecoverableKinds, TypeOK,
       SeatTypeOK
  <2> QED BY <2>1, <2>2, HandoffLostWorking DEF LoseClientInPoll, WriteFails
<1>2. CASE BySeat(LoseClientInTrick(s))
  BY <1>2, HandoffInTrick, HandoffLostWorking DEF BySeat, LoseClientInTrick,
     WriteFails
<1>3. CASE BySeat(ResetInTrick(s))
  BY <1>3 DEF BySeat, ResetInTrick, Fault, RecoverableKinds
<1>4. CASE BySeat(WrongAborts(s))
  BY <1>4, HandoffStill DEF BySeat, WrongAborts, tcpVars
<1>5. CASE BySeat(BrokenPipe(s))
  BY <1>5, HandoffStill DEF BySeat, BrokenPipe, tcpVars
<1> QED BY <1>1, <1>2, <1>3, <1>4, <1>5 DEF FailureStep

(***************************************************************************)
(* Hand-off: the barrier moves player threads that are between two         *)
(* commands.                                                               *)
(***************************************************************************)
LEMMA HandoffBarrier ==
    ASSUME TypeOK, Handoff, BarrierStep
    PROVE  Handoff'
<1>1. BarrierTrips
  BY DEF BarrierStep, BySeat
<1> SUFFICES ASSUME NEW s \in Seats PROVE HandoffOf(s)'
  BY DEF Handoff
<1>2. loc[s] \in BarrierLocs /\ HandoffOf(s)
  BY <1>1 DEF Handoff, BarrierTrips
<1>3. sub[s] = "ready" /\ BetweenCommands(s)
  BY <1>2 DEF HandoffOf, BarrierLocs, CommLocs
<1>4. loc'[s] \notin {"none", "endwait", "finished"}
  BY <1>1, <1>2 DEF BarrierTrips, AfterBarrier, BarrierLocs
<1> QED BY <1>1, <1>3, <1>4 DEF BarrierTrips, HandoffOf, BetweenCommands,
    Working, Lost, Pending, seatSync, tcpVars, tcpState

(***************************************************************************)
(* Hand-off: of the main thread's steps only Spawn starts threads, at a    *)
(* seat that has none.                                                     *)
(***************************************************************************)
LEMMA HandoffMain ==
    ASSUME TypeOK, Handoff, Admission, MainStep
    PROVE  Handoff'
<1>1. ASSUME ByMain(Spawn), NEW p \in Seats, request = p
      PROVE  Handoff'
  <2>1. Spawn /\ loc[p] = "none"
    BY <1>1 DEF ByMain, Spawn, Admission
  <2>2. /\ Gone(p) /\ ~thread_ended[p] /\ child_pipe[p] = << >>
        /\ sub[p] = "ready"
    BY <2>1 DEF Handoff, HandoffOf, TypeOK, SeatTypeOK, Subs, CommLocs
  <2>3. HandoffOf(p)'
    BY <1>1, <2>1, <2>2 DEF Spawn, Goto, HandoffOf, BetweenCommands, Working,
       Gone, Pending, seatSync, TypeOK, SeatTypeOK
  <2>4. \A t \in Seats \ {p} : SeatStill(t)
    BY <1>1, <2>1 DEF Spawn, Goto, SeatStill, seatSync, TypeOK, SeatTypeOK
  <2> QED BY <2>3, <2>4, HandoffLocal
<1>2. CASE ~ByMain(Spawn)
  BY <1>2, HandoffStill DEF MainStep, ByMain, CheckIfPositionTaken, SendBusy,
     AdmitNew, AdmitReplacement, Exit, tcpVars
<1>3. ByMain(Spawn) => request \in Seats
  BY DEF ByMain, Spawn, Admission
<1> QED BY <1>1, <1>2, <1>3

(***************************************************************************)
(* Hand-off: a client asks for a seat.                                     *)
(***************************************************************************)
LEMMA HandoffJoin ==
    ASSUME Handoff, NEW s \in Seats, JoinStep(s)
    PROVE  Handoff'
  BY HandoffStill DEF JoinStep, ByMain, JoinRequest, tcpVars

(***************************************************************************)
(* Hand-off: nothing changes.                                              *)
(***************************************************************************)
LEMMA HandoffStutter == Handoff /\ UNCHANGED vars => Handoff'
  BY HandoffStill DEF vars, tcpVars

(***************************************************************************)
(* Hand-off: the initial state.                                            *)
(***************************************************************************)
LEMMA HandoffInit == Init => Handoff
  BY DEF Init, SeatInit, Handoff, HandoffOf, Gone, Pending, CommLocs

-----------------------------------------------------------------------------
(* The threads in step, and admission.                                     *)

(***************************************************************************)
(* When no seat has two cards on the table, the trick is full exactly when *)
(* every seat has one there (the pigeonhole principle, from the theorems   *)
(* on injections).                                                         *)
(***************************************************************************)
LEMMA FullTable ==
    ASSUME TypeOK, OneCardEach
    PROVE  LewaFull <=> \A s \in Seats : OnTable(s)
<1>1. /\ curr_lewa \in [1 .. Len(curr_lewa) -> Seats] /\ Len(curr_lewa) \in Nat
      /\ DOMAIN curr_lewa = 1 .. Len(curr_lewa)
  BY DEF TypeOK, GMTypeOK, LewaTypeOK
<1>2. curr_lewa \in Injection(1 .. Len(curr_lewa), Seats)
  BY <1>1 DEF OneCardEach, Injection, IsInjective
<1>3. IsFiniteSet(Seats) /\ Cardinality(Seats) = NumSeats
  BY FS_Interval, SizesAssumption DEF Seats
<1>4. Cardinality(1 .. Len(curr_lewa)) = Len(curr_lewa)
  <2>1. \A n \in Nat : Cardinality(1 .. n) = IF 1 > n THEN 0 ELSE n - 1 + 1
    BY FS_Interval
  <2> QED BY <1>1, <2>1
<1>5. LewaFull <=> curr_lewa \in Surjection(1 .. Len(curr_lewa), Seats)
  BY <1>2, <1>3, <1>4, FS_Injection DEF LewaFull
<1> QED BY <1>1, <1>5 DEF Surjection, OnTable

(***************************************************************************)
(* The phase of the table depends on where the player threads stand, on    *)
(* who has laid a card, on the trick and on the round.                     *)
(***************************************************************************)
LEMMA LockStill ==
    ASSUME Lockstep, UNCHANGED <<loc, curr_lewa, lewa_id, round_number, round_finished>>,
           \A t \in Seats : HasPlayed(t)' <=> HasPlayed(t)
    PROVE  Lockstep'
<1>1. ASSUME NEW S, AllIn(S) PROVE AllIn(S)'
  BY <1>1 DEF AllIn
<1>2. ASSUME NEW l, SomeAt(l)' PROVE SomeAt(l)
  BY <1>2 DEF SomeAt
<1>3. (OneCardEach => OneCardEach') /\ (\A t \in Seats : OnTable(t)' <=> OnTable(t))
  BY DEF OneCardEach, OnTable
<1>4. (LewaFull <=> LewaFull') /\ (LastRound <=> LastRound')
  BY DEF LewaFull, LastRound
<1>5. CASE Joining \/ Dealing \/ Totalling \/ Taking
  BY <1>1, <1>4, <1>5 DEF Lockstep, Joining, Dealing, Totalling, Taking
<1>6. CASE Playing
  <2>1. /\ AllIn(PlayLocs)' /\ OneCardEach'
        /\ SomeAt("over")' => ~round_finished'
    BY <1>1, <1>2, <1>3, <1>6 DEF Playing, PlayLocs
  <2>2. \A s \in Seats : OnTable(s)' <=> HasPlayed(s)'
    BY <1>3, <1>6 DEF Playing
  <2>3. \A s \in Seats : loc'[s] \in {"won", "lead", "count"} => LewaFull'
    BY <1>4, <1>6 DEF Playing
  <2>4. Playing'
    BY <2>1, <2>2, <2>3 DEF Playing
  <2> QED BY <2>4 DEF Lockstep
<1>7. CASE Clearing
  BY <1>1, <1>2, <1>4, <1>7 DEF Lockstep, Clearing
<1>8. CASE Scoring \/ Continuing \/ Leaving
  BY <1>1, <1>4, <1>8 DEF Lockstep, Scoring, Continuing, Leaving, LeaveLocs
<1>9. CASE Opening
  BY <1>1, <1>2, <1>4, <1>9 DEF Lockstep, Opening
<1> QED BY <1>5, <1>6, <1>7, <1>8, <1>9 DEF Lockstep

(***************************************************************************)
(* Whether a seat has laid its card is a matter of its own hand-off.       *)
(***************************************************************************)
LEMMA PlayedStill ==
    ASSUME NEW t \in Seats, SeatStill(t)
    PROVE  HasPlayed(t)' <=> HasPlayed(t)
  BY DEF SeatStill, HasPlayed, Done

(***************************************************************************)
(* Outside handle_TRICK's command only a move of the player thread changes *)
(* whether a seat has laid its card.                                       *)
(***************************************************************************)
LEMMA PlayedElsewhere ==
    ASSUME NEW s \in Seats, loc'[s] = loc[s], loc[s] # "trick"
    PROVE  HasPlayed(s)' <=> HasPlayed(s)
  BY DEF HasPlayed

(***************************************************************************)
(* A thread that moves inside a set of places leaves all threads in it.    *)
(***************************************************************************)
LEMMA AllInMove ==
    ASSUME TypeOK, NEW s \in Seats, NEW S, NEW to \in S, AllIn(S), Goto(s, to)
    PROVE  AllIn(S)'
  BY DEF AllIn, Goto, TypeOK, SeatTypeOK

(***************************************************************************)
(* A player thread that moves inside the trick keeps the phase in which it *)
(* is played.                                                              *)
(***************************************************************************)
LEMMA PlayMove ==
    ASSUME TypeOK, Playing, NEW s \in Seats, NEW to \in PlayLocs \ {"over"}, Goto(s, to),
           UNCHANGED curr_lewa, SomeAt("over") => UNCHANGED round_finished,
           \A t \in Seats \ {s} : SeatStill(t), HasPlayed(s)' <=> HasPlayed(s),
           to \in {"won", "lead", "count"} => LewaFull
    PROVE  Playing'
<1>1. loc' = [loc EXCEPT ![s] = to] /\ loc \in [Seats -> Locs]
  BY DEF Goto, TypeOK, SeatTypeOK
<1>2. AllIn(PlayLocs)'
  BY AllInMove DEF Playing
<1>3. OneCardEach' /\ \A t \in Seats : OnTable(t)' <=> HasPlayed(t)'
  BY PlayedStill DEF Playing, OneCardEach, OnTable
<1>4. \A t \in Seats : loc'[t] \in {"won", "lead", "count"} => LewaFull'
  BY <1>1 DEF Playing, LewaFull
<1>5. SomeAt("over")' => ~round_finished'
  BY <1>1 DEF SomeAt, Playing
<1> QED BY <1>2, <1>3, <1>4, <1>5 DEF Playing

(***************************************************************************)
(* The place of one player thread tells the phase.                         *)
(***************************************************************************)
LEMMA PhaseAt ==
    ASSUME Lockstep, NEW s \in Seats
    PROVE  /\ loc[s] = "none" => Joining
           /\ loc[s] \in {"deal", "dealt"} => Dealing
           /\ loc[s] \in PlayLocs \ {"over"} => Playing
           /\ loc[s] \in {"taken", "credited"} => Taking
           /\ loc[s] \in {"newlewa", "cleared"} => Clearing
           /\ loc[s] = "over" => Playing \/ Scoring
           /\ loc[s] \in {"score", "scored"} => Scoring
           /\ loc[s] \in {"total", "totalled"} => Totalling
           /\ loc[s] = "last" => Continuing \/ Leaving
           /\ loc[s] = "nextround" => Continuing
           /\ loc[s] \in LeaveLocs \ {"last"} => Leaving
           /\ loc[s] = "newround" => Opening
           /\ loc[s] = "start" => Joining \/ Opening
<1>1. CASE Joining
  BY <1>1 DEF Joining, AllIn, PlayLocs, LeaveLocs
<1>2. CASE Dealing
  BY <1>2 DEF Dealing, AllIn, PlayLocs, LeaveLocs
<1>3. CASE Playing
  BY <1>3 DEF Playing, AllIn, PlayLocs, LeaveLocs
<1>4. CASE Taking
  BY <1>4 DEF Taking, AllIn, PlayLocs, LeaveLocs
<1>5. CASE Clearing
  BY <1>5 DEF Clearing, AllIn, PlayLocs, LeaveLocs
<1>6. CASE Scoring
  BY <1>6 DEF Scoring, AllIn, PlayLocs, LeaveLocs
<1>7. CASE Totalling
  BY <1>7 DEF Totalling, AllIn, PlayLocs, LeaveLocs
<1>8. CASE Continuing
  BY <1>8 DEF Continuing, AllIn, PlayLocs, LeaveLocs
<1>9. CASE Leaving
  BY <1>9 DEF Leaving, AllIn, PlayLocs, LeaveLocs
<1>10. CASE Opening
  BY <1>10 DEF Opening, AllIn, PlayLocs, LeaveLocs
<1> QED BY <1>1, <1>2, <1>3, <1>4, <1>5, <1>6, <1>7, <1>8, <1>9, <1>10
    DEF Lockstep

(***************************************************************************)
(* A step of one seat that leaves its place and its card alone keeps the   *)
(* phase.                                                                  *)
(***************************************************************************)
LEMMA LockQuiet ==
    ASSUME Lockstep, NEW s \in Seats, HasPlayed(s)' <=> HasPlayed(s),
           \A t \in Seats \ {s} : SeatStill(t),
           UNCHANGED <<loc, curr_lewa, lewa_id, round_number, round_finished>>
    PROVE  Lockstep'
<1>1. \A t \in Seats : HasPlayed(t)' <=> HasPlayed(t)
  BY PlayedStill
<1> QED BY <1>1, LockStill

(***************************************************************************)
(* Lockstep: talking to the client moves the thread to the barrier of its  *)
(* phase, or past the card it has laid.                                    *)
(***************************************************************************)
LEMMA LockTalk ==
    ASSUME TypeOK, Handoff, Lockstep, NEW s \in Seats, TalkStep(s)
    PROVE  Lockstep'
<1>0. HandoffOf(s) /\ sub[s] \in Subs
  BY DEF Handoff, TypeOK, SeatTypeOK
<1>1. UNCHANGED <<curr_lewa, lewa_id, round_number, round_finished>>
  BY DEF TalkStep, BySeat, SendCommand, CollectServed, CollectEnded, Recover,
     SetPlayerLeft, Replace, AcquireDisconnectedSem, ResendCommand, gmVars,
     lewa, round
<1>2. CASE BySeat(CollectServed(s))
  <2>1. CollectServed(s)
    BY <1>2 DEF BySeat
  <2>2. DuringCommand(s) /\ loc[s] \in CommLocs
    BY <1>0, <2>1 DEF CollectServed, HandoffOf
  <2>3. Done(s) /\ child_pipe[s] = << >> /\ sub[s] = "wait"
    BY <2>1, <2>2 DEF CollectServed, Acquire, DuringCommand, Working, Lost,
       Pending, TypeOK, SeatTypeOK
  <2>4. \A t \in Seats \ {s} : SeatStill(t)
    BY <2>1 DEF CollectServed, Acquire, Goto, SeatStill, tcpVars, tcpState,
       TypeOK, SeatTypeOK
  <2>5. CASE loc[s] = "trick"
    <3>1. Playing /\ Goto(s, "full")
      BY <2>1, <2>5, PhaseAt DEF CollectServed, AfterCommand, PlayLocs
    <3>2. HasPlayed(s) /\ HasPlayed(s)'
      BY <2>3, <2>5, <3>1 DEF HasPlayed, Goto, TypeOK, SeatTypeOK
    <3>3. Playing'
      BY <1>1, <2>4, <3>1, <3>2, PlayMove DEF PlayLocs
    <3> QED BY <3>3 DEF Lockstep
  <2>6. CASE loc[s] = "deal"
    <3>1. Dealing /\ Goto(s, "dealt")
      BY <2>1, <2>6, PhaseAt DEF CollectServed, AfterCommand
    <3> QED BY <1>1, <3>1, AllInMove DEF Lockstep, Dealing
  <2>7. CASE loc[s] = "taken"
    <3>1. Taking /\ Goto(s, "credited")
      BY <2>1, <2>7, PhaseAt DEF CollectServed, AfterCommand
    <3> QED BY <1>1, <3>1, AllInMove DEF Lockstep, Taking, LewaFull
  <2>8. CASE loc[s] = "score"
    <3>1. Scoring /\ Goto(s, "scored")
      BY <2>1, <2>8, PhaseAt DEF CollectServed, AfterCommand
    <3> QED BY <1>1, <3>1, AllInMove DEF Lockstep, Scoring
  <2>9. CASE loc[s] = "total"
    <3>1. Totalling /\ Goto(s, "totalled")
      BY <2>1, <2>9, PhaseAt DEF CollectServed, AfterCommand
    <3> QED BY <1>1, <3>1, AllInMove DEF Lockstep, Totalling
  <2> QED BY <2>2, <2>5, <2>6, <2>7, <2>8, <2>9 DEF CommLocs
<1>3. CASE BySeat(SendCommand(s))
  <2>1. SendCommand(s)
    BY <1>3 DEF BySeat
  <2>2. BetweenCommands(s)
    BY <1>0, <2>1 DEF SendCommand, HandoffOf, CommLocs
  <2>3. child_pipe'[s] # << >> /\ sub[s] = "ready"
    BY <2>1, <2>2, PipeOfOne DEF SendCommand, BetweenCommands, TypeOK,
       SeatTypeOK
  <2>4. HasPlayed(s)' <=> HasPlayed(s)
    BY <2>1, <2>3 DEF SendCommand, HasPlayed
  <2>5. \A t \in Seats \ {s} : SeatStill(t)
    BY <2>1 DEF SendCommand, SeatStill, tcpVars, tcpState, TypeOK, SeatTypeOK
  <2> QED BY <1>1, <2>1, <2>4, <2>5, LockQuiet DEF SendCommand
<1>4. CASE BySeat(CollectEnded(s))
  <2>1. CollectEnded(s)
    BY <1>4 DEF BySeat
  <2>2. HasPlayed(s)' <=> HasPlayed(s)
    BY <2>1 DEF CollectEnded, HasPlayed, Done, TypeOK, SeatTypeOK
  <2>3. \A t \in Seats \ {s} : SeatStill(t)
    BY <2>1 DEF CollectEnded, Acquire, SeatStill, tcpVars, tcpState, TypeOK,
       SeatTypeOK
  <2> QED BY <1>1, <2>1, <2>2, <2>3, LockQuiet DEF CollectEnded
<1>5. CASE BySeat(Recover(s))
  <2>1. Recover(s)
    BY <1>5 DEF BySeat
  <2>2. HasPlayed(s)' <=> HasPlayed(s)
    BY <2>1 DEF Recover, HasPlayed, TypeOK, SeatTypeOK
  <2>3. \A t \in Seats \ {s} : SeatStill(t)
    BY <2>1 DEF Recover, SeatStill, TypeOK, SeatTypeOK
  <2> QED BY <1>1, <2>1, <2>2, <2>3, LockQuiet DEF Recover
<1>6. CASE BySeat(Replace(s))
  <2>1. Replace(s)
    BY <1>6 DEF BySeat
  <2>2. HasPlayed(s)' <=> HasPlayed(s)
    BY <2>1 DEF Replace, HasPlayed, TypeOK, SeatTypeOK
  <2>3. \A t \in Seats \ {s} : SeatStill(t)
    BY <2>1 DEF Replace, SeatStill, seatSync, TypeOK, SeatTypeOK
  <2> QED BY <1>1, <2>1, <2>2, <2>3, LockQuiet DEF Replace
<1>7. CASE BySeat(ResendCommand(s))
  <2>1. ResendCommand(s)
    BY <1>7 DEF BySeat
  <2>2. DuringSync(s)
    BY <1>0, <2>1 DEF ResendCommand, HandoffOf
  <2>3. child_pipe'[s] # << >> /\ sub[s] = "sync"
    BY <2>1, <2>2, PipeOfOne DEF ResendCommand, DuringSync, TypeOK, SeatTypeOK
  <2>4. HasPlayed(s)' <=> HasPlayed(s)
    BY <2>1, <2>3 DEF ResendCommand, HasPlayed
  <2>5. \A t \in Seats \ {s} : SeatStill(t)
    BY <2>1 DEF ResendCommand, Acquire, SeatStill, tcpVars, tcpState, TypeOK,
       SeatTypeOK
  <2> QED BY <1>1, <2>1, <2>4, <2>5, LockQuiet DEF ResendCommand
<1> QED BY <1>2, <1>3, <1>4, <1>5, <1>6, <1>7 DEF TalkStep

(***************************************************************************)
(* Lockstep: the steps of the game. All threads take the same branch at    *)
(* CheckFull's end, CheckRound and CheckLastRound, because what they test  *)
(* does not change within the phase.                                       *)
(***************************************************************************)
LEMMA LockGame ==
    ASSUME TypeOK, Handoff, Lockstep, NEW s \in Seats, GameStep(s)
    PROVE  Lockstep'
<1>0. HandoffOf(s) /\ loc \in [Seats -> Locs] /\ loc[s] \in Locs
  BY DEF Handoff, TypeOK, SeatTypeOK
<1>1. ASSUME NEW from, NEW to, Step(s, from, to)
      PROVE  /\ loc[s] = from /\ Goto(s, to)
             /\ \A t \in Seats \ {s} : SeatStill(t)
             /\ loc'[s] = to /\ UNCHANGED sub
  BY <1>0, <1>1 DEF Step, Goto, SeatStill, seatSync, tcpVars, tcpState
<1>2. CASE BySeat(TakeTurn(s))
  <2>1. Step(s, "turn", "trick") /\ UNCHANGED <<curr_lewa, round_finished>>
    BY <1>2 DEF BySeat, TakeTurn, WaitForTurn, lewa, round
  <2>2. Playing /\ sub[s] = "ready"
    BY <1>0, <1>1, <2>1, PhaseAt DEF PlayLocs, HandoffOf, CommLocs
  <2>3. HasPlayed(s)' <=> HasPlayed(s)
    BY <1>1, <2>1, <2>2 DEF HasPlayed
  <2>4. Playing'
    BY <1>1, <2>1, <2>2, <2>3, PlayMove DEF PlayLocs
  <2> QED BY <2>4 DEF Lockstep
<1>3. CASE BySeat(CheckFull(s))
  <2>1. /\ Step(s, "full", IF LewaFull THEN "won" ELSE "pass")
        /\ UNCHANGED <<curr_lewa, round_finished>>
    BY <1>3 DEF BySeat, CheckFull, gmVars, lewa, round
  <2>2. Playing
    BY <1>1, <2>1, PhaseAt DEF PlayLocs
  <2>3. HasPlayed(s)' <=> HasPlayed(s)
    BY <1>1, <2>1 DEF HasPlayed
  <2>4. Playing'
    BY <1>1, <2>1, <2>2, <2>3, PlayMove DEF PlayLocs
  <2> QED BY <2>4 DEF Lockstep
<1>4. CASE BySeat(DecideTaker(s))
  <2>1. Step(s, "won", "lead") /\ UNCHANGED <<curr_lewa, round_finished>>
    BY <1>4 DEF BySeat, DecideTaker, CheckWhoWonLewa
  <2>2. Playing /\ LewaFull
    BY <1>1, <2>1, PhaseAt DEF PlayLocs, Playing
  <2>3. HasPlayed(s)' <=> HasPlayed(s)
    BY <1>1, <2>1 DEF HasPlayed
  <2>4. Playing'
    BY <1>1, <2>1, <2>2, <2>3, PlayMove DEF PlayLocs
  <2> QED BY <2>4 DEF Lockstep
<1>5. CASE BySeat(GiveLead(s))
  <2>1. Step(s, "lead", "count") /\ UNCHANGED <<curr_lewa, round_finished>>
    BY <1>5 DEF BySeat, GiveLead, SetFirstPlayerForNextTurn, lewa, round
  <2>2. Playing /\ LewaFull
    BY <1>1, <2>1, PhaseAt DEF PlayLocs, Playing
  <2>3. HasPlayed(s)' <=> HasPlayed(s)
    BY <1>1, <2>1 DEF HasPlayed
  <2>4. Playing'
    BY <1>1, <2>1, <2>2, <2>3, PlayMove DEF PlayLocs
  <2> QED BY <2>4 DEF Lockstep
<1>6. CASE BySeat(CountCards(s))
  <2>1. Step(s, "count", "passed") /\ UNCHANGED curr_lewa
    BY <1>6 DEF BySeat, CountCards, CountCardsPlayed, lewa
  <2>2. Playing /\ LewaFull
    BY <1>1, <2>1, PhaseAt DEF PlayLocs, Playing
  <2>3. HasPlayed(s)' <=> HasPlayed(s)
    BY <1>1, <2>1 DEF HasPlayed
  <2>4. ~SomeAt("over")
    BY <2>2, FullTable DEF Playing, SomeAt, HasPlayed
  <2>5. Playing'
    BY <1>1, <2>1, <2>2, <2>3, <2>4, PlayMove DEF PlayLocs
  <2> QED BY <2>5 DEF Lockstep
<1>7. CASE BySeat(PassTurn(s))
  <2>1. Step(s, "pass", "passed") /\ UNCHANGED <<curr_lewa, round_finished>>
    BY <1>7 DEF BySeat, PassTurn, NextPlayerTurn, lewa, round
  <2>2. Playing
    BY <1>1, <2>1, PhaseAt DEF PlayLocs
  <2>3. HasPlayed(s)' <=> HasPlayed(s)
    BY <1>1, <2>1 DEF HasPlayed
  <2>4. Playing'
    BY <1>1, <2>1, <2>2, <2>3, PlayMove DEF PlayLocs
  <2> QED BY <2>4 DEF Lockstep
<1>8. CASE BySeat(ClearTable(s))
  <2>1. Step(s, "newlewa", "cleared") /\ PrepareNewLewa
    BY <1>8 DEF BySeat, ClearTable
  <2>2. Clearing
    BY <1>1, <2>1, PhaseAt
  <2>3. curr_lewa' = << >>
    BY <2>1, <2>2 DEF Clearing, PrepareNewLewa
  <2> QED BY <1>1, <2>1, <2>2, <2>3, AllInMove DEF Lockstep, Clearing
<1>9. CASE BySeat(CheckRound(s))
  <2>1. /\ Step(s, "over", IF round_finished THEN "score" ELSE "turn")
        /\ UNCHANGED <<curr_lewa, round_finished>>
    BY <1>9 DEF BySeat, CheckRound, gmVars, lewa, round
  <2>2. CASE Playing
    <3>1. Step(s, "over", "turn")
      BY <1>1, <2>1, <2>2 DEF Playing, SomeAt
    <3>2. HasPlayed(s)' <=> HasPlayed(s)
      BY <1>1, <3>1 DEF HasPlayed
    <3>3. Playing'
      BY <1>1, <2>1, <2>2, <3>1, <3>2, PlayMove DEF PlayLocs
    <3> QED BY <3>3 DEF Lockstep
  <2>3. CASE Scoring
    <3>1. Goto(s, "score")
      BY <1>1, <2>1, <2>3 DEF Scoring
    <3> QED BY <2>1, <2>3, <3>1, AllInMove DEF Lockstep, Scoring
  <2> QED BY <1>1, <2>1, <2>2, <2>3, PhaseAt
<1>10. CASE BySeat(CheckLastRound(s))
  <2>1. /\ Step(s, "last", IF LastRound THEN "leave" ELSE "nextround")
        /\ UNCHANGED <<curr_lewa, round_number>>
    BY <1>10 DEF BySeat, CheckLastRound, gmVars, lewa, round
  <2>2. CASE Continuing
    <3>1. Goto(s, "nextround")
      BY <1>1, <2>1, <2>2 DEF Continuing
    <3> QED BY <2>1, <2>2, <3>1, AllInMove DEF Lockstep, Continuing, LastRound
  <2>3. CASE Leaving
    <3>1. Goto(s, "leave")
      BY <1>1, <2>1, <2>3 DEF Leaving
    <3> QED BY <2>1, <2>3, <3>1, AllInMove DEF Lockstep, Leaving, LeaveLocs,
        LastRound
  <2> QED BY <1>1, <2>1, <2>2, <2>3, PhaseAt
<1>11. CASE BySeat(StartRound(s))
  <2>1. Step(s, "newround", "start") /\ PrepareNewRound
    BY <1>11 DEF BySeat, StartRound
  <2>2. Opening /\ Goto(s, "start")
    BY <1>1, <2>1, PhaseAt
  <2>3. AllIn({"newround", "start"})'
    BY <2>2, AllInMove DEF Opening
  <2>4. CASE lewa_id > 1
    BY <2>1, <2>3, <2>4 DEF PrepareNewRound, Lockstep, Opening
  <2>5. CASE ~(lewa_id > 1)
    BY <2>1, <2>2, <2>3, <2>5 DEF PrepareNewRound, Lockstep, Opening, lewa
  <2> QED BY <2>4, <2>5
<1>12. CASE BySeat(MonitorThrows(s))
  <2>1. /\ \A t \in Seats : SeatStill(t)
        /\ UNCHANGED <<loc, curr_lewa, lewa_id, round_number, round_finished>>
    BY <1>12 DEF BySeat, MonitorThrows, playerVars, seatSync, tcpVars,
       tcpState, gmVars, lewa, round, SeatStill
  <2> QED BY <2>1, PlayedStill, LockStill
<1>13. CASE ByMain(LeaveGame(s))
  <2>1. loc[s] = "leave" /\ Goto(s, "end") /\ UNCHANGED <<curr_lewa, round_number>>
    BY <1>13 DEF ByMain, LeaveGame, DecrementPresentPlayers, lewa, round
  <2>2. Leaving
    BY <2>1, PhaseAt DEF LeaveLocs
  <2> QED BY <2>1, <2>2, AllInMove DEF Lockstep, Leaving, LeaveLocs, LastRound
<1>14. CASE BySeat(SendEnd(s))
  <2>1. loc[s] = "end" /\ Goto(s, "endwait") /\ UNCHANGED <<curr_lewa, round_number>>
    BY <1>14 DEF BySeat, SendEnd, gmVars, lewa, round
  <2>2. Leaving
    BY <2>1, PhaseAt DEF LeaveLocs
  <2> QED BY <2>1, <2>2, AllInMove DEF Lockstep, Leaving, LeaveLocs, LastRound
<1>15. CASE BySeat(CollectEnd(s))
  <2>1. loc[s] = "endwait" /\ Goto(s, "finished") /\ UNCHANGED <<curr_lewa, round_number>>
    BY <1>15 DEF BySeat, CollectEnd, gmVars, lewa, round
  <2>2. Leaving
    BY <2>1, PhaseAt DEF LeaveLocs
  <2> QED BY <2>1, <2>2, AllInMove DEF Lockstep, Leaving, LeaveLocs, LastRound
<1> QED BY <1>2, <1>3, <1>4, <1>5, <1>6, <1>7, <1>8, <1>9, <1>10, <1>11, <1>12,
    <1>13,
           <1>14, <1>15 DEF GameStep

(***************************************************************************)
(* Lockstep: the TCP threads and the failures, a card laid on the table    *)
(* excepted.                                                               *)
(***************************************************************************)
LEMMA LockSocket ==
    ASSUME TypeOK, Handoff, Failures \subseteq RecoverableKinds, Lockstep, NEW s \in Seats,
           TcpStep(s) \/ SignalStep(s) \/ FailureStep(s), ~BySeat(AcceptCard(s))
    PROVE  Lockstep'
<1>0. HandoffOf(s) /\ sub[s] \in Subs
  BY DEF Handoff, TypeOK, SeatTypeOK
<1>1. UNCHANGED <<loc, sub, curr_lewa, lewa_id, round_number, round_finished>>
  BY DEF TcpStep, SignalStep, FailureStep, BySeat, HandleDeal, AskForCard,
     CardOverflows, HandleTaken, TakenThrows, HandleScore, HandleTotal, HandleEnd, Resync,
     SignalEnded, LoseClientInPoll, LoseClientInTrick, ResetInTrick,
     WrongAborts, BrokenPipe, playerVars, gmVars, lewa, round
<1>2. \A t \in Seats \ {s} : SeatStill(t)
  <2>1. CASE TcpStep(s)
    BY <1>1, <2>1 DEF SeatStill, TcpStep, BySeat, HandleDeal, AskForCard,
       CardOverflows, HandleTaken, TakenThrows, HandleScore, HandleTotal, HandleEnd, Resync,
       ReadCommand, Served, Release, WriteFails, EndThread, tcpState, TypeOK,
       SeatTypeOK
  <2>2. CASE SignalStep(s) \/ FailureStep(s)
    BY <1>1, <2>2 DEF SeatStill, SignalStep, FailureStep, BySeat, SignalEnded,
       LoseClientInPoll, LoseClientInTrick, ResetInTrick, WrongAborts,
       BrokenPipe, Release, WriteFails, EndThread, seatSync, tcpVars, tcpState,
       TypeOK, SeatTypeOK
  <2> QED BY <2>1, <2>2
<1>3. ASSUME HasPlayed(s), loc[s] = "trick" PROVE HasPlayed(s)'
  <2>1. /\ sub[s] = "wait" /\ child_pipe[s] = << >> /\ tcp[s] = "poll" /\ ~thread_ended[s]
        /\ semaphore_TCP[s] = 1 /\ dying[s] = 0
    BY <1>3 DEF HasPlayed, Done
  <2>2. ~TcpStep(s)
    BY <2>1 DEF TcpStep, BySeat, HandleDeal, AskForCard, AcceptCard,
       CardOverflows, HandleTaken, TakenThrows, HandleScore, HandleTotal, HandleEnd, Resync,
       ReadCommand, Told
  <2>3. ~SignalStep(s)
    BY <2>1 DEF SignalStep, BySeat, SignalEnded
  <2>4. BySeat(WrongAborts(s))
    BY <2>1, <2>2, <2>3 DEF FailureStep, BySeat, LoseClientInPoll,
       LoseClientInTrick, ResetInTrick, BrokenPipe, WriteFails, Fault,
       RecoverableKinds
  <2> QED BY <1>1, <1>3, <2>4 DEF HasPlayed, Done, BySeat, WrongAborts,
      seatSync, tcpVars, tcpState
<1>4. ASSUME HasPlayed(s)', loc[s] = "trick" PROVE HasPlayed(s)
  <2>1. /\ sub[s] = "wait" /\ loc'[s] = "trick"
        /\ child_pipe'[s] = << >> /\ tcp'[s] = "poll" /\ ~thread_ended'[s]
        /\ semaphore_TCP'[s] = 1 /\ dying'[s] = 0
    BY <1>1, <1>4 DEF HasPlayed, Done
  <2>2. ASSUME NEW c \in {"DEAL", "TAKEN", "SCORE", "TOTAL", "END"}, ReadCommand(s, c)
        PROVE  FALSE
    BY <1>4, <2>1, <2>2, CommandRead, EndRead DEF ReadCommand, CommandAt
  <2>3. ~BySeat(AskForCard(s)) \/ UNCHANGED <<child_pipe, semaphore_TCP, tcp, thread_ended, dying>>
    BY <2>1 DEF BySeat, AskForCard, TypeOK, SeatTypeOK
  <2>4. tcp[s] # "resync"
    BY <1>0, <2>1 DEF HandoffOf, DuringCommand, Working, Lost, Done
  <2>5. CASE TcpStep(s)
    BY <1>1, <1>4, <2>1, <2>2, <2>3, <2>4, <2>5 DEF TcpStep, BySeat,
       HandleDeal, CardOverflows, HandleTaken, TakenThrows, HandleScore, HandleTotal,
       HandleEnd, Resync, EndThread, HasPlayed, Done, TypeOK, SeatTypeOK
  <2>6. CASE SignalStep(s)
    <3>1. SignalEnded(s) /\ dying[s] > 0
      BY <2>6 DEF SignalStep, BySeat, SignalEnded
    <3>2. thread_ended[s]
      BY <1>0, <2>1, <3>1 DEF HandoffOf, DuringCommand, Working, Lost, Done,
         Pending, TypeOK, SeatTypeOK
    <3> QED BY <2>1, <3>1, <3>2 DEF SignalEnded
  <2>7. CASE FailureStep(s)
    BY <1>1, <1>4, <2>1, <2>7 DEF FailureStep, BySeat, LoseClientInPoll,
       LoseClientInTrick, ResetInTrick, WrongAborts, BrokenPipe, WriteFails,
       EndThread, HasPlayed, Done, seatSync, tcpVars, tcpState, TypeOK,
       SeatTypeOK
  <2> QED BY <2>5, <2>6, <2>7
<1>5. HasPlayed(s)' <=> HasPlayed(s)
  BY <1>1, <1>3, <1>4, PlayedElsewhere
<1> QED BY <1>1, <1>2, <1>5, LockQuiet

(***************************************************************************)
(* Lockstep: a card is laid by a seat that has none on the table.          *)
(***************************************************************************)
LEMMA LockCard ==
    ASSUME TypeOK, Handoff, Lockstep, NEW s \in Seats, BySeat(AcceptCard(s))
    PROVE  Lockstep'
<1>1. AcceptCard(s)
  BY DEF BySeat
<1>2. /\ sub[s] = "wait" /\ loc[s] = "trick" /\ child_pipe[s] = << >>
      /\ Working(s, "TRICK")
  BY <1>1, HandoffInTrick DEF AcceptCard
<1>3. Playing /\ ~HasPlayed(s) /\ ~OnTable(s) /\ ~LewaFull
  <2>1. Playing
    BY <1>2, PhaseAt DEF PlayLocs
  <2> QED BY <1>1, <1>2, <2>1 DEF Playing, HasPlayed, Working, Done, AcceptCard
<1>4. HasPlayed(s)'
  BY <1>1, <1>2 DEF AcceptCard, Release, HasPlayed, Done, Working, Pending,
     playerVars, TypeOK, SeatTypeOK
<1>5. \A t \in Seats \ {s} : SeatStill(t)
  BY <1>1 DEF AcceptCard, Release, SeatStill, playerVars, TypeOK, SeatTypeOK
<1>6. /\ curr_lewa \in Seq(Seats) /\ curr_lewa' = Append(curr_lewa, s)
      /\ UNCHANGED <<loc, round_finished>>
  BY <1>1 DEF AcceptCard, AddCardToLewa, TypeOK, GMTypeOK, LewaTypeOK,
     playerVars, round
<1>7. /\ DOMAIN curr_lewa' = 1 .. Len(curr_lewa) + 1
      /\ \A i \in 1 .. Len(curr_lewa) : curr_lewa'[i] = curr_lewa[i]
      /\ curr_lewa'[Len(curr_lewa) + 1] = s
      /\ DOMAIN curr_lewa = 1 .. Len(curr_lewa) /\ Len(curr_lewa) \in Nat
  BY <1>6
<1>8. \A t \in Seats : OnTable(t)' <=> OnTable(t) \/ t = s
  BY <1>7 DEF OnTable
<1>9. OneCardEach'
  <2>1. OneCardEach /\ \A i \in DOMAIN curr_lewa : curr_lewa[i] # s
    BY <1>3 DEF Playing, OnTable
  <2> QED BY <1>7, <2>1 DEF OneCardEach
<1>10. \A t \in Seats : OnTable(t)' <=> HasPlayed(t)'
  BY <1>3, <1>4, <1>5, <1>8, PlayedStill DEF Playing
<1>11. AllIn(PlayLocs)' /\ ~\E t \in Seats : loc'[t] \in {"won", "lead", "count"}
  BY <1>3, <1>6 DEF Playing, AllIn
<1>12. SomeAt("over")' => ~round_finished'
  BY <1>3, <1>6 DEF Playing, SomeAt
<1>13. Playing'
  BY <1>9, <1>10, <1>11, <1>12 DEF Playing
<1> QED BY <1>13 DEF Lockstep

(***************************************************************************)
(* Lockstep: the barrier takes the table from one phase to the next.       *)
(***************************************************************************)
LEMMA LockBarrier ==
    ASSUME TypeOK, Lockstep, BarrierStep
    PROVE  Lockstep'
<1>1. BarrierTrips
  BY DEF BarrierStep, BySeat
<1>2. \A s \in Seats : loc[s] \in BarrierLocs /\ loc'[s] = AfterBarrier(loc[s])
  BY <1>1 DEF BarrierTrips
<1>3. UNCHANGED <<curr_lewa, lewa_id, round_number, round_finished>>
  BY <1>1 DEF BarrierTrips, gmVars, lewa, round
<1>4. Seats # {}
  BY SizesAssumption DEF Seats
<1>5. ASSUME NEW from, NEW to, to = AfterBarrier(from), \A s \in Seats : loc[s] = from
      PROVE  \A s \in Seats : loc'[s] = to
  BY <1>2, <1>5
<1>6. CASE Joining
  <2>1. \A s \in Seats : loc[s] = "start"
    BY <1>2, <1>6 DEF Joining, AllIn, BarrierLocs
  <2>2. \A s \in Seats : loc'[s] = "deal"
    BY <1>5, <2>1 DEF AfterBarrier
  <2> QED BY <1>3, <1>6, <2>2 DEF Joining, Lockstep, Dealing, AllIn
<1>7. CASE Opening
  <2>1. \A s \in Seats : loc[s] = "start"
    BY <1>2, <1>7 DEF Opening, AllIn, BarrierLocs
  <2>2. \A s \in Seats : loc'[s] = "deal"
    BY <1>5, <2>1 DEF AfterBarrier
  <2> QED BY <1>3, <1>7, <2>2 DEF Opening, Lockstep, Dealing, AllIn
<1>8. ASSUME curr_lewa = << >>, \E l \in {"turn", "over"} : \A s \in Seats : loc'[s] = l,
             SomeAt("over")' => ~round_finished
      PROVE  Playing'
  <2>1. AllIn(PlayLocs)' /\ OneCardEach'
    BY <1>3, <1>8 DEF AllIn, PlayLocs, OneCardEach
  <2>2. \A s \in Seats : ~OnTable(s)' /\ ~HasPlayed(s)'
    BY <1>3, <1>8 DEF OnTable, HasPlayed
  <2>3. \A s \in Seats : loc'[s] \notin {"won", "lead", "count"}
    BY <1>8
  <2>4. SomeAt("over")' => ~round_finished'
    BY <1>3, <1>8
  <2> QED BY <2>1, <2>2, <2>3, <2>4 DEF Playing
<1>9. CASE Dealing
  <2>1. \A s \in Seats : loc[s] = "dealt"
    BY <1>2, <1>9 DEF Dealing, AllIn, BarrierLocs
  <2>2. \A s \in Seats : loc'[s] = "turn"
    BY <1>5, <2>1 DEF AfterBarrier
  <2>3. ~SomeAt("over")' /\ curr_lewa = << >>
    BY <1>9, <2>2 DEF Dealing, SomeAt
  <2> QED BY <1>8, <2>2, <2>3 DEF Lockstep
<1>10. CASE Playing
  <2>1. \A s \in Seats : loc[s] = "passed"
    BY <1>2, <1>10 DEF Playing, AllIn, BarrierLocs, PlayLocs
  <2>2. \A s \in Seats : loc'[s] = "taken"
    BY <1>5, <2>1 DEF AfterBarrier
  <2>3. LewaFull
    BY <1>10, <2>1, FullTable DEF Playing, HasPlayed
  <2> QED BY <1>3, <2>2, <2>3 DEF Lockstep, Taking, AllIn, LewaFull
<1>11. CASE Taking
  <2>1. \A s \in Seats : loc[s] = "credited"
    BY <1>2, <1>11 DEF Taking, AllIn, BarrierLocs
  <2>2. \A s \in Seats : loc'[s] = "newlewa"
    BY <1>5, <2>1 DEF AfterBarrier
  <2> QED BY <1>3, <1>11, <2>2 DEF Lockstep, Taking, Clearing, AllIn, SomeAt,
      LewaFull
<1>12. CASE Clearing
  <2>1. \A s \in Seats : loc[s] = "cleared"
    BY <1>2, <1>12 DEF Clearing, AllIn, BarrierLocs
  <2>2. \A s \in Seats : loc'[s] = "over"
    BY <1>5, <2>1 DEF AfterBarrier
  <2>3. curr_lewa = << >>
    BY <1>4, <1>12, <2>1 DEF Clearing, SomeAt
  <2>4. CASE round_finished
    BY <1>3, <2>2, <2>3, <2>4 DEF Lockstep, Scoring, AllIn
  <2>5. CASE ~round_finished
    BY <1>8, <2>2, <2>3, <2>5 DEF Lockstep
  <2> QED BY <2>4, <2>5
<1>13. CASE Scoring
  <2>1. \A s \in Seats : loc[s] = "scored"
    BY <1>2, <1>13 DEF Scoring, AllIn, BarrierLocs
  <2>2. \A s \in Seats : loc'[s] = "total"
    BY <1>5, <2>1 DEF AfterBarrier
  <2> QED BY <1>3, <1>13, <2>2 DEF Lockstep, Scoring, Totalling, AllIn
<1>14. CASE Totalling
  <2>1. \A s \in Seats : loc[s] = "totalled"
    BY <1>2, <1>14 DEF Totalling, AllIn, BarrierLocs
  <2>2. \A s \in Seats : loc'[s] = "last"
    BY <1>5, <2>1 DEF AfterBarrier
  <2>3. Continuing' \/ Leaving'
    BY <1>3, <1>14, <2>2 DEF Totalling, Continuing, Leaving, LeaveLocs, AllIn,
       LastRound
  <2> QED BY <2>3 DEF Lockstep
<1>15. CASE Continuing
  <2>1. \A s \in Seats : loc[s] = "nextround"
    BY <1>2, <1>15 DEF Continuing, AllIn, BarrierLocs
  <2>2. \A s \in Seats : loc'[s] = "newround"
    BY <1>5, <2>1 DEF AfterBarrier
  <2> QED BY <1>3, <1>15, <2>2 DEF Lockstep, Continuing, Opening, AllIn,
      LastRound
<1>16. CASE Leaving
  BY <1>2, <1>4, <1>16 DEF Leaving, AllIn, LeaveLocs, BarrierLocs
<1> QED BY <1>6, <1>7, <1>9, <1>10, <1>11, <1>12, <1>13, <1>14, <1>15,
    <1>16 DEF Lockstep

(***************************************************************************)
(* Lockstep: a player thread is started while the table waits for its      *)
(* players.                                                                *)
(***************************************************************************)
LEMMA LockMain ==
    ASSUME TypeOK, Lockstep, Admission, MainStep
    PROVE  Lockstep'
<1>1. UNCHANGED <<curr_lewa, lewa_id, round_number, round_finished>>
  BY DEF MainStep, ByMain, CheckIfPositionTaken, SendBusy, AdmitNew,
     AdmitReplacement, AddNewPlayer, Spawn, Exit, gmVars, lewa, round
<1>2. ASSUME ByMain(Spawn), NEW p \in Seats, p = request
      PROVE  Lockstep'
  <2>1. loc[p] = "none" /\ Goto(p, "start")
    BY <1>2 DEF ByMain, Spawn, Admission
  <2>2. Joining
    BY <2>1, PhaseAt
  <2> QED BY <1>1, <2>1, <2>2, AllInMove DEF Joining, Lockstep
<1>3. CASE ~ByMain(Spawn)
  <2>1. \A t \in Seats : SeatStill(t)
    BY <1>3 DEF MainStep, ByMain, CheckIfPositionTaken, SendBusy, AdmitNew,
       AdmitReplacement, Exit, playerVars, seatSync, tcpVars, tcpState,
       SeatStill
  <2>2. UNCHANGED loc
    BY <1>3 DEF MainStep, ByMain, CheckIfPositionTaken, SendBusy, AdmitNew,
       AdmitReplacement, Exit, playerVars
  <2> QED BY <1>1, <2>1, <2>2, PlayedStill, LockStill
<1>4. ByMain(Spawn) => request \in Seats
  BY DEF ByMain, Spawn, Admission
<1> QED BY <1>2, <1>3, <1>4

(***************************************************************************)
(* Lockstep: nothing the phases speak of changes.                          *)
(***************************************************************************)
LEMMA LockStutter ==
    ASSUME Lockstep,
           UNCHANGED <<playerVars, seatSync, tcpVars, gmVars>>
    PROVE  Lockstep'
<1>1. \A t \in Seats : SeatStill(t)
  BY DEF SeatStill, playerVars, seatSync, tcpVars, tcpState
<1> QED BY <1>1, PlayedStill, LockStill DEF playerVars, gmVars, lewa, round

(***************************************************************************)
(* Lockstep: a client asks for a seat.                                     *)
(***************************************************************************)
LEMMA LockJoin ==
    ASSUME Lockstep, NEW s \in Seats, JoinStep(s)
    PROVE  Lockstep'
  BY LockStutter DEF JoinStep, ByMain, JoinRequest

(***************************************************************************)
(* Lockstep: the initial state.                                            *)
(***************************************************************************)
LEMMA LockInit == Init => Lockstep
  BY DEF Init, GMInit, SeatInit, Lockstep, Joining, AllIn

(***************************************************************************)
(* There are NumSeats seats.                                               *)
(***************************************************************************)
LEMMA SeatsFinite == IsFiniteSet(Seats) /\ Cardinality(Seats) = NumSeats
  BY FS_Interval, SizesAssumption DEF Seats

(***************************************************************************)
(* The taken seats can be counted, and are all the seats when there are    *)
(* NumSeats of them.                                                       *)
(***************************************************************************)
LEMMA TakenFinite ==
    ASSUME TypeOK
    PROVE  /\ Taken \subseteq Seats /\ IsFiniteSet(Taken)
           /\ Cardinality(Taken) \in Nat /\ Cardinality(Taken) <= NumSeats
           /\ Cardinality(Taken) = NumSeats => Taken = Seats
<1>1. Taken \in SUBSET Seats
  BY DEF Taken
<1> QED BY <1>1, SeatsFinite, FS_Subset, FS_CardinalityType

(***************************************************************************)
(* A free seat that has a player thread is one whose player thread waits   *)
(* for a replacement.                                                      *)
(***************************************************************************)
LEMMA FreeSeat ==
    ASSUME TypeOK, Handoff, Admission, NEW p \in Seats, ~pos_taken_map[p], loc[p] # "none"
    PROVE  sub[p] = "left" /\ loc[p] \in CommLocs
  BY DEF Admission, SeatOf, Handoff, HandoffOf

(***************************************************************************)
(* Once one player thread is past the first barrier and none has left,     *)
(* NumSeats players are counted and no seat is without its thread.         *)
(***************************************************************************)
LEMMA NobodyMissing ==
    ASSUME TypeOK, Handoff, Lockstep, Admission, NEW s \in Seats,
           loc[s] \notin {"none", "start"} \cup LeaveLocs
    PROVE  number_of_players_present = NumSeats /\ ~SomeAt("none") /\ ~Leaving
<1>1. ~Leaving
  BY DEF Leaving, AllIn
<1>2. ~SomeAt("none")
  BY PhaseAt DEF SomeAt, Joining, AllIn
<1> QED BY <1>1, <1>2 DEF Admission

(***************************************************************************)
(* Admission: nothing it speaks of changes.                                *)
(***************************************************************************)
LEMMA AdmissionStill ==
    ASSUME Admission, UNCHANGED <<loc, sub, main, request, admission>>, Leaving => Leaving'
    PROVE  Admission'
  BY DEF Admission, SeatOf, SomeAt, Taken, admission

(***************************************************************************)
(* The last phase depends on the places, the trick and the round.          *)
(***************************************************************************)
LEMMA LeavingStill ==
    ASSUME UNCHANGED <<loc, curr_lewa, round_number>>
    PROVE  Leaving => Leaving'
  BY DEF Leaving, AllIn, LastRound

(***************************************************************************)
(* Admission: a player thread that has a client moves on.                  *)
(***************************************************************************)
LEMMA AdmissionMove ==
    ASSUME TypeOK, Admission, NEW s \in Seats, NEW to, Goto(s, to), to # "none",
           loc[s] # "none", sub[s] # "left", sub'[s] # "left",
           \A t \in Seats \ {s} : sub'[t] = sub[t],
           UNCHANGED <<main, request, admission>>, Leaving => Leaving'
    PROVE  Admission'
<1>1. loc'[s] # "none" /\ \A t \in Seats \ {s} : loc'[t] = loc[t]
  BY DEF Goto, TypeOK, SeatTypeOK
<1>2. SomeAt("none")' <=> SomeAt("none")
  BY <1>1 DEF SomeAt
<1>3. \A t \in Seats : SeatOf(t)'
  BY <1>1 DEF Admission, SeatOf, admission
<1>4. main' = "spawn" => loc'[request'] = "none" /\ pos_taken_map'[request']
  BY <1>1 DEF Admission, admission
<1> QED BY <1>1, <1>2, <1>3, <1>4 DEF Admission, admission, Taken

(***************************************************************************)
(* Admission: freeing a seat, and taking up the permit that comes with a   *)
(* replacement.                                                            *)
(***************************************************************************)
LEMMA AdmissionTalk ==
    ASSUME TypeOK, Handoff, Lockstep, Admission, NEW s \in Seats, TalkStep(s)
    PROVE  Admission'
<1>0. /\ HandoffOf(s) /\ SeatOf(s) /\ sub \in [Seats -> Subs] /\ UNCHANGED <<main, request>>
      /\ pos_taken_map \in [Seats -> BOOLEAN] /\ disconnected_sem_map \in [Seats -> Nat]
  BY DEF Handoff, TypeOK, SeatTypeOK, Admission, TalkStep, BySeat, mainVars,
     GMTypeOK, AdmissionTypeOK
<1>1. loc[s] \in CommLocs
  BY <1>0 DEF TalkStep, BySeat, SendCommand, CollectServed, CollectEnded,
     Recover, Replace, ResendCommand, HandoffOf
<1>2. number_of_players_present = NumSeats /\ ~SomeAt("none") /\ ~Leaving
  BY <1>1, NobodyMissing DEF CommLocs, LeaveLocs
<1>3. CASE BySeat(CollectServed(s))
  <2>1. CollectServed(s) /\ UNCHANGED admission
    BY <1>3 DEF BySeat, CollectServed, gmVars
  <2>2. AfterCommand(loc[s]) # "none" /\ loc[s] # "none"
    BY <1>1, CommandNames DEF CommLocs
  <2> QED BY <1>0, <1>2, <2>1, <2>2, AdmissionMove DEF CollectServed
<1>4. CASE BySeat(Recover(s))
  <2>1. Recover(s)
    BY <1>4 DEF BySeat
  <2>2. /\ sub' = [sub EXCEPT ![s] = "left"] /\ sub[s] = "recover"
        /\ pos_taken_map' = [pos_taken_map EXCEPT ![s] = FALSE]
        /\ UNCHANGED <<loc, number_of_players_present, disconnected_sem_map>>
    BY <2>1 DEF Recover, SetPlayerLeft
  <2>3. loc[s] # "none"
    BY <1>1 DEF CommLocs
  <2>4. \A t \in Seats : SeatOf(t)'
    BY <1>0, <2>2, <2>3 DEF Admission, SeatOf
  <2>5. ~SomeAt("none")'
    BY <1>2, <2>2 DEF SomeAt
  <2>6. /\ main' # "idle" => request' \in Seats
        /\ main' = "add" => ~pos_taken_map'[request']
        /\ main' = "spawn" => loc'[request'] = "none" /\ pos_taken_map'[request']
    BY <1>0, <2>2, <2>3 DEF Admission
  <2> QED BY <1>2, <2>2, <2>4, <2>5, <2>6 DEF Admission
<1>5. CASE BySeat(Replace(s))
  <2>1. Replace(s)
    BY <1>5 DEF BySeat
  <2>2. /\ sub' = [sub EXCEPT ![s] = "sync"] /\ sub[s] = "left"
        /\ disconnected_sem_map[s] > 0
        /\ disconnected_sem_map' = [disconnected_sem_map EXCEPT ![s] = @ - 1]
        /\ UNCHANGED <<loc, number_of_players_present, pos_taken_map>>
    BY <2>1 DEF Replace, AcquireDisconnectedSem, playerVars
  <2>3. loc[s] # "none"
    BY <1>1 DEF CommLocs
  <2>4. pos_taken_map[s] /\ disconnected_sem_map[s] = 1
    BY <1>0, <2>2 DEF SeatOf
  <2>5. \A t \in Seats : SeatOf(t)'
    BY <1>0, <2>2, <2>3, <2>4 DEF Admission, SeatOf
  <2>6. ~SomeAt("none")'
    BY <1>2, <2>2 DEF SomeAt
  <2> QED BY <1>0, <1>2, <2>2, <2>5, <2>6 DEF Admission
<1>6. CASE BySeat(SendCommand(s)) \/ BySeat(CollectEnded(s)) \/ BySeat(ResendCommand(s))
  <2>1. /\ UNCHANGED <<loc, admission>> /\ sub[s] # "left" /\ sub'[s] # "left"
        /\ \A t \in Seats \ {s} : sub'[t] = sub[t]
    BY <1>0, <1>6 DEF BySeat, SendCommand, CollectEnded, ResendCommand, gmVars
  <2>2. \A t \in Seats : SeatOf(t)'
    BY <1>0, <2>1 DEF Admission, SeatOf, admission
  <2>3. ~SomeAt("none")'
    BY <1>2, <2>1 DEF SomeAt
  <2> QED BY <1>0, <1>2, <2>1, <2>2, <2>3 DEF Admission, admission
<1> QED BY <1>3, <1>4, <1>5, <1>6 DEF TalkStep

(***************************************************************************)
(* Admission: the steps of the game. The count goes down only in the last  *)
(* phase, where no seat can be free.                                       *)
(***************************************************************************)
LEMMA AdmissionGame ==
    ASSUME TypeOK, Handoff, Lockstep, Admission, NEW s \in Seats, GameStep(s)
    PROVE  Admission'
<1>0. /\ HandoffOf(s) /\ loc \in [Seats -> Locs]
  BY DEF Handoff, TypeOK, SeatTypeOK
<1>1. ASSUME loc[s] \notin CommLocs \cup {"none"}, NEW to, to # "none", Goto(s, to),
             UNCHANGED <<sub, main, request, admission>>, Leaving => Leaving'
      PROVE  Admission'
  <2>1. sub[s] # "left" /\ loc[s] # "none"
    BY <1>0, <1>1 DEF HandoffOf
  <2> QED BY <1>1, <2>1, AdmissionMove
<1>2. ASSUME NEW to \in LeaveLocs, Goto(s, to), UNCHANGED <<curr_lewa, round_number>>
      PROVE  Leaving => Leaving'
  BY <1>2, AllInMove DEF Leaving, LastRound
<1>3. ASSUME loc[s] \notin CommLocs \cup {"none", "start"} \cup LeaveLocs, NEW to, to # "none",
             Goto(s, to), UNCHANGED <<sub, main, request, admission>>
      PROVE  Admission'
  BY <1>1, <1>3, NobodyMissing
<1>4. CASE BySeat(TakeTurn(s))
  BY <1>3, <1>4 DEF BySeat, TakeTurn, Step, WaitForTurn, mainVars, CommLocs,
     LeaveLocs
<1>5. CASE BySeat(CheckFull(s))
  BY <1>3, <1>5 DEF BySeat, CheckFull, Step, gmVars, mainVars, CommLocs,
     LeaveLocs
<1>6. CASE BySeat(DecideTaker(s))
  BY <1>3, <1>6 DEF BySeat, DecideTaker, Step, CheckWhoWonLewa, mainVars,
     CommLocs, LeaveLocs
<1>7. CASE BySeat(GiveLead(s))
  BY <1>3, <1>7 DEF BySeat, GiveLead, Step, SetFirstPlayerForNextTurn,
     mainVars, CommLocs, LeaveLocs
<1>8. CASE BySeat(CountCards(s))
  BY <1>3, <1>8 DEF BySeat, CountCards, Step, CountCardsPlayed, mainVars,
     CommLocs, LeaveLocs
<1>9. CASE BySeat(PassTurn(s))
  BY <1>3, <1>9 DEF BySeat, PassTurn, Step, NextPlayerTurn, mainVars, CommLocs,
     LeaveLocs
<1>10. CASE BySeat(ClearTable(s))
  BY <1>3, <1>10 DEF BySeat, ClearTable, Step, PrepareNewLewa, mainVars,
     CommLocs, LeaveLocs
<1>11. CASE BySeat(CheckRound(s))
  BY <1>3, <1>11 DEF BySeat, CheckRound, Step, gmVars, mainVars, CommLocs,
     LeaveLocs
<1>12. CASE BySeat(CheckLastRound(s))
  <2>1. /\ loc[s] = "last" /\ Goto(s, IF LastRound THEN "leave" ELSE "nextround")
        /\ UNCHANGED <<sub, main, request, admission, curr_lewa, round_number>>
    BY <1>12 DEF BySeat, CheckLastRound, Step, gmVars, mainVars, lewa, round
  <2>2. Leaving => Leaving'
    BY <1>2, <2>1 DEF Leaving, LeaveLocs
  <2> QED BY <1>1, <2>1, <2>2 DEF CommLocs
<1>13. CASE BySeat(StartRound(s))
  BY <1>3, <1>13 DEF BySeat, StartRound, Step, PrepareNewRound, mainVars,
     CommLocs, LeaveLocs
<1>14. CASE BySeat(MonitorThrows(s))
  BY <1>14, AdmissionStill, LeavingStill DEF BySeat, MonitorThrows, playerVars,
     gmVars, mainVars, lewa, round
<1>15. CASE ByMain(LeaveGame(s))
  <2>1. LeaveGame(s) /\ loc[s] = "leave" /\ Goto(s, "end")
    BY <1>15 DEF ByMain, LeaveGame
  <2>2. Leaving
    BY <2>1, PhaseAt DEF LeaveLocs
  <2>3. /\ UNCHANGED <<sub, main, request, pos_taken_map, disconnected_sem_map, curr_lewa, round_number>>
    BY <2>1 DEF LeaveGame, DecrementPresentPlayers, lewa, round
  <2>4. Leaving'
    BY <1>2, <2>1, <2>2, <2>3 DEF LeaveLocs
  <2>5. ~SomeAt("none")'
    BY <2>4 DEF Leaving, AllIn, SomeAt, LeaveLocs
  <2>6. \A t \in Seats : loc[t] # "none" /\ loc'[t] # "none"
    BY <2>2, <2>4 DEF Leaving, AllIn, LeaveLocs
  <2>7. \A t \in Seats : SeatOf(t)'
    BY <2>3, <2>6 DEF Admission, SeatOf
  <2>8. main # "spawn"
    BY <2>6 DEF Admission
  <2> QED BY <2>3, <2>4, <2>5, <2>7, <2>8 DEF Admission
<1>16. CASE BySeat(SendEnd(s))
  <2>1. /\ loc[s] = "end" /\ Goto(s, "endwait")
        /\ UNCHANGED <<sub, main, request, admission, curr_lewa, round_number>>
    BY <1>16 DEF BySeat, SendEnd, gmVars, mainVars, lewa, round
  <2>2. Leaving => Leaving'
    BY <1>2, <2>1 DEF LeaveLocs
  <2> QED BY <1>1, <2>1, <2>2 DEF CommLocs
<1>17. CASE BySeat(CollectEnd(s))
  <2>1. /\ loc[s] = "endwait" /\ Goto(s, "finished")
        /\ UNCHANGED <<sub, main, request, admission, curr_lewa, round_number>>
    BY <1>17 DEF BySeat, CollectEnd, gmVars, mainVars, lewa, round
  <2>2. Leaving => Leaving'
    BY <1>2, <2>1 DEF LeaveLocs
  <2> QED BY <1>1, <2>1, <2>2 DEF CommLocs
<1> QED BY <1>4, <1>5, <1>6, <1>7, <1>8, <1>9, <1>10, <1>11, <1>12, <1>13,
    <1>14, <1>15,
           <1>16, <1>17 DEF GameStep

(***************************************************************************)
(* Admission: the TCP threads and the failures.                            *)
(***************************************************************************)
LEMMA AdmissionSocket ==
    ASSUME TypeOK, Handoff, Lockstep, Admission, NEW s \in Seats,
           TcpStep(s) \/ SignalStep(s) \/ FailureStep(s)
    PROVE  Admission'
<1>1. UNCHANGED <<loc, sub, main, request, admission, round_number>>
  BY DEF TcpStep, SignalStep, FailureStep, BySeat, HandleDeal, AskForCard,
     AcceptCard, AddCardToLewa, CardOverflows, HandleTaken, TakenThrows, HandleScore,
     HandleTotal, HandleEnd, Resync, SignalEnded, LoseClientInPoll,
     LoseClientInTrick, ResetInTrick, WrongAborts, BrokenPipe, playerVars,
     gmVars, mainVars, round
<1>2. CASE BySeat(AcceptCard(s))
  <2>1. loc[s] = "trick"
    BY <1>2, HandoffInTrick DEF BySeat, AcceptCard
  <2>2. ~Leaving
    BY <2>1 DEF Leaving, AllIn, LeaveLocs
  <2> QED BY <1>1, <2>2, AdmissionStill
<1>3. CASE ~BySeat(AcceptCard(s))
  <2>1. UNCHANGED curr_lewa
    BY <1>3 DEF TcpStep, SignalStep, FailureStep, BySeat, HandleDeal,
       AskForCard, CardOverflows, HandleTaken, TakenThrows, HandleScore, HandleTotal,
       HandleEnd, Resync, SignalEnded, LoseClientInPoll, LoseClientInTrick,
       ResetInTrick, WrongAborts, BrokenPipe, gmVars, lewa
  <2> QED BY <1>1, <2>1, AdmissionStill, LeavingStill
<1> QED BY <1>2, <1>3

(***************************************************************************)
(* Admission: the barrier.                                                 *)
(***************************************************************************)
LEMMA AdmissionBarrier ==
    ASSUME TypeOK, Handoff, Lockstep, Admission, BarrierStep
    PROVE  Admission'
<1>1. BarrierTrips /\ UNCHANGED <<sub, main, request, admission>>
  BY DEF BarrierStep, BySeat, BarrierTrips, gmVars, mainVars
<1>2. \A s \in Seats : loc[s] \in BarrierLocs /\ loc'[s] # "none"
  BY <1>1 DEF BarrierTrips, BarrierLocs, AfterBarrier
<1>3. Seats # {}
  BY SizesAssumption DEF Seats
<1>4. number_of_players_present = NumSeats
  BY <1>2, <1>3 DEF Admission, SomeAt, Leaving, AllIn, LeaveLocs, BarrierLocs
<1>5. \A s \in Seats : SeatOf(s)'
  BY <1>1, <1>2 DEF Admission, SeatOf, BarrierLocs, admission
<1>6. main # "spawn" /\ ~SomeAt("none")'
  BY <1>2 DEF Admission, BarrierLocs, SomeAt
<1> QED BY <1>1, <1>4, <1>5, <1>6 DEF Admission, admission

(***************************************************************************)
(* Admission: a client that is counted gets a seat that never had a player *)
(* thread, although seat and count were looked at in two critical          *)
(* sections.                                                               *)
(***************************************************************************)
LEMMA AdmissionNew ==
    ASSUME TypeOK, Handoff, Lockstep, Admission, AdmitNew
    PROVE  Admission'
<1> DEFINE p == request
<1>1. /\ p \in Seats /\ ~pos_taken_map[p] /\ main = "add" /\ main' = "spawn" /\ request' = p
      /\ number_of_players_present < NumSeats
      /\ number_of_players_present' = number_of_players_present + 1
      /\ pos_taken_map' = [pos_taken_map EXCEPT ![p] = TRUE]
      /\ UNCHANGED <<loc, sub, disconnected_sem_map>>
  BY DEF AdmitNew, AddNewPlayer, Admission, playerVars
<1> HIDE DEF p
<1>2. SomeAt("none") \/ Leaving
  BY <1>1, SizesAssumption DEF Admission
<1>3. loc[p] = "none"
  <2> SUFFICES ASSUME loc[p] # "none" PROVE FALSE
    OBVIOUS
  <2>1. loc[p] \in CommLocs
    BY <1>1, FreeSeat
  <2> QED BY <1>1, <1>2, <2>1, NobodyMissing DEF CommLocs, LeaveLocs
<1>4. SomeAt("none") /\ SomeAt("none")'
  BY <1>1, <1>3 DEF SomeAt
<1>5. Taken' = Taken \cup {p} /\ p \notin Taken
  BY <1>1 DEF Taken, TypeOK, GMTypeOK, AdmissionTypeOK
<1>6. number_of_players_present' = Cardinality(Taken')
  BY <1>1, <1>4, <1>5, TakenFinite, FS_AddElement DEF Admission
<1>7. sub[p] # "left"
  BY <1>1, <1>3 DEF Handoff, HandoffOf, CommLocs
<1>8. \A t \in Seats : SeatOf(t)'
  <2> SUFFICES ASSUME NEW t \in Seats PROVE SeatOf(t)'
    OBVIOUS
  <2>1. SeatOf(t)
    BY DEF Admission
  <2>2. CASE t = p
    BY <1>1, <1>3, <1>7, <2>1, <2>2 DEF SeatOf, TypeOK, GMTypeOK,
       AdmissionTypeOK
  <2>3. CASE t # p
    BY <1>1, <2>1, <2>3 DEF SeatOf, TypeOK, GMTypeOK, AdmissionTypeOK
  <2> QED BY <2>2, <2>3
<1> QED BY <1>1, <1>3, <1>4, <1>6, <1>8 DEF Admission, TypeOK, GMTypeOK,
    AdmissionTypeOK

(***************************************************************************)
(* Admission: a client that is not counted gets a seat whose player thread *)
(* waits for it.                                                           *)
(***************************************************************************)
LEMMA AdmissionReplacement ==
    ASSUME TypeOK, Handoff, Lockstep, Admission, AdmitReplacement
    PROVE  Admission'
<1>1. PICK p \in Seats : p = request
  BY DEF AdmitReplacement, Admission
<1>2. /\ ~pos_taken_map[p] /\ main = "add" /\ main' = "idle"
      /\ number_of_players_present = NumSeats
      /\ number_of_players_present' = number_of_players_present
      /\ pos_taken_map' = [pos_taken_map EXCEPT ![p] = TRUE]
      /\ disconnected_sem_map' = [disconnected_sem_map EXCEPT ![p] = @ + 1]
      /\ UNCHANGED <<loc, sub>>
  BY <1>1, SizesAssumption DEF AdmitReplacement, AddNewPlayer, Admission,
     playerVars, TypeOK, GMTypeOK, AdmissionTypeOK
<1>3. ~SomeAt("none")
  <2>1. Taken # Seats
    BY <1>2 DEF Taken
  <2> QED BY <1>2, <2>1, TakenFinite DEF Admission
<1>4. loc[p] # "none" /\ sub[p] = "left"
  BY <1>2, <1>3, FreeSeat DEF SomeAt
<1>5. \A t \in Seats : SeatOf(t)'
  <2> SUFFICES ASSUME NEW t \in Seats PROVE SeatOf(t)'
    OBVIOUS
  <2>1. SeatOf(t) /\ loc[t] # "none"
    BY <1>3 DEF Admission, SomeAt
  <2>2. CASE t = p
    BY <1>2, <1>4, <2>1, <2>2 DEF SeatOf, TypeOK, GMTypeOK, AdmissionTypeOK
  <2>3. CASE t # p
    BY <1>2, <2>1, <2>3 DEF SeatOf, TypeOK, GMTypeOK, AdmissionTypeOK
  <2> QED BY <2>2, <2>3
<1>6. ~SomeAt("none")'
  BY <1>2, <1>3 DEF SomeAt
<1> QED BY <1>2, <1>5, <1>6 DEF Admission

(***************************************************************************)
(* Admission: the player thread of a new seat starts; when it is the last  *)
(* one, all seats are counted.                                             *)
(***************************************************************************)
LEMMA AdmissionSpawn ==
    ASSUME TypeOK, Handoff, Lockstep, Admission, Spawn
    PROVE  Admission'
<1>1. PICK p \in Seats : p = request
  BY DEF Spawn, Admission
<1>2. /\ loc[p] = "none" /\ pos_taken_map[p] /\ main = "spawn" /\ main' = "idle"
      /\ loc' = [loc EXCEPT ![p] = "start"]
      /\ UNCHANGED <<sub, admission>>
      /\ sub[p] # "left"
  BY <1>1 DEF Spawn, Goto, Admission, gmVars, Handoff, HandoffOf, CommLocs
<1>3. \A t \in Seats : SeatOf(t)'
  <2> SUFFICES ASSUME NEW t \in Seats PROVE SeatOf(t)'
    OBVIOUS
  <2>1. SeatOf(t)
    BY DEF Admission
  <2>2. CASE t = p
    BY <1>1, <1>2, <2>1, <2>2 DEF SeatOf, TypeOK, SeatTypeOK, admission
  <2>3. CASE t # p
    BY <1>1, <1>2, <2>1, <2>3 DEF SeatOf, TypeOK, SeatTypeOK, admission
  <2> QED BY <2>2, <2>3
<1>4. SomeAt("none") /\ number_of_players_present = Cardinality(Taken) /\ Taken' = Taken
  BY <1>2 DEF Admission, SomeAt, Taken, admission
<1>5. number_of_players_present # NumSeats => SomeAt("none")'
  <2> SUFFICES ASSUME ~SomeAt("none")' PROVE number_of_players_present = NumSeats
    OBVIOUS
  <2>1. Joining
    BY <1>2, PhaseAt
  <2>2. \A t \in Seats : t = p \/ loc[t] = "start"
    BY <1>2, <2>1 DEF SomeAt, Joining, AllIn, TypeOK, SeatTypeOK
  <2>3. \A t \in Seats : pos_taken_map[t]
    BY <1>2, <2>2, FreeSeat DEF CommLocs
  <2>4. Taken = Seats
    BY <2>3 DEF Taken
  <2> QED BY <1>4, <2>4, SeatsFinite
<1> QED BY <1>2, <1>3, <1>4, <1>5 DEF Admission, admission

(***************************************************************************)
(* Admission: the main thread.                                             *)
(***************************************************************************)
LEMMA AdmissionMain ==
    ASSUME TypeOK, Handoff, Lockstep, Admission, MainStep
    PROVE  Admission'
<1>1. CASE ByMain(CheckIfPositionTaken)
  <2>1. /\ main = "check" /\ main' = IF pos_taken_map[request] THEN "busy" ELSE "add"
        /\ UNCHANGED <<request, admission, loc, sub, curr_lewa, round_number>>
    BY <1>1 DEF ByMain, CheckIfPositionTaken, gmVars, playerVars, lewa, round
  <2> QED BY <2>1, LeavingStill DEF Admission, SeatOf, SomeAt, Taken, admission
<1>2. CASE ByMain(SendBusy)
  <2>1. /\ main = "busy" /\ main' = "idle"
        /\ UNCHANGED <<admission, loc, sub, curr_lewa, round_number>>
    BY <1>2 DEF ByMain, SendBusy, gmVars, playerVars, lewa, round
  <2> QED BY <2>1, LeavingStill DEF Admission, SeatOf, SomeAt, Taken, admission
<1>3. CASE ByMain(Exit)
  BY <1>3, AdmissionStill, LeavingStill DEF ByMain, Exit, gmVars, playerVars,
     mainVars, lewa, round
<1> QED BY <1>1, <1>2, <1>3, AdmissionNew, AdmissionReplacement,
    AdmissionSpawn DEF MainStep, ByMain

(***************************************************************************)
(* Admission: a client asks for a seat.                                    *)
(***************************************************************************)
LEMMA AdmissionJoin ==
    ASSUME Admission, NEW s \in Seats, JoinStep(s)
    PROVE  Admission'
<1>1. /\ main = "idle" /\ main' = "check" /\ request' = s
      /\ UNCHANGED <<admission, loc, sub, curr_lewa, round_number>>
  BY DEF JoinStep, ByMain, JoinRequest, gmVars, playerVars, lewa, round
<1> QED BY <1>1, LeavingStill DEF Admission, SeatOf, SomeAt, Taken, admission

(***************************************************************************)
(* Admission: nothing changes.                                             *)
(***************************************************************************)
LEMMA AdmissionStutter == Admission /\ UNCHANGED vars => Admission'
  BY AdmissionStill, LeavingStill DEF vars, playerVars, gmVars, mainVars, lewa,
     round

(***************************************************************************)
(* Admission: the initial state.                                           *)
(***************************************************************************)
LEMMA AdmissionInit == Init => Admission
<1> SUFFICES ASSUME Init PROVE Admission
  OBVIOUS
<1>0. Seats # {}
  BY SizesAssumption DEF Seats
<1>1. Taken = {}
  BY DEF Taken, Init, GMInit
<1>2. SomeAt("none") /\ number_of_players_present = Cardinality(Taken)
  BY <1>0, <1>1, FS_EmptySet DEF SomeAt, Init, GMInit, SeatInit
<1>3. \A s \in Seats : SeatOf(s)
  BY DEF Init, GMInit, SeatInit, MainInit, SeatOf
<1> QED BY <1>2, <1>3 DEF Admission, Init, MainInit
=============================================================================
