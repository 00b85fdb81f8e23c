------------------------- MODULE KierkiServerProofs -------------------------
(***************************************************************************)
(* The safety theorems about kierki-serwer, for every number of seats,     *)
(* rounds and tricks and every choice of starters, and for every number of *)
(* failures of the kinds the server recovers from. All follow from the     *)
(* inductive invariant IInv of KierkiServerInv; the order of play, that    *)
(* the threads together play TableGame, takes OrderOfPlay beside it.       *)
(***************************************************************************)
EXTENDS KierkiThreadsProofs

(***************************************************************************)
(* The inductive invariant holds initially.                                *)
(***************************************************************************)
LEMMA Initial == Init => IInv
  BY TypeInit, HandoffInit, TokenInit, LockInit, AdmissionInit DEF IInv, Token

(***************************************************************************)
(* Every step of the server keeps it, when a failure is one the threads    *)
(* notice before the command is collected.                                 *)
(***************************************************************************)
LEMMA Inductive ==
    ASSUME Failures \subseteq RecoverableKinds, IInv, [Next]_vars
    PROVE  IInv'
<1>0. TypeOK /\ Handoff /\ Token /\ TakerKnown /\ Lockstep /\ Admission
  BY DEF IInv, Token
<1>1. ASSUME NEW s \in Seats, TalkStep(s) PROVE IInv'
  BY <1>0, <1>1, TypeTalk, HandoffTalk, TokenTalk, LockTalk,
     AdmissionTalk DEF IInv, Token
<1>2. ASSUME NEW s \in Seats, GameStep(s) PROVE IInv'
  BY <1>0, <1>2, TypeGame, HandoffGame, TokenGame, LockGame,
     AdmissionGame DEF IInv, Token
<1>3. ASSUME NEW s \in Seats, TcpStep(s) \/ SignalStep(s) \/ FailureStep(s) PROVE IInv'
  <2>1. TypeOK' /\ Handoff'
    BY <1>0, <1>3, TypeTcp, TypeSignal, TypeFailure, HandoffTcp, HandoffSignal,
       HandoffFailure
  <2>2. Lockstep'
    BY <1>0, <1>3, LockSocket, LockCard
  <2> QED BY <1>0, <1>3, <2>1, <2>2, TokenSocket, AdmissionSocket DEF IInv,
      Token
<1>4. CASE BarrierStep
  BY <1>0, <1>4, TypeBarrier, HandoffBarrier, TokenBarrier, LockBarrier,
     AdmissionBarrier DEF IInv, Token
<1>5. CASE MainStep
  BY <1>0, <1>5, TypeMain, HandoffMain, TokenMain, LockMain,
     AdmissionMain DEF IInv, Token
<1>6. ASSUME NEW s \in Seats, JoinStep(s) PROVE IInv'
  BY <1>0, <1>6, TypeJoin, HandoffJoin, TokenJoin, LockJoin,
     AdmissionJoin DEF IInv, Token
<1>7. CASE UNCHANGED vars
  <2>1. Lockstep'
    BY <1>0, <1>7, LockStutter DEF vars
  <2> QED BY <1>0, <1>7, <2>1, TypeStutter, HandoffStutter, TokenStutter,
      AdmissionStutter DEF IInv, Token
<1> QED BY <1>1, <1>2, <1>3, <1>4, <1>5, <1>6, <1>7 DEF Next, SeatStep, Stopped

(***************************************************************************)
(* The inductive invariant is an invariant of the server.                  *)
(***************************************************************************)
THEOREM Invariance ==
    ASSUME Failures \subseteq RecoverableKinds
    PROVE  Spec => []IInv
<1>1. Init => IInv
  BY Initial
<1>2. IInv /\ [Next]_vars => IInv'
  BY Inductive
<1> QED BY <1>1, <1>2, PTL DEF Spec

(***************************************************************************)
(* All variables keep their types (TypeOK): no command, place or seat      *)
(* outside the sets the code works with is ever reached.                   *)
(***************************************************************************)
THEOREM TypeCorrectness ==
    ASSUME Failures \subseteq RecoverableKinds
    PROVE  Spec => []TypeOK
<1>1. IInv => TypeOK
  BY DEF IInv
<1> QED BY <1>1, Invariance, PTL

(***************************************************************************)
(* There is one permit to play, in one place (TurnToken): the turn         *)
(* semaphores of GameMaster never hold two permits, whoever disconnects.   *)
(***************************************************************************)
THEOREM OneTurnPermit ==
    ASSUME Failures \subseteq RecoverableKinds
    PROVE  Spec => []TurnToken
<1>1. IInv => TurnToken
  BY DEF IInv
<1> QED BY <1>1, Invariance, PTL

(***************************************************************************)
(* A player thread that waits on semaphore_TCP has a TCP thread to wake    *)
(* it, or a permit given or due (NoLostWakeup).                            *)
(***************************************************************************)
THEOREM WakeupsArrive ==
    ASSUME Failures \subseteq RecoverableKinds
    PROVE  Spec => []NoLostWakeup
<1>1. IInv => NoLostWakeup
  <2> SUFFICES ASSUME IInv, NEW s \in Seats,
                      sub[s] \in {"wait", "sync"} \/ loc[s] = "endwait"
               PROVE  tcp[s] # "none" \/ semaphore_TCP[s] + dying[s] > 0
    BY DEF NoLostWakeup
  <2>1. HandoffOf(s) /\ sub[s] \in Subs
    BY DEF IInv, Handoff, TypeOK, SeatTypeOK
  <2> QED BY <2>1 DEF HandoffOf, DuringCommand, DuringSync, DuringEnd,
      BetweenCommands, Working, Lost, Done, Gone, Pending, CommLocs, Subs
<1> QED BY <1>1, Invariance, PTL

(***************************************************************************)
(* semaphore_TCP, a binary_semaphore, is never released above one          *)
(* (SemaphoreTCPBinary).                                                   *)
(***************************************************************************)
THEOREM PermitsBinary ==
    ASSUME Failures \subseteq RecoverableKinds
    PROVE  Spec => []SemaphoreTCPBinary
<1>1. IInv => SemaphoreTCPBinary
  <2> SUFFICES ASSUME IInv, NEW s \in Seats
               PROVE  semaphore_TCP[s] + dying[s] <= 1
    BY DEF SemaphoreTCPBinary
  <2>1. HandoffOf(s) /\ sub[s] \in Subs
    BY DEF IInv, Handoff, TypeOK, SeatTypeOK
  <2> QED BY <2>1 DEF HandoffOf, DuringCommand, DuringSync, DuringEnd,
      BetweenCommands, Working, Lost, Done, Gone, Pending, CommLocs, Subs
<1> QED BY <1>1, Invariance, PTL

(***************************************************************************)
(* The threads at the one barrier of the game are always at the same one   *)
(* of its eight uses (BarrierAligned).                                     *)
(***************************************************************************)
THEOREM BarrierAlignment ==
    ASSUME Failures \subseteq RecoverableKinds
    PROVE  Spec => []BarrierAligned
<1>1. IInv => BarrierAligned
  BY DEF IInv, Lockstep, BarrierAligned, AllIn, BarrierLocs, Joining, Dealing,
     Playing, Taking, Clearing, Scoring, Totalling, Continuing, Leaving,
     Opening, PlayLocs, LeaveLocs
<1> QED BY <1>1, Invariance, PTL

(***************************************************************************)
(* prepare_new_round finds the next round and the permit it takes back     *)
(* while it holds mutex_gm (NewRoundSafe).                                 *)
(***************************************************************************)
THEOREM RoundsOpenSafely ==
    ASSUME Failures \subseteq RecoverableKinds
    PROVE  Spec => []NewRoundSafe
<1>1. IInv => NewRoundSafe
  <2> SUFFICES ASSUME IInv, NEW s \in Seats, loc[s] = "newround", lewa_id > 1
               PROVE  ~LastRound /\ semaphore_map[whose_turn] = 1
    BY DEF NewRoundSafe
  <2>1. Opening
    BY PhaseAt DEF IInv
  <2>2. ~LastRound
    BY <2>1 DEF Opening, SomeAt
  <2>3. Holders = {}
    BY <2>1 DEF Opening, AllIn, Holders, HolderLocs
  <2> QED BY <2>2, <2>3 DEF IInv, TurnToken, TypeOK, GMTypeOK, TurnTypeOK
<1> QED BY <1>1, Invariance, PTL

(***************************************************************************)
(* A player thread is started only at a seat that has no threads           *)
(* (SpawnOnce).                                                            *)
(***************************************************************************)
THEOREM SpawnedOnce ==
    ASSUME Failures \subseteq RecoverableKinds
    PROVE  Spec => []SpawnOnce
<1>1. IInv => SpawnOnce
  BY DEF IInv, Admission, SpawnOnce, Handoff, HandoffOf, Gone, CommLocs,
     TypeOK, SeatTypeOK, Subs
<1> QED BY <1>1, Invariance, PTL

(***************************************************************************)
(* The replacement semaphore is binary and is signalled only to a seat     *)
(* whose player thread waits for it (ReplacementAwaited).                  *)
(***************************************************************************)
THEOREM ReplacementsAwaited ==
    ASSUME Failures \subseteq RecoverableKinds
    PROVE  Spec => []ReplacementAwaited
<1>1. IInv => ReplacementAwaited
  BY DEF IInv, Admission, SeatOf, ReplacementAwaited
<1> QED BY <1>1, Invariance, PTL

(***************************************************************************)
(* A TCP thread runs only while its seat has a socket, and never beside    *)
(* another one (SocketInUse).                                              *)
(***************************************************************************)
THEOREM SocketsInUse ==
    ASSUME Failures \subseteq RecoverableKinds
    PROVE  Spec => []SocketInUse
<1>1. IInv => SocketInUse
  <2> SUFFICES ASSUME IInv, NEW s \in Seats
               PROVE  /\ tcp[s] # "none" => pos_taken_map[s]
                      /\ sub[s] \in {"recover", "left"} => tcp[s] = "none"
    BY DEF SocketInUse
  <2>1. HandoffOf(s) /\ SeatOf(s)
    BY DEF IInv, Handoff, Admission
  <2> QED BY <2>1 DEF HandoffOf, SeatOf, Gone, CommLocs
<1> QED BY <1>1, Invariance, PTL

-----------------------------------------------------------------------------
(* The order of play.                                                      *)

(***************************************************************************)
(* Remainders, as far as the seats of one trick need them.                 *)
(***************************************************************************)
LEMMA RemainderSmall ==
    ASSUME NEW n \in Nat \ {0}, NEW x \in 0 .. n - 1
    PROVE  x % n = x
  OBVIOUS

(***************************************************************************)
(* One turn round the table more.                                          *)
(***************************************************************************)
LEMMA RemainderWrap ==
    ASSUME NEW n \in Nat \ {0}, NEW x \in n .. 2 * n - 1
    PROVE  x % n = x - n
  OBVIOUS

(***************************************************************************)
(* The seat that follows the x-th from a seat is the (x+1)-th from it.     *)
(***************************************************************************)
LEMMA RemainderNext ==
    ASSUME NEW n \in Nat \ {0}, NEW x \in 0 .. 2 * n - 2
    PROVE  ((x % n) + 1) % n = (x + 1) % n
<1>1. CASE x < n
  BY <1>1, RemainderSmall
<1>2. CASE x >= n
  <2>1. x % n = x - n
    BY <1>2, RemainderWrap
  <2>2. (x + 1) % n = x + 1 - n
    BY <1>2, RemainderWrap
  <2>3. (x - n + 1) % n = x - n + 1
    BY <1>2, RemainderSmall
  <2> QED BY <2>1, <2>2, <2>3
<1> QED BY <1>1, <1>2

trickVars == <<curr_lewa, lewa_id, who_won_lewa, first_player, whose_turn, lewas_played>>

(***************************************************************************)
(* The order of play is kept by what leaves the trick alone, neither takes *)
(* nor passes on the turn, opens no round and asks for no card.            *)
(***************************************************************************)
LEMMA OrderStill ==
    ASSUME OrderOfPlay, UNCHANGED trickVars,
           \A t \in Seats :
               /\ loc'[t] \in HolderLocs <=> loc[t] \in HolderLocs
               /\ loc'[t] \in FreshLocs => loc[t] \in FreshLocs \/ lewa_id = 1
               /\ loc'[t] = "pass" => loc[t] = "pass" \/ ~LewaFull
               /\ tcp'[t] = "TRICK" => tcp[t] = "TRICK" \/ LewaIdReadable
    PROVE  OrderOfPlay'
<1>1. UNCHANGED <<curr_lewa, lewa_id, who_won_lewa, first_player, whose_turn, lewas_played>>
  BY DEF trickVars
<1>2. Holders' = Holders
  BY DEF Holders
<1>3. (LewaFull' <=> LewaFull) /\ (LewaIdReadable' <=> LewaIdReadable) /\ LastCard' = LastCard
  BY <1>1 DEF LewaFull, LewaIdReadable, LastCard
<1>4. \A t : OnTable(t)' <=> OnTable(t)
  BY <1>1 DEF OnTable
<1>5. TurnFollows'
  BY <1>1, <1>2, <1>3, <1>4 DEF OrderOfPlay, TurnFollows
<1>6. TrickNumbered' /\ Clockwise'
  BY <1>1, <1>3 DEF OrderOfPlay, TrickNumbered, Clockwise
<1> QED BY <1>3, <1>5, <1>6 DEF OrderOfPlay

(***************************************************************************)
(* Order: a move of one player thread that leaves the trick alone.         *)
(***************************************************************************)
LEMMA OrderMove ==
    ASSUME TypeOK, OrderOfPlay, NEW s \in Seats, NEW to, Goto(s, to),
           UNCHANGED <<trickVars, tcp>>,
           loc[s] \in HolderLocs <=> to \in HolderLocs,
           to \in FreshLocs => loc[s] \in FreshLocs \/ lewa_id = 1,
           to = "pass" => ~LewaFull
    PROVE  OrderOfPlay'
<1>1. loc' = [loc EXCEPT ![s] = to] /\ loc \in [Seats -> Locs]
  BY DEF Goto, TypeOK, SeatTypeOK
<1>2. \A t \in Seats :
        /\ loc'[t] \in HolderLocs <=> loc[t] \in HolderLocs
        /\ loc'[t] \in FreshLocs => loc[t] \in FreshLocs \/ lewa_id = 1
        /\ loc'[t] = "pass" => loc[t] = "pass" \/ ~LewaFull
  BY <1>1
<1> QED BY <1>2, OrderStill

(***************************************************************************)
(* Order: talking to the client moves a thread to the next barrier, or     *)
(* from its card to the check of the trick.                                *)
(***************************************************************************)
LEMMA OrderTalk ==
    ASSUME TypeOK, Handoff, OrderOfPlay, NEW s \in Seats, TalkStep(s)
    PROVE  OrderOfPlay'
<1>1. UNCHANGED trickVars
  BY DEF TalkStep, BySeat, SendCommand, CollectServed, CollectEnded, Recover,
     SetPlayerLeft, Replace, AcquireDisconnectedSem, ResendCommand, gmVars,
     lewa, round, turn, trickVars
<1>2. CASE BySeat(CollectServed(s))
  <2>1. CollectServed(s)
    BY <1>2 DEF BySeat
  <2>2. loc[s] \in CommLocs
    BY <2>1 DEF CollectServed, Handoff, HandoffOf
  <2>3. /\ loc[s] \in HolderLocs <=> AfterCommand(loc[s]) \in HolderLocs
        /\ AfterCommand(loc[s]) \in FreshLocs => loc[s] \in FreshLocs
        /\ AfterCommand(loc[s]) # "pass"
    BY <2>2 DEF AfterCommand, CommLocs, HolderLocs, FreshLocs
  <2> QED BY <1>1, <2>1, <2>3, OrderMove DEF CollectServed, tcpVars, tcpState
<1>3. CASE ~BySeat(CollectServed(s))
  <2>1. UNCHANGED loc
    BY <1>3 DEF TalkStep, BySeat, SendCommand, CollectEnded, Recover, Replace,
       ResendCommand
  <2>2. \A t \in Seats : tcp'[t] = "TRICK" => tcp[t] = "TRICK"
    BY <1>3 DEF TalkStep, BySeat, SendCommand, CollectEnded, Recover, Replace,
       ResendCommand, tcpVars, tcpState, TypeOK, SeatTypeOK
  <2> QED BY <1>1, <2>1, <2>2, OrderStill
<1> QED BY <1>2, <1>3

(***************************************************************************)
(* What a thread that holds the permit knows: it is alone, and the turn is *)
(* its seat's.                                                             *)
(***************************************************************************)
LEMMA HolderTurn ==
    ASSUME IInv, NEW s \in Seats, loc[s] \in HolderLocs
    PROVE  Holders = {s} /\ whose_turn = s
  BY DEF IInv, TurnToken, Holders

(***************************************************************************)
(* Order: the player of the turn takes it, lays its card and passes the    *)
(* turn on, or decides the taker and gives it the lead.                    *)
(***************************************************************************)
LEMMA OrderTurn ==
    ASSUME IInv, OrderOfPlay, NEW s \in Seats,
           \/ TakeTurn(s)
           \/ DecideTaker(s)
           \/ GiveLead(s)
           \/ PassTurn(s)
    PROVE  OrderOfPlay'
<1>0. /\ loc \in [Seats -> Locs] /\ whose_turn \in Seats
      /\ semaphore_map \in [Seats -> Nat] /\ curr_lewa \in Seq(Seats) /\ NumSeats \in Nat \ {0}
  BY SizesAssumption DEF IInv, TypeOK, SeatTypeOK, GMTypeOK, TurnTypeOK,
     LewaTypeOK
<1>1. /\ UNCHANGED <<curr_lewa, lewa_id, lewas_played, tcp>>
      /\ \E to \in {"trick", "lead", "count", "passed"} : loc' = [loc EXCEPT ![s] = to]
  BY DEF TakeTurn, DecideTaker, GiveLead, PassTurn, Step, Goto, WaitForTurn,
     CheckWhoWonLewa, SetFirstPlayerForNextTurn, NextPlayerTurn, lewa, round,
     tcpVars, tcpState
<1>2. /\ (LewaFull' <=> LewaFull) /\ (LewaIdReadable' <=> LewaIdReadable)
      /\ LastCard' = LastCard /\ \A t : OnTable(t)' <=> OnTable(t)
  BY <1>1 DEF LewaFull, LewaIdReadable, LastCard, OnTable
<1>3. TrickNumbered' /\ Clockwise' /\ \A t \in Seats : loc'[t] = "pass" => ~LewaFull'
  BY <1>0, <1>1, <1>2 DEF OrderOfPlay, TrickNumbered, Clockwise, FreshLocs
<1>4. ASSUME loc[s] \in {"turn", "won", "lead", "pass"}
      PROVE  \A t \in Seats : OnTable(t) <=> HasPlayed(t)
  BY <1>4, PhaseAt DEF IInv, PlayLocs, Playing
<1>5. CASE TakeTurn(s)
  <2>1. loc[s] = "turn" /\ loc' = [loc EXCEPT ![s] = "trick"] /\ semaphore_map[s] > 0
        /\ UNCHANGED <<first_player, whose_turn>>
    BY <1>5 DEF TakeTurn, Step, Goto, WaitForTurn
  <2>2. Holders = {} /\ s = whose_turn
    BY <2>1 DEF IInv, TurnToken
  <2>3. whose_turn \in Holders' /\ ~OnTable(whose_turn)
    BY <1>0, <1>4, <2>1, <2>2 DEF Holders, HolderLocs, HasPlayed
  <2>4. TurnFollows'
    BY <1>1, <1>2, <2>1, <2>2, <2>3 DEF OrderOfPlay, TurnFollows
  <2> QED BY <1>3, <2>4 DEF OrderOfPlay
<1>6. CASE DecideTaker(s)
  <2>1. loc[s] = "won" /\ loc' = [loc EXCEPT ![s] = "lead"]
        /\ UNCHANGED <<first_player, whose_turn>>
    BY <1>6 DEF DecideTaker, Step, Goto, CheckWhoWonLewa, turn
  <2>2. Holders' = Holders /\ s \in Holders
    BY <1>0, <2>1 DEF Holders, HolderLocs
  <2>3. TurnFollows'
    BY <1>1, <1>2, <2>1, <2>2 DEF OrderOfPlay, TurnFollows
  <2> QED BY <1>3, <2>3 DEF OrderOfPlay
<1>7. CASE GiveLead(s)
  <2>1. loc[s] = "lead" /\ first_player' = who_won_lewa /\ whose_turn' = who_won_lewa
        /\ UNCHANGED who_won_lewa
    BY <1>7 DEF GiveLead, Step, SetFirstPlayerForNextTurn, lewa
  <2>2. LewaFull
    BY <2>1, PhaseAt DEF IInv, PlayLocs, Playing
  <2>3. curr_lewa # << >>
    BY <1>0, <2>2 DEF LewaFull
  <2> QED BY <1>1, <1>2, <1>3, <2>1, <2>2, <2>3 DEF OrderOfPlay, TurnFollows
<1>8. CASE PassTurn(s)
  <2>1. loc[s] = "pass" /\ loc' = [loc EXCEPT ![s] = "passed"]
        /\ whose_turn' = FollowingSeat(whose_turn) /\ UNCHANGED first_player
    BY <1>8 DEF PassTurn, Step, Goto, NextPlayerTurn
  <2>2. Holders = {s} /\ whose_turn = s /\ ~LewaFull
    BY <2>1, HolderTurn DEF HolderLocs, OrderOfPlay
  <2>3. Holders' = {}
    BY <1>0, <2>1, <2>2 DEF Holders, HolderLocs
  <2>4. OnTable(s)
    BY <1>4, <2>1 DEF HasPlayed
  <2>5. curr_lewa # << >> /\ whose_turn = LastCard
    BY <2>2, <2>4 DEF OnTable, OrderOfPlay, TurnFollows
  <2> QED BY <1>1, <1>2, <1>3, <2>1, <2>2, <2>3, <2>5 DEF OrderOfPlay,
      TurnFollows
<1> QED BY <1>5, <1>6, <1>7, <1>8

(***************************************************************************)
(* Order: the first thread to call prepare_new_lewa puts the trick aside,  *)
(* when the taker has the lead and the turn.                               *)
(***************************************************************************)
LEMMA OrderClear ==
    ASSUME IInv, OrderOfPlay, NEW s \in Seats, ClearTable(s)
    PROVE  OrderOfPlay'
<1>1. loc[s] = "newlewa" /\ Goto(s, "cleared") /\ UNCHANGED <<turn, who_won_lewa, tcp>>
  BY DEF ClearTable, Step, PrepareNewLewa, tcpVars, tcpState
<1>2. AllIn({"newlewa", "cleared"})
  BY <1>1, PhaseAt DEF IInv, Clearing
<1>3. CASE LewaFull
  <2>1. /\ lewas_played' = Append(lewas_played, who_won_lewa)
        /\ curr_lewa' = << >> /\ lewa_id' = lewa_id + 1
    BY <1>3 DEF ClearTable, PrepareNewLewa
  <2>2. AllIn({"newlewa", "cleared"})'
    BY <1>1, <1>2, AllInMove DEF IInv
  <2>3. \A t \in Seats : tcp'[t] # "TRICK" /\ loc'[t] \notin FreshLocs \cup {"pass"}
    BY <1>1, <1>2, <2>2, HandoffInTrick DEF IInv, AllIn, FreshLocs
  <2>4. Holders = {}
    BY <1>2 DEF AllIn, Holders, HolderLocs
  <2>5. UNCHANGED whose_turn /\ UNCHANGED first_player /\ whose_turn = first_player
    BY <1>1, <1>3, <2>4 DEF turn, OrderOfPlay, TurnFollows
  <2>6. ~LewaFull'
    BY <2>1, SizesAssumption DEF LewaFull
  <2>7. TurnFollows' /\ Clockwise'
    BY <2>1, <2>5, <2>6 DEF TurnFollows, Clockwise
  <2>8. lewa_id' = Len(lewas_played') + 1
    BY <2>1 DEF IInv, TypeOK, GMTypeOK, RoundTypeOK, OrderOfPlay, TrickNumbered
  <2> QED BY <2>3, <2>7, <2>8 DEF OrderOfPlay, TrickNumbered
<1>4. CASE ~LewaFull
  BY <1>1, <1>4, OrderMove DEF ClearTable, PrepareNewLewa, IInv, HolderLocs,
     FreshLocs, turn, trickVars
<1> QED BY <1>3, <1>4

(***************************************************************************)
(* Order: the first thread to call prepare_new_round opens the round, with *)
(* trick 1 and the turn with the starter; the others find it open.         *)
(***************************************************************************)
LEMMA OrderStart ==
    ASSUME IInv, OrderOfPlay, NEW s \in Seats, StartRound(s)
    PROVE  OrderOfPlay'
<1>1. loc[s] = "newround" /\ Goto(s, "start") /\ UNCHANGED tcp
  BY DEF StartRound, Step, tcpVars, tcpState
<1>2. AllIn({"newround", "start"})
  BY <1>1, PhaseAt DEF IInv, Opening
<1>3. CASE lewa_id > 1
  <2>1. /\ lewas_played' = << >> /\ curr_lewa' = << >> /\ lewa_id' = 1
        /\ whose_turn' = first_player'
    BY <1>3 DEF StartRound, PrepareNewRound
  <2>2. AllIn({"newround", "start"})'
    BY <1>1, <1>2, AllInMove DEF IInv
  <2>3. \A t \in Seats : tcp'[t] # "TRICK" /\ loc'[t] # "pass"
    BY <1>1, <1>2, <2>2, HandoffInTrick DEF IInv, AllIn
  <2>4. ~LewaFull'
    BY <2>1, SizesAssumption DEF LewaFull
  <2>5. TurnFollows' /\ Clockwise'
    BY <2>1, <2>4 DEF TurnFollows, Clockwise
  <2> QED BY <2>1, <2>3, <2>5 DEF OrderOfPlay, TrickNumbered
<1>4. CASE ~(lewa_id > 1)
  <2>1. lewa_id = 1
    BY <1>4 DEF IInv, TypeOK, GMTypeOK, LewaTypeOK
  <2>2. UNCHANGED <<trickVars, tcp>>
    BY <1>1, <1>4 DEF StartRound, PrepareNewRound, turn, lewa, trickVars
  <2> QED BY <1>1, <2>1, <2>2, OrderMove DEF IInv, HolderLocs
<1> QED BY <1>3, <1>4

(***************************************************************************)
(* Order: the steps of the game.                                           *)
(***************************************************************************)
LEMMA OrderGame ==
    ASSUME IInv, OrderOfPlay, NEW s \in Seats, GameStep(s)
    PROVE  OrderOfPlay'
<1>0. TypeOK
  BY DEF IInv
<1>1. CASE BySeat(TakeTurn(s)) \/ BySeat(DecideTaker(s)) \/ BySeat(GiveLead(s))
           \/ BySeat(PassTurn(s))
  BY <1>1, OrderTurn DEF BySeat
<1>2. CASE BySeat(ClearTable(s))
  BY <1>2, OrderClear DEF BySeat
<1>3. CASE BySeat(StartRound(s))
  BY <1>3, OrderStart DEF BySeat
<1>4. CASE BySeat(CheckFull(s))
  <2>1. CheckFull(s)
    BY <1>4 DEF BySeat
  <2>2. loc[s] = "full" /\ Goto(s, IF LewaFull THEN "won" ELSE "pass")
        /\ UNCHANGED <<trickVars, tcp>>
    BY <2>1 DEF CheckFull, Step, gmVars, turn, lewa, round, trickVars, tcpVars,
       tcpState
  <2> QED BY <1>0, <2>2, OrderMove DEF HolderLocs, FreshLocs
<1>5. CASE BySeat(CountCards(s))
  <2>1. loc[s] = "count" /\ Goto(s, "passed") /\ UNCHANGED <<trickVars, tcp>>
    BY <1>5 DEF BySeat, CountCards, Step, CountCardsPlayed, turn, lewa,
       trickVars, tcpVars, tcpState
  <2> QED BY <1>0, <2>1, OrderMove DEF HolderLocs, FreshLocs
<1>6. CASE BySeat(CheckRound(s))
  <2>1. loc[s] = "over" /\ UNCHANGED <<trickVars, tcp>>
        /\ \E to \in {"score", "turn"} : Goto(s, to)
    BY <1>6 DEF BySeat, CheckRound, Step, gmVars, turn, lewa, round, trickVars,
       tcpVars, tcpState
  <2> QED BY <1>0, <2>1, OrderMove DEF HolderLocs, FreshLocs
<1>7. CASE BySeat(CheckLastRound(s))
  <2>1. loc[s] = "last" /\ UNCHANGED <<trickVars, tcp>>
        /\ \E to \in {"leave", "nextround"} : Goto(s, to)
    BY <1>7 DEF BySeat, CheckLastRound, Step, gmVars, turn, lewa, round,
       trickVars, tcpVars, tcpState
  <2> QED BY <1>0, <2>1, OrderMove DEF HolderLocs, FreshLocs
<1>8. CASE BySeat(MonitorThrows(s))
  BY <1>8, OrderStill DEF BySeat, MonitorThrows, playerVars, gmVars, turn,
     lewa, round, trickVars, tcpVars, tcpState
<1>9. CASE ByMain(LeaveGame(s))
  <2>1. loc[s] = "leave" /\ Goto(s, "end") /\ UNCHANGED <<trickVars, tcp>>
    BY <1>9 DEF ByMain, LeaveGame, DecrementPresentPlayers, turn, lewa, round,
       trickVars, tcpVars, tcpState
  <2> QED BY <1>0, <2>1, OrderMove DEF HolderLocs, FreshLocs
<1>10. CASE BySeat(SendEnd(s))
  <2>1. loc[s] = "end" /\ Goto(s, "endwait") /\ UNCHANGED <<trickVars, tcp>>
    BY <1>10 DEF BySeat, SendEnd, gmVars, turn, lewa, round, trickVars,
       tcpVars, tcpState
  <2> QED BY <1>0, <2>1, OrderMove DEF HolderLocs, FreshLocs
<1>11. CASE BySeat(CollectEnd(s))
  <2>1. loc[s] = "endwait" /\ Goto(s, "finished") /\ UNCHANGED <<trickVars, tcp>>
    BY <1>11 DEF BySeat, CollectEnd, gmVars, turn, lewa, round, trickVars,
       tcpVars, tcpState
  <2> QED BY <1>0, <2>1, OrderMove DEF HolderLocs, FreshLocs
<1> QED BY <1>1, <1>2, <1>3, <1>4, <1>5, <1>6, <1>7, <1>8, <1>9, <1>10,
    <1>11 DEF GameStep

(***************************************************************************)
(* There is no more than one card of each seat on the table.               *)
(***************************************************************************)
LEMMA TableSize ==
    ASSUME TypeOK, OneCardEach
    PROVE  Len(curr_lewa) <= NumSeats
<1>1. /\ curr_lewa \in [1 .. Len(curr_lewa) -> Seats] /\ Len(curr_lewa) \in Nat
      /\ DOMAIN curr_lewa = 1 .. Len(curr_lewa)
  BY DEF TypeOK, GMTypeOK, LewaTypeOK
<1>2. curr_lewa \in Injection(1 .. Len(curr_lewa), Seats)
  BY <1>1 DEF OneCardEach, Injection, IsInjective
<1>3. Cardinality(1 .. Len(curr_lewa)) = Len(curr_lewa)
  <2>1. \A n \in Nat : Cardinality(1 .. n) = IF 1 > n THEN 0 ELSE n - 1 + 1
    BY FS_Interval
  <2> QED BY <1>1, <2>1
<1> QED BY <1>2, <1>3, SeatsFinite, FS_Injection

(***************************************************************************)
(* A card is accepted from the leader on an empty table, else from the     *)
(* seat that follows the last card clockwise; never on a full table, nor   *)
(* once the round's tricks are over.                                       *)
(***************************************************************************)
LEMMA CardInTurn ==
    ASSUME IInv, OrderOfPlay, NEW s \in Seats, AcceptCard(s)
    PROVE  /\ Holders = {s} /\ whose_turn = s
           /\ Len(curr_lewa) < NumSeats /\ Len(lewas_played) < NumTricks
           /\ s = (TableLeader + Len(curr_lewa)) % NumSeats
<1>0. /\ curr_lewa \in Seq(Seats) /\ Len(curr_lewa) \in Nat /\ first_player \in Seats
      /\ DOMAIN curr_lewa = 1 .. Len(curr_lewa) /\ NumSeats \in Nat \ {0}
      /\ lewa_id \in Nat /\ lewas_played \in Seq(Seats \cup {NONE_POS}) /\ NumTricks \in Nat
  BY SizesAssumption DEF IInv, TypeOK, GMTypeOK, LewaTypeOK, TurnTypeOK,
     RoundTypeOK
<1>1. /\ tcp[s] = "TRICK" /\ loc[s] = "trick" /\ child_pipe[s] = << >>
      /\ Working(s, "TRICK") /\ ~LewaFull
  BY HandoffInTrick DEF AcceptCard, IInv
<1>2. Holders = {s} /\ whose_turn = s
  BY <1>1, HolderTurn DEF HolderLocs
<1>3. Playing
  BY <1>1, PhaseAt DEF IInv, PlayLocs
<1>4. ~OnTable(s)
  BY <1>1, <1>3 DEF Playing, HasPlayed, Working, Done
<1>5. Len(curr_lewa) < NumSeats
  <2>1. Len(curr_lewa) <= NumSeats
    BY <1>3, TableSize DEF IInv, Playing
  <2>2. Len(curr_lewa) # NumSeats
    BY <1>1 DEF LewaFull
  <2>3. Len(curr_lewa) \in Nat /\ NumSeats \in Nat
    BY <1>0
  <2> QED BY <2>1, <2>2, <2>3
<1>6. Len(lewas_played) < NumTricks
  <2>1. lewa_id = Len(lewas_played) + 1 /\ lewa_id <= NumTricks
    BY <1>1 DEF OrderOfPlay, TrickNumbered, LewaIdReadable
  <2> QED BY <1>0, <2>1
<1>7. CASE curr_lewa = << >>
  <2>1. s = first_player /\ TableLeader = s /\ Len(curr_lewa) = 0
    BY <1>2, <1>7 DEF OrderOfPlay, TurnFollows, TableLeader
  <2>2. s % NumSeats = s
    BY <1>0, RemainderSmall DEF Seats
  <2> QED BY <1>2, <1>5, <1>6, <2>1, <2>2 DEF Seats
<1>8. CASE curr_lewa # << >>
  <2> DEFINE a == curr_lewa[1]
             x == a + Len(curr_lewa) - 1
  <2>1. Len(curr_lewa) \in 1 .. NumSeats - 1 /\ a \in 0 .. NumSeats - 1
    BY <1>0, <1>5, <1>8 DEF Seats
  <2>2. s = FollowingSeat(LastCard)
    BY <1>1, <1>2, <1>4, <1>8 DEF OrderOfPlay, TurnFollows
  <2>3. LastCard = x % NumSeats
    <3>1. Len(curr_lewa) \in DOMAIN curr_lewa
      BY <1>0, <2>1
    <3> QED BY <3>1 DEF OrderOfPlay, Clockwise, LastCard
  <2>4. x \in 0 .. 2 * NumSeats - 2 /\ x + 1 = a + Len(curr_lewa)
    BY <1>0, <2>1
  <2>5. ((x % NumSeats) + 1) % NumSeats = (x + 1) % NumSeats
    BY <1>0, <2>4, RemainderNext
  <2>6. TableLeader = a
    BY <1>8 DEF TableLeader
  <2> QED BY <1>2, <1>5, <1>6, <2>2, <2>3, <2>4, <2>5, <2>6 DEF FollowingSeat
<1> QED BY <1>7, <1>8

(***************************************************************************)
(* Order: the card of the seat whose turn it is goes on the table.         *)
(***************************************************************************)
LEMMA OrderCard ==
    ASSUME IInv, OrderOfPlay, NEW s \in Seats, AcceptCard(s)
    PROVE  OrderOfPlay' /\ TableLeader' = TableLeader
<1>0. /\ curr_lewa \in Seq(Seats) /\ Len(curr_lewa) \in Nat
      /\ DOMAIN curr_lewa = 1 .. Len(curr_lewa) /\ NumSeats \in Nat \ {0}
      /\ tcp \in [Seats -> TcpLocs]
  BY SizesAssumption, SMTT(30) DEF IInv, TypeOK, SeatTypeOK, GMTypeOK, LewaTypeOK
<1>1. /\ curr_lewa' = Append(curr_lewa, s) /\ tcp' = [tcp EXCEPT ![s] = "poll"]
      /\ UNCHANGED <<loc, lewa_id, who_won_lewa, first_player, whose_turn, lewas_played>>
  BY DEF AcceptCard, AddCardToLewa, turn, round, playerVars
<1>2. Holders' = {s} /\ whose_turn' = s /\ s = (TableLeader + Len(curr_lewa)) % NumSeats
  BY <1>1, CardInTurn DEF Holders
<1>3. /\ Len(curr_lewa') = Len(curr_lewa) + 1 /\ curr_lewa'[Len(curr_lewa) + 1] = s
      /\ \A i \in 1 .. Len(curr_lewa) : curr_lewa'[i] = curr_lewa[i]
      /\ DOMAIN curr_lewa' = 1 .. Len(curr_lewa) + 1
  BY <1>0, <1>1
<1>4. curr_lewa'[1] = TableLeader /\ TableLeader' = TableLeader
  <2>1. curr_lewa' # << >> /\ TableLeader' = curr_lewa'[1]
    BY <1>0, <1>3 DEF TableLeader
  <2>2. CASE curr_lewa = << >>
    <3>1. curr_lewa'[1] = s
      BY <1>3, <2>2
    <3>2. TableLeader = first_player /\ whose_turn = first_player /\ whose_turn = s
      BY <1>1, <1>2, <2>2 DEF TableLeader, OrderOfPlay, TurnFollows
    <3> QED BY <2>1, <3>1, <3>2
  <2>3. CASE curr_lewa # << >>
    BY <1>0, <1>3, <2>1, <2>3 DEF TableLeader
  <2> QED BY <2>2, <2>3
<1>5. Clockwise'
  <2> SUFFICES ASSUME NEW i \in 1 .. Len(curr_lewa) + 1
               PROVE  curr_lewa'[i] = (curr_lewa'[1] + i - 1) % NumSeats
    BY <1>3 DEF Clockwise
  <2>1. CASE i = Len(curr_lewa) + 1
    <3>1. TableLeader \in Int
      BY <1>0 DEF TableLeader, Seats, IInv, TypeOK, GMTypeOK, TurnTypeOK
    <3> QED BY <1>0, <1>2, <1>3, <1>4, <2>1, <3>1
  <2>2. CASE i \in 1 .. Len(curr_lewa)
    <3>1. curr_lewa[i] = (curr_lewa[1] + i - 1) % NumSeats
      BY <1>0, <2>2 DEF OrderOfPlay, Clockwise
    <3>2. curr_lewa'[1] = curr_lewa[1] /\ curr_lewa'[i] = curr_lewa[i]
      BY <1>0, <1>3, <2>2
    <3> QED BY <3>1, <3>2
  <2> QED BY <1>0, <2>1, <2>2
<1>6. TurnFollows'
  <2>1. curr_lewa' # << >> /\ LastCard' = s
    BY <1>0, <1>3 DEF LastCard
  <2>2. OnTable(s)'
    BY <1>0, <1>3 DEF OnTable
  <2> QED BY <1>2, <2>1, <2>2 DEF TurnFollows
<1>7. TrickNumbered' /\ \A t \in Seats : loc'[t] = "pass" => ~LewaFull'
  <2>1. \A t \in Seats : tcp'[t] = "TRICK" => tcp[t] = "TRICK"
    BY <1>0, <1>1
  <2>2. \A t \in Seats : loc[t] # "pass"
    <3>1. loc[s] = "trick"
      BY HandoffInTrick DEF AcceptCard, IInv
    <3> QED BY <1>1, <1>2, <3>1 DEF Holders, HolderLocs
  <2> QED BY <1>1, <2>1, <2>2 DEF OrderOfPlay, TrickNumbered, LewaIdReadable
<1> QED BY <1>4, <1>5, <1>6, <1>7 DEF OrderOfPlay

(***************************************************************************)
(* Order: of the TCP threads' other steps only a request for a card, made  *)
(* in a trick whose id can be read, matters.                               *)
(***************************************************************************)
LEMMA OrderSocket ==
    ASSUME IInv, OrderOfPlay, NEW s \in Seats,
           TcpStep(s) \/ SignalStep(s) \/ FailureStep(s)
    PROVE  OrderOfPlay'
<1>1. CASE BySeat(AcceptCard(s))
  BY <1>1, OrderCard DEF BySeat
<1>2. CASE ~BySeat(AcceptCard(s))
  <2>1. UNCHANGED <<trickVars, loc>>
    BY <1>2 DEF TcpStep, SignalStep, FailureStep, BySeat, HandleDeal,
       AskForCard, CardOverflows, HandleTaken, TakenThrows, HandleScore, HandleTotal,
       HandleEnd, Resync, SignalEnded, LoseClientInPoll, LoseClientInTrick,
       ResetInTrick, WrongAborts, BrokenPipe, playerVars, gmVars, turn, lewa,
       round, trickVars
  <2>2. \A t \in Seats : tcp'[t] = "TRICK" => tcp[t] = "TRICK" \/ LewaIdReadable
    <3>1. tcp \in [Seats -> TcpLocs]
      BY DEF IInv, TypeOK, SeatTypeOK
    <3> QED BY <1>2, <3>1 DEF TcpStep, SignalStep, FailureStep, BySeat,
        HandleDeal, AskForCard, CardOverflows, HandleTaken, TakenThrows, HandleScore,
        HandleTotal, HandleEnd, Resync, SignalEnded, LoseClientInPoll,
        LoseClientInTrick, ResetInTrick, WrongAborts, BrokenPipe, Served,
        WriteFails, EndThread, tcpVars, tcpState
  <2> QED BY <2>1, <2>2, OrderStill
<1> QED BY <1>1, <1>2

(***************************************************************************)
(* Order: a barrier leads from joining to dealing before trick 1, and      *)
(* nowhere else into a round that has just opened.                         *)
(***************************************************************************)
LEMMA OrderBarrier ==
    ASSUME OrderOfPlay, BarrierStep
    PROVE  OrderOfPlay'
<1>1. BarrierTrips
  BY DEF BarrierStep, BySeat
<1>2. \A t \in Seats : loc[t] \in BarrierLocs /\ loc'[t] = AfterBarrier(loc[t])
  BY <1>1 DEF BarrierTrips
<1>3. \A l \in BarrierLocs :
        /\ l \notin HolderLocs /\ AfterBarrier(l) \notin HolderLocs
        /\ AfterBarrier(l) \in FreshLocs => l \in FreshLocs
  BY DEF BarrierLocs, HolderLocs, FreshLocs, AfterBarrier
<1>4. UNCHANGED <<trickVars, tcp>>
  BY <1>1 DEF BarrierTrips, gmVars, turn, lewa, round, trickVars, tcpVars,
     tcpState
<1>5. \A t \in Seats : loc'[t] # "pass"
  BY <1>2, <1>3 DEF HolderLocs
<1> QED BY <1>2, <1>3, <1>4, <1>5, OrderStill

(***************************************************************************)
(* Order: the main thread starts player threads where no trick is played.  *)
(***************************************************************************)
LEMMA OrderMain ==
    ASSUME IInv, OrderOfPlay, MainStep
    PROVE  OrderOfPlay'
<1>1. UNCHANGED trickVars
  BY DEF MainStep, ByMain, CheckIfPositionTaken, SendBusy, AdmitNew,
     AdmitReplacement, AddNewPlayer, Spawn, Exit, gmVars, turn, lewa, round,
     trickVars
<1>2. CASE ByMain(Spawn)
  <2>1. PICK p \in Seats : p = request /\ loc[p] = "none"
    BY <1>2 DEF ByMain, Spawn, IInv, Admission
  <2>2. loc' = [loc EXCEPT ![p] = "start"] /\ tcp' = [tcp EXCEPT ![p] = "poll"]
    BY <1>2, <2>1 DEF ByMain, Spawn, Goto
  <2> QED BY <1>1, <2>1, <2>2, OrderStill DEF IInv, TypeOK, SeatTypeOK,
      HolderLocs, FreshLocs
<1>3. CASE ~ByMain(Spawn)
  <2>1. UNCHANGED <<loc, tcp>>
    BY <1>3 DEF MainStep, ByMain, CheckIfPositionTaken, SendBusy, AdmitNew,
       AdmitReplacement, Exit, playerVars, tcpVars, tcpState
  <2> QED BY <1>1, <2>1, OrderStill
<1> QED BY <1>2, <1>3

(***************************************************************************)
(* Order: a client asks for a seat, or nothing changes.                    *)
(***************************************************************************)
LEMMA OrderQuiet ==
    ASSUME OrderOfPlay, UNCHANGED <<gmVars, playerVars, tcpVars>>
    PROVE  OrderOfPlay'
  BY OrderStill DEF gmVars, turn, lewa, round, trickVars, playerVars, tcpVars,
     tcpState

(***************************************************************************)
(* Order: the initial state; the table is empty and the starter's turn.    *)
(***************************************************************************)
LEMMA OrderInit == Init => OrderOfPlay
  BY SizesAssumption DEF Init, GMInit, SeatInit, OrderOfPlay, TrickNumbered,
     Clockwise, TurnFollows, LewaFull

(***************************************************************************)
(* Every step keeps the order of play.                                     *)
(***************************************************************************)
LEMMA OrderInductive ==
    ASSUME IInv, OrderOfPlay, [Next]_vars
    PROVE  OrderOfPlay'
<1>1. ASSUME NEW s \in Seats, SeatStep(s) PROVE OrderOfPlay'
  BY <1>1, OrderTalk, OrderGame, OrderSocket DEF SeatStep, IInv
<1>2. ASSUME NEW s \in Seats, JoinStep(s) PROVE OrderOfPlay'
  BY <1>2, OrderQuiet DEF JoinStep, ByMain, JoinRequest
<1>3. CASE UNCHANGED vars
  BY <1>3, OrderQuiet DEF vars
<1> QED BY <1>1, <1>2, <1>3, OrderBarrier, OrderMain DEF Next, Stopped

-----------------------------------------------------------------------------
(* The refinement.                                                         *)

(***************************************************************************)
(* The trick is put aside by the taker's side of the table: a Take.        *)
(***************************************************************************)
LEMMA ClearTakes ==
    ASSUME IInv, OrderOfPlay, NEW s \in Seats, ClearTable(s), LewaFull
    PROVE  who_won_lewa \in Seats /\ Table!Take(who_won_lewa)
<1>1. loc[s] = "newlewa" /\ UNCHANGED <<first_player, round_number>>
      /\ lewas_played' = Append(lewas_played, who_won_lewa) /\ curr_lewa' = << >>
  BY DEF ClearTable, Step, PrepareNewLewa, turn
<1>2. Holders = {}
  BY <1>1, PhaseAt DEF IInv, Clearing, AllIn, Holders, HolderLocs
<1>3. first_player = who_won_lewa /\ first_player \in Seats
  BY <1>2 DEF OrderOfPlay, TurnFollows, IInv, TypeOK, GMTypeOK, TurnTypeOK
<1>4. TableLeader' = who_won_lewa
  BY <1>1, <1>3 DEF TableLeader
<1> QED BY <1>1, <1>3, <1>4 DEF Table!Take, LewaFull

(***************************************************************************)
(* The next round opens on an empty table, after at least one trick, with  *)
(* its starter: an OpenRound.                                              *)
(***************************************************************************)
LEMMA StartOpens ==
    ASSUME IInv, OrderOfPlay, NEW s \in Seats, StartRound(s), lewa_id > 1
    PROVE  Table!OpenRound
<1>1. /\ loc[s] = "newround" /\ ~LastRound
      /\ round_number' = round_number + 1 /\ first_player' = Starter[round_number + 1]
      /\ curr_lewa' = << >> /\ lewas_played' = << >>
  BY DEF StartRound, Step, PrepareNewRound, NewRoundDefined
<1>2. curr_lewa = << >>
  BY <1>1, PhaseAt DEF IInv, Opening
<1>3. lewas_played # << >>
  <2>1. lewa_id = Len(lewas_played) + 1
    BY DEF OrderOfPlay, TrickNumbered
  <2> QED BY <2>1
<1>4. round_number < NumRounds
  BY <1>1, SizesAssumption DEF LastRound, Rounds, IInv, TypeOK, GMTypeOK,
     RoundTypeOK
<1>5. TableLeader' = Starter[round_number + 1]
  BY <1>1 DEF TableLeader
<1> QED BY <1>1, <1>2, <1>3, <1>4, <1>5 DEF Table!OpenRound

(***************************************************************************)
(* Every step of the server is a step of the game at the table or leaves   *)
(* the table as it is.                                                     *)
(***************************************************************************)
LEMMA TableStep ==
    ASSUME IInv, OrderOfPlay, [Next]_vars
    PROVE  [Table!Next]_Table!vars
<1> DEFINE Same == UNCHANGED <<curr_lewa, lewas_played, round_number>> /\ UNCHANGED TableLeader
<1>0. ASSUME Same PROVE UNCHANGED Table!vars
  BY <1>0 DEF Table!vars
<1>1. ASSUME UNCHANGED <<turn, lewa, round>> PROVE UNCHANGED Table!vars
  <2>1. Same
    BY <1>1 DEF turn, lewa, round, TableLeader
  <2> QED BY <1>0, <2>1
<1>2. ASSUME NEW s \in Seats, AcceptCard(s) PROVE Table!Next
  <2>1. Len(curr_lewa) < NumSeats /\ Len(lewas_played) < NumTricks
        /\ s = (TableLeader + Len(curr_lewa)) % NumSeats
    BY <1>2, CardInTurn
  <2>2. UNCHANGED TableLeader /\ curr_lewa' = Append(curr_lewa, s)
        /\ UNCHANGED <<lewas_played, round_number>>
    BY <1>2, OrderCard DEF AcceptCard, AddCardToLewa, round
  <2>3. Table!Play(s) /\ s \in Table!Players
    BY <2>1, <2>2 DEF Table!Play, Table!Players, Seats
  <2> QED BY <2>3 DEF Table!Next
<1>3. ASSUME NEW s \in Seats, GiveLead(s) PROVE UNCHANGED Table!vars
  <2>1. loc[s] = "lead" /\ UNCHANGED <<curr_lewa, lewas_played, round_number>>
    BY <1>3 DEF GiveLead, Step, SetFirstPlayerForNextTurn, lewa, round
  <2>2. LewaFull
    BY <2>1, PhaseAt DEF IInv, PlayLocs, Playing
  <2>3. curr_lewa # << >>
    BY <2>2, SizesAssumption DEF LewaFull
  <2>4. Same
    BY <2>1, <2>3 DEF TableLeader
  <2> QED BY <1>0, <2>4
<1>4. ASSUME NEW s \in Seats, ClearTable(s) PROVE Table!Next \/ UNCHANGED Table!vars
  <2>1. CASE LewaFull
    <3>1. who_won_lewa \in Table!Players /\ Table!Take(who_won_lewa)
      BY <1>4, <2>1, ClearTakes DEF Table!Players, Seats
    <3> QED BY <3>1 DEF Table!Next
  <2>2. CASE ~LewaFull
    <3>1. Same
      BY <1>4, <2>2 DEF ClearTable, PrepareNewLewa, turn, TableLeader
    <3> QED BY <1>0, <3>1
  <2> QED BY <2>1, <2>2
<1>5. ASSUME NEW s \in Seats, StartRound(s) PROVE Table!Next \/ UNCHANGED Table!vars
  <2>1. CASE lewa_id > 1
    BY <1>5, <2>1, StartOpens DEF Table!Next
  <2>2. CASE ~(lewa_id > 1)
    <3>1. Same
      BY <1>5, <2>2 DEF StartRound, PrepareNewRound, turn, lewa, TableLeader
    <3> QED BY <1>0, <3>1
  <2> QED BY <2>1, <2>2
<1>6. ASSUME NEW s \in Seats, \/ TakeTurn(s) \/ DecideTaker(s) \/ CountCards(s) \/ PassTurn(s)
      PROVE  UNCHANGED Table!vars
  <2>1. Same
    BY <1>6 DEF TakeTurn, DecideTaker, CountCards, PassTurn, WaitForTurn,
       CheckWhoWonLewa, CountCardsPlayed, NextPlayerTurn, turn, lewa, round,
       TableLeader
  <2> QED BY <1>0, <2>1
<1>7. ASSUME NEW s \in Seats, GameStep(s) PROVE Table!Next \/ UNCHANGED Table!vars
  <2>1. CASE BySeat(CheckFull(s)) \/ BySeat(CheckRound(s)) \/ BySeat(CheckLastRound(s))
             \/ BySeat(MonitorThrows(s)) \/ ByMain(LeaveGame(s)) \/ BySeat(SendEnd(s))
             \/ BySeat(CollectEnd(s))
    BY <1>1, <2>1 DEF BySeat, ByMain, CheckFull, CheckRound, CheckLastRound,
       MonitorThrows, LeaveGame, DecrementPresentPlayers, SendEnd, CollectEnd,
       gmVars
  <2> QED BY <1>3, <1>4, <1>5, <1>6, <1>7, <2>1 DEF GameStep, BySeat
<1>8. ASSUME NEW s \in Seats, SeatStep(s) PROVE Table!Next \/ UNCHANGED Table!vars
  <2>1. CASE BySeat(AcceptCard(s))
    BY <1>2, <2>1 DEF BySeat
  <2>2. CASE ~BySeat(AcceptCard(s)) /\ (TcpStep(s) \/ SignalStep(s) \/ FailureStep(s))
    BY <1>1, <2>2 DEF TcpStep, SignalStep, FailureStep, BySeat, HandleDeal,
       AskForCard, CardOverflows, HandleTaken, TakenThrows, HandleScore, HandleTotal,
       HandleEnd, Resync, SignalEnded, LoseClientInPoll, LoseClientInTrick,
       ResetInTrick, WrongAborts, BrokenPipe, gmVars
  <2>3. CASE TalkStep(s)
    BY <1>1, <2>3 DEF TalkStep, BySeat, SendCommand, CollectServed,
       CollectEnded, Recover, SetPlayerLeft, Replace, AcquireDisconnectedSem,
       ResendCommand, gmVars
  <2> QED BY <1>7, <1>8, <2>1, <2>2, <2>3 DEF SeatStep
<1>9. ASSUME BarrierStep \/ MainStep \/ \E s \in Seats : JoinStep(s)
      PROVE  UNCHANGED Table!vars
  BY <1>1, <1>9 DEF BarrierStep, MainStep, JoinStep, BySeat, ByMain,
     BarrierTrips, CheckIfPositionTaken, SendBusy, AdmitNew, AdmitReplacement,
     AddNewPlayer, Spawn, Exit, JoinRequest, gmVars
<1>10. CASE UNCHANGED vars
  BY <1>1, <1>10 DEF vars, gmVars
<1> HIDE DEF Same
<1> QED BY <1>8, <1>9, <1>10 DEF Next, Stopped

(***************************************************************************)
(* The order of play is an invariant of the server.                        *)
(***************************************************************************)
THEOREM OrderKept ==
    ASSUME Failures \subseteq RecoverableKinds
    PROVE  Spec => []OrderOfPlay
<1>1. Init => IInv /\ OrderOfPlay
  BY Initial, OrderInit
<1>2. IInv /\ OrderOfPlay /\ [Next]_vars => IInv' /\ OrderOfPlay'
  BY Inductive, OrderInductive
<1> QED BY <1>1, <1>2, PTL DEF Spec

(***************************************************************************)
(* Under all its threads the server plays one game at a table (TableSpec): *)
(* the leader leads, the others follow clockwise with one card each, the   *)
(* taker leads next, and each round opens with the seat the game file      *)
(* names, whoever disconnects and is replaced.                             *)
(***************************************************************************)
THEOREM OneGameAtTheTable ==
    ASSUME Failures \subseteq RecoverableKinds
    PROVE  Spec => TableSpec
<1>1. Init => Table!Init
  BY DEF Init, GMInit, Table!Init, TableLeader
<1>2. IInv /\ OrderOfPlay /\ [Next]_vars => [Table!Next]_Table!vars
  BY TableStep
<1> QED BY <1>1, <1>2, Invariance, OrderKept, PTL DEF Spec, TableSpec,
    Table!Spec
=============================================================================
