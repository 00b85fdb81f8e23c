------------------------ MODULE TrickExchangeProofs ------------------------
(***************************************************************************)
(* For every number of tricks, every hand and whatever is late, lost or    *)
(* sent unasked: the conversation of TrickExchange plays the game of       *)
(* SeatGame, the client counts the tricks as the server does and its copy  *)
(* of the hand gets every mark; and until somebody is late or speaks       *)
(* unasked, the two copies agree and no client is cut off.  All of this is *)
(* up to HandedOff, where TrickExchange follows the seat no further.       *)
(***************************************************************************)
EXTENDS TrickExchangeInv, CardsProofs, FiniteSetTheorems

-----------------------------------------------------------------------------
(***************************************************************************)
(* What a card added to a sequence does to its length and its elements.    *)
(***************************************************************************)
LEMMA AppendCard ==
    ASSUME NEW S, NEW seq \in Seq(S), NEW e \in S
    PROVE  /\ Append(seq, e) \in Seq(S)
           /\ Len(Append(seq, e)) = Len(seq) + 1
           /\ {Append(seq, e)[i] : i \in DOMAIN Append(seq, e)} =
                    {seq[i] : i \in DOMAIN seq} \cup {e}
PROOF
<1> DEFINE longer == Append(seq, e)
<1>1. /\ longer \in Seq(S)
      /\ Len(longer) = Len(seq) + 1
      /\ DOMAIN longer = 1 .. Len(seq) + 1
      /\ DOMAIN seq = 1 .. Len(seq)
      /\ Len(seq) \in Nat
      /\ \A i \in 1 .. Len(seq) : longer[i] = seq[i]
      /\ longer[Len(seq) + 1] = e
  OBVIOUS
<1>2. ASSUME NEW x
      PROVE  (x \in {longer[i] : i \in DOMAIN longer})
                <=> (x \in {seq[i] : i \in DOMAIN seq} \cup {e})
  <2> HIDE DEF longer
  <2>1. 1 .. Len(seq) + 1 = (1 .. Len(seq)) \cup {Len(seq) + 1}
    BY <1>1
  <2>2. QED
    BY <1>1, <2>1
<1>3. QED
  BY <1>1, <1>2

(***************************************************************************)
(* A card is two numbers: its suit's letter and its value.                 *)
(***************************************************************************)
LEMMA CardsAreNumbers == Card \subseteq [suit : Nat, value : Nat]
  BY ExchangeAssumption DEF Card

(***************************************************************************)
(* The hands of the game file are sets of cards.                           *)
(***************************************************************************)
LEMMA HandsAreCards == ASSUME NEW r \in DOMAIN Hands PROVE Hands[r] \subseteq Card
PROOF
<1>1. Hands \in Seq(SUBSET Card)
  BY ExchangeAssumption DEF Card
<1>2. QED
  BY <1>1

-----------------------------------------------------------------------------
(***************************************************************************)
(* What the server writes, and what is left when the client has read.      *)
(***************************************************************************)
LEMMA MessageTypes ==
    ASSUME NEW id \in Nat, NEW suit \in Led, NEW cards \in SUBSET Card, NEW card \in Card
    PROVE  /\ Deal(cards) \in Msg /\ Trick(id, suit) \in Msg
           /\ Taken(id, card) \in Msg /\ Wrong(id) \in Msg
           /\ Plain("SCORE") \in Msg /\ Plain("TOTAL") \in Msg
PROOF
<1>1. NONE_SUIT \in Led
  BY DEF Led
<1>2. QED
  BY <1>1 DEF Deal, Trick, Taken, Wrong, Plain, Message, Msg, MsgNames

(***************************************************************************)
(* What is left of the messages when the first has been read.              *)
(***************************************************************************)
LEMMA TailOfSeq ==
    ASSUME NEW S, NEW q \in Seq(S), q # << >>
    PROVE  /\ Tail(q) \in Seq(S) /\ Head(q) \in S
           /\ Len(q) \in Nat /\ Len(q) > 0 /\ Len(Tail(q)) = Len(q) - 1
           /\ Head(q) = q[1]
           /\ \A k \in 1 .. Len(q) - 1 : Tail(q)[k] = q[k + 1]
PROOF
  OBVIOUS

(***************************************************************************)
(* Nothing is left of a single message.                                    *)
(***************************************************************************)
LEMMA TailOfOne ==
    ASSUME NEW S, NEW q \in Seq(S), Len(q) = 1
    PROVE  Tail(q) = << >>
PROOF
<1>1. q # << >>
  OBVIOUS
<1>2. Tail(q) \in Seq(S) /\ Len(Tail(q)) = 0
  BY <1>1, TailOfSeq
<1>3. \A t \in Seq(S) : Len(t) = 0 => t = << >>
  OBVIOUS
<1>4. QED
  BY <1>2, <1>3

(***************************************************************************)
(* A DEAL and the TAKENs of the finished tricks, as the resend writes them.*)
(***************************************************************************)
Resent == <<Deal(hand)>> \o [i \in 1 .. curr_lewa_nbr - 1 |-> Taken(i, laid[i])]

(***************************************************************************)
(* Message by message, these are the deal and the tricks so far.           *)
(***************************************************************************)
LEMMA ResentMessages ==
    ASSUME SeatInv, tcp = "resend"
    PROVE  /\ Resent \in Seq(Msg)
           /\ Len(Resent) = curr_lewa_nbr
           /\ Resent[1] = Deal(hand)
           /\ \A k \in 2 .. curr_lewa_nbr : Resent[k] = Taken(k - 1, laid[k - 1])
           /\ curr_lewa_nbr \in Nat \ {0}
           /\ \A i \in 1 .. curr_lewa_nbr - 1 : laid[i] \in Card
PROOF
<1> DEFINE takens == [i \in 1 .. curr_lewa_nbr - 1 |-> Taken(i, laid[i])]
<1>1. /\ curr_lewa_nbr \in Nat \ {0} /\ laid \in Seq(Card) /\ hand \in SUBSET Card
  BY ExchangeAssumption DEF SeatInv, TypeOK
<1>2. Len(laid) \in {curr_lewa_nbr - 1, curr_lewa_nbr}
  <2>1. command \in Commands
    BY DEF SeatInv, Asking
  <2>2. CASE command = "DEAL"
    BY <2>2 DEF SeatInv, InStep
  <2>3. CASE command # "DEAL"
    BY <2>1, <2>3 DEF SeatInv, InStep, Commands
  <2>4. QED
    BY <2>2, <2>3
<1>3. \A i \in 1 .. curr_lewa_nbr - 1 : laid[i] \in Card
  BY <1>1, <1>2
<1>4. \A i \in 1 .. curr_lewa_nbr - 1 : Taken(i, laid[i]) \in Msg
  <2>1. NONE_SUIT \in Led
    BY DEF Led
  <2>2. QED
    BY <1>3, <2>1, MessageTypes
<1>5. takens \in Seq(Msg) /\ Len(takens) = curr_lewa_nbr - 1
  BY <1>1, <1>4
<1>6. <<Deal(hand)>> \in Seq(Msg)
  <2>1. Deal(hand) \in Msg
    BY <1>1 DEF Deal, Message, Msg, MsgNames, Led
  <2>2. QED
    BY <2>1
<1>7. /\ Resent \in Seq(Msg)
      /\ Len(Resent) = curr_lewa_nbr
      /\ Resent[1] = Deal(hand)
      /\ \A k \in 2 .. curr_lewa_nbr : Resent[k] = takens[k - 1]
  <2> HIDE DEF takens
  <2>1. Resent = <<Deal(hand)>> \o takens
    BY DEF Resent, takens
  <2>2. QED
    BY <1>1, <1>5, <1>6, <2>1
<1>8. \A k \in 2 .. curr_lewa_nbr : takens[k - 1] = Taken(k - 1, laid[k - 1])
  BY <1>1
<1>9. QED
  BY <1>1, <1>3, <1>7, <1>8

-----------------------------------------------------------------------------
(***************************************************************************)
(* A conversation that begins is in step.                                  *)
(***************************************************************************)
LEMMA Initially == Init => SeatInv
PROOF
<1> SUFFICES ASSUME Init PROVE SeatInv
  OBVIOUS
<1>1. 1 \in DOMAIN Hands /\ Hands[1] \subseteq Card
  <2>1. 1 \in DOMAIN Hands
    BY ExchangeAssumption
  <2>2. QED
    BY <2>1, HandsAreCards
<1>2. << >> \in Seq(Card) /\ << >> \in Seq(Msg)
  OBVIOUS
<1>3. TypeOK
  <2>1. /\ 0 \in 0 .. MaxLate /\ 0 \in 0 .. MaxJunk /\ 0 \in 0 .. MaxLost
        /\ 1 \in 1 .. NumTricks + 1
    BY ExchangeAssumption
  <2>2. QED
    BY <1>1, <1>2, <2>1 DEF Init, TypeOK, Commands
<1>4. QED
  BY <1>1, <1>2, <1>3 DEF Init, SeatInv, InStep, MarksAreLaid, HandDealt, Asking

(***************************************************************************)
(* A step of any kind keeps the types and writes only messages the client  *)
(* knows.                                                                  *)
(***************************************************************************)
LEMMA TypeKept ==
    ASSUME SeatInv, [Next]_vars
    PROVE  TypeOK' /\ to_client' \in Seq(Msg)
PROOF
<1>1. /\ TypeOK /\ to_client \in Seq(Msg)
      /\ curr_lewa_nbr \in Nat /\ curr_lewa_nbr \in 1 .. NumTricks + 1
      /\ led \in Led /\ NumTricks \in Nat
  BY ExchangeAssumption DEF SeatInv, TypeOK
<1>2. CASE SendCommand
  BY <1>1, <1>2 DEF SendCommand, TypeOK, player, conn, clientVars, trouble
<1>3. CASE PrepareNewLewa
  <2>1. curr_lewa_nbr' \in 1 .. NumTricks + 1
    BY <1>1, <1>3 DEF PrepareNewLewa, SeatInv, InStep
  <2>2. command' \in {"TRICK", "SCORE"}
    BY <1>3 DEF PrepareNewLewa
  <2>3. QED
    BY <1>1, <1>3, <2>1, <2>2
    DEF PrepareNewLewa, TypeOK, Commands, player, conn, clientVars, trouble
<1>4. CASE PrepareNewRound
  <2>1. CASE curr_lewa_nbr <= NumTricks
    <3>1. round_number' \in DOMAIN Hands
      BY <1>1, <1>4, <2>1, ExchangeAssumption DEF PrepareNewRound, TypeOK
    <3>2. curr_lewa_nbr' \in 1 .. NumTricks + 1 /\ laid' \in Seq(Card) /\ command' = "DEAL"
      BY <1>1, <1>4, <2>1 DEF PrepareNewRound
    <3>3. QED
      BY <1>1, <1>4, <2>1, <3>1, <3>2
      DEF PrepareNewRound, TypeOK, Commands, player, conn, clientVars, trouble
  <2>2. CASE ~(curr_lewa_nbr <= NumTricks)
    BY <1>1, <1>4, <2>2 DEF PrepareNewRound, TypeOK, player, clientVars, trouble
  <2>3. QED
    BY <2>1, <2>2
<1>5. CASE LastRoundOver \/ Collect \/ EndUnserved
  BY <1>1, <1>5 DEF LastRoundOver, Collect, EndUnserved, TypeOK, Commands, game, player, conn, clientVars, trouble
<1>6. CASE HandleDeal
  <2>1. Hands[round_number] \in SUBSET Card
    BY <1>1, HandsAreCards DEF TypeOK
  <2>2. Deal(Hands[round_number]) \in Msg
    BY <2>1 DEF Deal, Message, Msg, MsgNames, Led
  <2>3. to_client' \in Seq(Msg)
    BY <1>1, <1>6, <2>2 DEF HandleDeal, Tell
  <2>4. QED
    BY <1>1, <1>6, <2>1, <2>3
    DEF HandleDeal, Tell, Served, TypeOK, Commands, game, clientVars, trouble
<1>7. CASE HandleTaken
  <2>1. command = "TAKEN"
    BY <1>7 DEF HandleTaken, Tell, Told
  <2>2. laid[curr_lewa_nbr] \in Card
    BY <1>1, <2>1 DEF SeatInv, InStep, TypeOK
  <2>3. Taken(curr_lewa_nbr, laid[curr_lewa_nbr]) \in Msg
    BY <1>1, <2>2 DEF Taken, Message, Msg, MsgNames, Led
  <2>4. to_client' \in Seq(Msg)
    BY <1>1, <1>7, <2>3 DEF HandleTaken, Tell
  <2>5. QED
    BY <1>1, <1>7, <2>4 DEF HandleTaken, Tell, Served, TypeOK, game, player, clientVars, trouble
<1>8. CASE HandleScore \/ HandleTotal
  <2>1. Plain("SCORE") \in Msg /\ Plain("TOTAL") \in Msg
    BY DEF Plain, Message, Msg, MsgNames, Led
  <2>2. to_client' \in Seq(Msg)
    BY <1>1, <1>8, <2>1 DEF HandleScore, HandleTotal, Tell
  <2>3. QED
    BY <1>1, <1>8, <2>2
    DEF HandleScore, HandleTotal, Tell, Served, TypeOK, Commands, game, player, clientVars, trouble
<1>9. CASE HandleEnd
  BY <1>1, <1>9 DEF HandleEnd, TypeOK, game, player, clientVars, trouble
<1>10. CASE AskForCard \/ TimeoutInTrick
  <2>1. Ask \in Msg
    BY <1>1 DEF Ask, Trick, Message, Msg, MsgNames
  <2>2. to_client' \in Seq(Msg)
    BY <1>1, <1>10, <2>1 DEF AskForCard, TimeoutInTrick
  <2>3. late' \in 0 .. MaxLate
    BY <1>1, <1>10, ExchangeAssumption
    DEF AskForCard, TimeoutInTrick, TimeOutCounted, TypeOK, trouble
  <2>4. QED
    BY <1>1, <1>10, <2>2, <2>3 DEF AskForCard, TimeoutInTrick, SocketReadable, TypeOK,
       thread, game, player, conn, clientVars, trouble
<1>11. CASE AcceptCard
  <2>1. PICK card \in Head(to_server).cards :
            /\ laid' = Append(laid, card)
            /\ was_card_played' = was_card_played \cup {card}
    BY <1>11 DEF AcceptCard
  <2>2. card \in Card
    BY <1>1, <1>11, <2>1 DEF AcceptCard, Acceptable, CardCorrect, TypeOK
  <2>3. laid' \in Seq(Card) /\ was_card_played' \in SUBSET Card
    BY <1>1, <2>1, <2>2 DEF TypeOK
  <2>4. QED
    BY <1>1, <1>11, <2>3 DEF AcceptCard, Served, TypeOK, Commands, clientVars, trouble
<1>12. CASE RefuseCard
  <2>1. Ask \in Msg /\ Wrong(curr_lewa_nbr) \in Msg
    BY <1>1 DEF Ask, Wrong, Trick, Message, Msg, MsgNames, Led
  <2>2. to_client' \in Seq(Msg)
    BY <1>1, <1>12, <2>1 DEF RefuseCard
  <2>3. QED
    BY <1>1, <1>12, <2>2
    DEF RefuseCard, TypeOK, thread, game, player, conn, clientVars, trouble
<1>13. CASE AnswerUnasked
  <2>1. Wrong(curr_lewa_nbr) \in Msg
    BY <1>1 DEF Wrong, Message, Msg, MsgNames, Led
  <2>2. to_client' \in Seq(Msg)
    BY <1>1, <1>13, <2>1 DEF AnswerUnasked
  <2>3. QED
    BY <1>1, <1>13, <2>2 DEF AnswerUnasked, TypeOK, game, player, clientVars, trouble
<1>14. CASE RejectMessage \/ NoticeLoss
  BY <1>1, <1>14 DEF RejectMessage, NoticeLoss, Disconnect, TypeOK,
     thread, game, player, clientVars, trouble
<1>15. CASE UnaskedTimesOut
  <2>1. late' \in 0 .. MaxLate
    BY <1>1, <1>15, ExchangeAssumption DEF UnaskedTimesOut, TimeOutCounted, TypeOK
  <2>2. QED
    BY <1>1, <1>15, <2>1
    DEF UnaskedTimesOut, Disconnect, TypeOK, thread, game, player, clientVars
<1>16. CASE PollSocket
  BY <1>1, <1>16 DEF PollSocket, TypeOK, thread, game, player, clientVars, trouble
<1>17. CASE Resend
  <2>1. to_client' \in Seq(Msg)
    BY <1>17, ResentMessages DEF Resend, Resent
  <2>2. QED
    BY <1>1, <1>17, <2>1 DEF Resend, TypeOK, thread, game, player, clientVars, trouble
<1>18. ASSUME NEW name, Read(name), my_hand' \in SUBSET Card, my_played' \in SUBSET Card,
              curr_lewa_id' \in Nat, got' \in SUBSET {"SCORE", "TOTAL"},
              client' \in {"playing", "failed"}
       PROVE  TypeOK' /\ to_client' \in Seq(Msg)
  <2>1. to_client' \in Seq(Msg)
    BY <1>1, <1>18, TailOfSeq DEF Read, Received
  <2>2. QED
    BY <1>1, <1>18, <2>1 DEF Read, TypeOK, thread, game, player, conn, trouble
<1>19. ASSUME NEW name, Read(name) PROVE Head(to_client) \in Msg /\ client = "playing"
  BY <1>1, <1>19, TailOfSeq DEF Read, Received
<1>20. CASE ReadDeal
  <2>1. Head(to_client).cards \in SUBSET Card
    BY <1>19, <1>20 DEF ReadDeal, Msg
  <2>2. QED
    BY <1>18, <1>19, <1>20, <2>1 DEF ReadDeal
<1>21. CASE ReadTrick
  <2>1. MyLeft # {} => AutoCard(MyLeft, Head(to_client).led) \in Card
    <3>1. MyLeft \subseteq Card
      BY <1>1 DEF MyLeft, TypeOK
    <3>2. QED
      BY <3>1, CardsAreNumbers, AutoCardCorrect
  <2>2. my_played' \in SUBSET Card
    BY <1>1, <1>21, <2>1 DEF ReadTrick, TypeOK
  <2>3. QED
    BY <1>1, <1>18, <1>19, <1>21, <2>2 DEF ReadTrick, TypeOK
<1>22. CASE ReadTaken
  <2>1. Head(to_client).cards \in SUBSET Card
    BY <1>19, <1>22 DEF ReadTaken, Msg
  <2>2. QED
    BY <1>1, <1>18, <1>19, <1>22, <2>1, SMTT(30) DEF ReadTaken, TypeOK
<1>23. CASE ReadWrong
  BY <1>1, <1>18, <1>19, <1>23 DEF ReadWrong, TypeOK
<1>24. CASE ReadPoints
  <2>1. PICK name \in {"SCORE", "TOTAL"} : Read(name)
    BY <1>24 DEF ReadPoints
  <2>2. Head(to_client).name = name
    BY <2>1 DEF Read, Received
  <2>3. QED
    BY <1>1, <1>18, <1>19, <1>24, <2>1, <2>2 DEF ReadPoints, TypeOK
<1>25. CASE ReadEnd
  BY <1>1, <1>25 DEF ReadEnd, TypeOK, thread, game, player, conn, trouble
<1>26. CASE Replace
  <2>1. to_client' \in Seq(Msg)
    BY <1>26 DEF Replace
  <2>2. /\ my_hand' \in SUBSET Card /\ my_played' \in SUBSET Card
        /\ curr_lewa_id' \in Nat /\ got' \in SUBSET {"SCORE", "TOTAL"}
    BY <1>26 DEF Replace
  <2>3. QED
    BY <1>1, <1>26, <2>1, <2>2 DEF Replace, TypeOK, thread, game, player, trouble
<1>27. CASE SendJunk
  <2>1. junk' \in 0 .. MaxJunk
    BY <1>1, <1>27, ExchangeAssumption, SMTT(30) DEF SendJunk, TypeOK
  <2>2. QED
    BY <1>1, <1>27, <2>1 DEF SendJunk, TypeOK, thread, game, player, conn, clientVars
<1>28. CASE CloseClient
  <2>1. lost' \in 0 .. MaxLost
    BY <1>1, <1>28, ExchangeAssumption DEF CloseClient, TypeOK
  <2>2. QED
    BY <1>1, <1>28, <2>1 DEF CloseClient, TypeOK, thread, game, player, conn
<1>29. CASE Stopped \/ UNCHANGED vars
  BY <1>1, <1>29
  DEF Stopped, vars, TypeOK, thread, game, player, conn, clientVars, trouble
<1>30. QED
  BY <1>2, <1>3, <1>4, <1>5, <1>6, <1>7, <1>8, <1>9, <1>10, <1>11, <1>12, <1>13, <1>14, <1>15,
     <1>16, <1>17, <1>20, <1>21, <1>22, <1>23, <1>24, <1>25, <1>26, <1>27, <1>28, <1>29
  DEF Next, PlayerThread, TCPThread, TimeoutFires, Client

(***************************************************************************)
(* Most steps touch neither the game nor the command, and do not make the  *)
(* TCP thread ask or resend.                                               *)
(***************************************************************************)
Quiet == /\ UNCHANGED <<command, pending, game, player>>
         /\ tcp' = tcp \/ tcp' \notin {"TRICK", "resend"}

(***************************************************************************)
(* They keep the game, the marks and the question asked as they are.       *)
(***************************************************************************)
LEMMA QuietKeeps ==
    ASSUME SeatInv, Quiet
    PROVE  InStep' /\ MarksAreLaid' /\ HandDealt' /\ Asking'
PROOF
  BY DEF Quiet, SeatInv, InStep, MarksAreLaid, HandDealt, Asking, thread, game, player

(***************************************************************************)
(* All other steps are named here.                                         *)
(***************************************************************************)
LEMMA QuietSteps ==
    ASSUME [Next]_vars
    PROVE  \/ Quiet
           \/ SendCommand \/ PrepareNewLewa \/ PrepareNewRound \/ LastRoundOver \/ EndUnserved
           \/ HandleDeal \/ HandleTaken \/ HandleScore \/ HandleTotal \/ HandleEnd
           \/ AskForCard \/ AcceptCard \/ AnswerUnasked \/ Replace
PROOF
<1>2. CASE TimeoutInTrick \/ RefuseCard \/ Collect
  BY <1>2 DEF TimeoutInTrick, RefuseCard, Collect, Quiet, thread, game, player, conn
<1>3. CASE RejectMessage \/ UnaskedTimesOut \/ NoticeLoss
  BY <1>3 DEF RejectMessage, UnaskedTimesOut, NoticeLoss, Disconnect, Quiet, thread, game, player
<1>4. CASE PollSocket \/ Resend
  BY <1>4 DEF PollSocket, Resend, Quiet, thread, game, player
<1>5. CASE Client
  BY <1>5 DEF Client, ReadDeal, ReadTrick, ReadTaken, ReadWrong, ReadPoints, ReadEnd, Read,
         Quiet, thread, game, player, conn
<1>6. CASE SendJunk \/ CloseClient
  BY <1>6 DEF SendJunk, CloseClient, Quiet, thread, game, player, conn
<1>7. CASE Stopped \/ UNCHANGED vars
  BY <1>7 DEF Stopped, vars, Quiet, thread, game, player, conn
<1>8. CASE Next
  <2>1. CASE PlayerThread
    BY <2>1, <1>2 DEF PlayerThread
  <2>2. CASE TCPThread
    BY <2>2, <1>2, <1>3, <1>4 DEF TCPThread
  <2>3. CASE TimeoutFires
    BY <2>3, <1>2, <1>3 DEF TimeoutFires
  <2>4. QED
    BY <1>5, <1>6, <1>7, <1>8, <2>1, <2>2, <2>3 DEF Next
<1>9. QED
  BY <1>7, <1>8

(***************************************************************************)
(* The seat keeps its place in the round, and the server's copy of the     *)
(* hand its marks.                                                         *)
(***************************************************************************)
LEMMA GameKept ==
    ASSUME SeatInv, [Next]_vars
    PROVE  InStep' /\ MarksAreLaid' /\ HandDealt' /\ Asking'
PROOF
<1>0. /\ TypeOK /\ InStep /\ MarksAreLaid /\ HandDealt /\ Asking
      /\ curr_lewa_nbr \in Nat \ {0} /\ NumTricks \in Nat \ {0}
  BY ExchangeAssumption DEF SeatInv, TypeOK
<1>1. CASE SendCommand
  BY <1>0, <1>1 DEF SendCommand, InStep, MarksAreLaid, HandDealt, Asking, player, conn
<1>2. CASE PrepareNewLewa
  <2>1. /\ command = "newlewa" /\ Len(laid) = curr_lewa_nbr /\ laid' = laid
        /\ curr_lewa_nbr' = curr_lewa_nbr + 1
        /\ command' \in {"TRICK", "SCORE"}
        /\ command' = "TRICK" => curr_lewa_nbr < NumTricks
    BY <1>0, <1>2 DEF PrepareNewLewa, InStep
  <2>2. InStep'
    <3>1. curr_lewa_nbr + 1 - 1 = curr_lewa_nbr /\ curr_lewa_nbr + 1 > 1
      BY <1>0
    <3>2. curr_lewa_nbr < NumTricks => curr_lewa_nbr + 1 <= NumTricks
      BY <1>0
    <3>3. QED
      BY <2>1, <3>1, <3>2 DEF InStep
  <2>3. UNCHANGED <<hand, was_card_played, tcp>> /\ tcp \notin {"TRICK", "resend"}
    BY <1>0, <1>2, <2>1 DEF PrepareNewLewa, Asking, player, conn, Commands
  <2>4. QED
    BY <1>0, <2>1, <2>2, <2>3 DEF MarksAreLaid, HandDealt, Asking
<1>3. CASE PrepareNewRound
  <2>1. tcp \notin {"TRICK", "resend"} /\ UNCHANGED <<hand, was_card_played>>
    BY <1>0, <1>3 DEF PrepareNewRound, Asking, player, Commands
  <2>2. CASE curr_lewa_nbr <= NumTricks
    BY <1>0, <1>3, <2>1, <2>2 DEF PrepareNewRound, InStep, MarksAreLaid, HandDealt, Asking, conn
  <2>3. CASE ~(curr_lewa_nbr <= NumTricks)
    BY <1>0, <1>3, <2>1, <2>3 DEF PrepareNewRound, InStep, MarksAreLaid, HandDealt, Asking
  <2>4. QED
    BY <2>2, <2>3
<1>4. CASE LastRoundOver \/ EndUnserved
  BY <1>0, <1>4
  DEF LastRoundOver, EndUnserved, InStep, MarksAreLaid, HandDealt, Asking, Commands, game, player, conn
<1>5. CASE HandleDeal
  <2>1. /\ command = "DEAL" /\ command' = "TRICK"
        /\ hand' = Hands[round_number] /\ was_card_played' = {}
        /\ UNCHANGED <<round_number, curr_lewa_nbr, laid>>
        /\ tcp' \notin {"TRICK", "resend"}
    BY <1>5 DEF HandleDeal, Tell, Told, Served, game
  <2>2. laid = << >> /\ curr_lewa_nbr = 1
    BY <1>0, <2>1 DEF InStep
  <2>3. InStep'
    BY <1>0, <2>1, <2>2 DEF InStep
  <2>4. HandDealt'
    BY <1>0, <2>1 DEF HandDealt, TypeOK
  <2>5. MarksAreLaid'
    BY <2>1, <2>2 DEF MarksAreLaid
  <2>6. QED
    BY <2>1, <2>3, <2>4, <2>5 DEF Asking
<1>6. CASE HandleTaken \/ HandleScore \/ HandleTotal
  <2>1. /\ tcp' \notin {"TRICK", "resend"}
        /\ \/ command = "TAKEN" /\ command' = "newlewa"
           \/ command = "SCORE" /\ command' = "TOTAL"
           \/ command = "TOTAL" /\ command' = "nextround"
        /\ UNCHANGED <<game, player>>
    BY <1>6 DEF HandleTaken, HandleScore, HandleTotal, Tell, Told, Served
  <2>2. QED
    BY <1>0, <2>1 DEF InStep, MarksAreLaid, HandDealt, Asking, game, player
<1>7. CASE HandleEnd
  BY <1>0, <1>7 DEF HandleEnd, Told, InStep, MarksAreLaid, HandDealt, Asking, game, player
<1>8. CASE AskForCard
  BY <1>0, <1>8
  DEF AskForCard, Told, InStep, MarksAreLaid, HandDealt, Asking, thread, game, player
<1>9. CASE AcceptCard
  <2>1. /\ tcp = "TRICK" /\ tcp' \notin {"TRICK", "resend"} /\ command' = "TAKEN"
        /\ UNCHANGED <<round_number, curr_lewa_nbr, hand>>
    BY <1>9 DEF AcceptCard, Served
  <2>2. /\ command = "TRICK" /\ Len(laid) = curr_lewa_nbr - 1
        /\ curr_lewa_nbr <= NumTricks
    BY <1>0, <2>1 DEF Asking, InStep
  <2>3. PICK card : /\ laid' = Append(laid, card)
                    /\ was_card_played' = was_card_played \cup {card}
                    /\ card \in hand
    BY <1>9 DEF AcceptCard, Acceptable, CardCorrect
  <2>4. /\ Len(laid') = Len(laid) + 1
        /\ {laid'[i] : i \in DOMAIN laid'} = {laid[i] : i \in DOMAIN laid} \cup {card}
    BY <1>0, <2>3, AppendCard DEF TypeOK
  <2>5. InStep'
    BY <1>0, <2>1, <2>2, <2>4 DEF InStep
  <2>6. MarksAreLaid'
    BY <1>0, <2>2, <2>3, <2>4 DEF MarksAreLaid
  <2>7. HandDealt'
    BY <1>0, <2>1, <2>3 DEF HandDealt
  <2>8. QED
    BY <2>1, <2>5, <2>6, <2>7 DEF Asking
<1>10. CASE AnswerUnasked
  <2>1. /\ tcp' \notin {"TRICK", "resend"}
        /\ UNCHANGED <<round_number, curr_lewa_nbr, laid, hand, was_card_played>>
    BY <1>10 DEF AnswerUnasked, game, player
  <2>2. CASE curr_lewa_nbr <= NumTricks
    BY <1>0, <1>10, <2>1, <2>2 DEF AnswerUnasked, InStep, MarksAreLaid, HandDealt, Asking
  <2>3. CASE ~(curr_lewa_nbr <= NumTricks)
    <3>1. command' = "aborted"
      BY <1>10, <2>3 DEF AnswerUnasked
    <3>2. command # "DEAL"
      BY <1>0, <2>3 DEF InStep
    <3>3. QED
      BY <1>0, <2>1, <3>1, <3>2 DEF InStep, MarksAreLaid, HandDealt, Asking
  <2>4. QED
    BY <2>2, <2>3
<1>11. CASE Quiet
  BY <1>11, QuietKeeps
<1>12. CASE Replace
  BY <1>0, <1>12
  DEF Replace, InStep, MarksAreLaid, HandDealt, Asking, thread, game, player
<1>13. QED
  BY <1>1, <1>2, <1>3, <1>4, <1>5, <1>6, <1>7, <1>8, <1>9, <1>10, <1>11, <1>12, QuietSteps

(***************************************************************************)
(* Every step keeps the conversation in step.                              *)
(***************************************************************************)
LEMMA SeatKept == SeatInv /\ [Next]_vars => SeatInv'
PROOF
  BY TypeKept, GameKept DEF SeatInv

(***************************************************************************)
(* The conversation keeps its types and its place in the round, and the    *)
(* server's copy of the hand its marks: they are the cards the seat has    *)
(* laid, of the hand it was dealt.                                         *)
(***************************************************************************)
THEOREM SeatInvariance == Spec => []SeatInv
PROOF
<1>1. QED
  BY Initially, SeatKept, PTL DEF Spec

(***************************************************************************)
(* Every variable keeps its type, whatever is late, lost or unasked: the   *)
(* automatic client always finds a card in a hand that is not empty, and   *)
(* no trick is opened after the last.                                      *)
(***************************************************************************)
THEOREM ExchangeTypes == Spec => []TypeOK
PROOF
<1>1. SeatInv => TypeOK
  BY DEF SeatInv
<1>2. QED
  BY <1>1, SeatInvariance, PTL

-----------------------------------------------------------------------------
(***************************************************************************)
(* A conversation that begins is a game of the seat that begins.           *)
(***************************************************************************)
LEMMA InitRefines == Init => Seat!Init
PROOF
<1>1. 1 - 1 = 0
  OBVIOUS
<1>2. QED
  BY <1>1 DEF Init, Seat!Init, Led, NONE_SUIT, Seat!NONE_SUIT

(***************************************************************************)
(* A step of the conversation is a step of the seat's game or leaves it    *)
(* alone.                                                                  *)
(***************************************************************************)
LEMMA StepRefines == SeatInv /\ [Next]_vars => [Seat!Next]_(Seat!vars)
PROOF
<1> SUFFICES ASSUME SeatInv, [Next]_vars
             PROVE  Seat!Next \/ UNCHANGED Seat!vars
  OBVIOUS
<1>1. ASSUME UNCHANGED <<game, hand>> PROVE UNCHANGED Seat!vars
  BY <1>1 DEF Seat!vars, game
<1>2. CASE SendCommand
  <2>1. CASE command = "TRICK"
    <3>1. led' \in Led /\ UNCHANGED <<round_number, curr_lewa_nbr, laid, hand>>
      BY <1>2, <2>1 DEF SendCommand, player
    <3>2. Len(laid) = curr_lewa_nbr - 1
      BY <2>1 DEF SeatInv, InStep
    <3>3. Seat!OthersLead
      BY <3>1, <3>2 DEF Seat!OthersLead, Led, NONE_SUIT, Seat!NONE_SUIT
    <3>4. QED
      BY <3>3 DEF Seat!Next
  <2>2. CASE command # "TRICK"
    BY <1>1, <1>2, <2>2 DEF SendCommand, game, player
  <2>3. QED
    BY <2>1, <2>2
<1>3. CASE PrepareNewLewa
  <2>1. Len(laid) = curr_lewa_nbr /\ curr_lewa_nbr \in Nat
    BY <1>3 DEF PrepareNewLewa, SeatInv, InStep, TypeOK
  <2>2. curr_lewa_nbr' = curr_lewa_nbr + 1 /\ UNCHANGED <<round_number, led, laid, hand>>
    BY <1>3 DEF PrepareNewLewa, player
  <2>3. Seat!FinishTrick
    BY <2>1, <2>2 DEF Seat!FinishTrick
  <2>4. QED
    BY <2>3 DEF Seat!Next
<1>4. CASE PrepareNewRound
  <2>1. CASE curr_lewa_nbr <= NumTricks
    <3>1. /\ round_number < Len(Hands) /\ round_number' = round_number + 1
          /\ curr_lewa_nbr' = 1 /\ laid' = << >> /\ UNCHANGED <<hand, led>>
      BY <1>4, <2>1 DEF PrepareNewRound, player
    <3>2. Len(laid) = curr_lewa_nbr - 1 /\ curr_lewa_nbr - 1 > 0 /\ curr_lewa_nbr' - 1 = 0
      BY <1>4, <3>1 DEF PrepareNewRound, SeatInv, InStep, TypeOK
    <3>3. Seat!NewRound
      BY <3>1, <3>2 DEF Seat!NewRound
    <3>4. QED
      BY <3>3 DEF Seat!Next
  <2>2. CASE ~(curr_lewa_nbr <= NumTricks)
    BY <1>1, <1>4, <2>2 DEF PrepareNewRound, game, player
  <2>3. QED
    BY <2>1, <2>2
<1>5. CASE HandleDeal
  <2>1. /\ command = "DEAL" /\ hand' = Hands[round_number]
        /\ UNCHANGED <<round_number, led, curr_lewa_nbr, laid>>
    BY <1>5 DEF HandleDeal, Tell, Told, game
  <2>2. laid = << >>
    BY <2>1 DEF SeatInv, InStep
  <2>3. Seat!Deal
    BY <2>1, <2>2 DEF Seat!Deal
  <2>4. QED
    BY <2>3 DEF Seat!Next
<1>6. CASE AcceptCard
  <2>1. command = "TRICK"
    BY <1>6 DEF AcceptCard, SeatInv, Asking
  <2>2. /\ Len(laid) = curr_lewa_nbr - 1
        /\ hand \ was_card_played = Seat!Left
    BY <2>1 DEF SeatInv, InStep, MarksAreLaid, Seat!Left
  <2>3. PICK card : /\ laid' = Append(laid, card)
                    /\ CardCorrect(Seat!Left, card, IF led = NONE_SUIT THEN card.suit ELSE led)
    BY <1>6, <2>2 DEF AcceptCard, Acceptable
  <2>4. /\ card \in Seat!Left
        /\ card.suit = led \/ led = NONE_SUIT \/ \A c \in Seat!Left : c.suit # led
    BY <2>3 DEF CardCorrect
  <2>5. UNCHANGED <<round_number, hand, led, curr_lewa_nbr>>
    BY <1>6 DEF AcceptCard
  <2>6. Seat!LayCard
    BY <2>2, <2>3, <2>4, <2>5 DEF Seat!LayCard, NONE_SUIT, Seat!NONE_SUIT
  <2>7. QED
    BY <2>6 DEF Seat!Next
<1>7. CASE HandleTaken \/ HandleScore \/ HandleTotal
  BY <1>1, <1>7 DEF HandleTaken, HandleScore, HandleTotal, Tell, player
<1>8. CASE LastRoundOver \/ EndUnserved \/ HandleEnd \/ AskForCard \/ AnswerUnasked
  BY <1>1, <1>8 DEF LastRoundOver, EndUnserved, HandleEnd, AskForCard, AnswerUnasked, player
<1>9. CASE Quiet
  BY <1>1, <1>9 DEF Quiet, player
<1>10. CASE Replace
  BY <1>1, <1>10 DEF Replace, game, player
<1>11. QED
  BY <1>2, <1>3, <1>4, <1>5, <1>6, <1>7, <1>8, <1>9, <1>10, QuietSteps

(***************************************************************************)
(* Hiding the connection and the client, the seat plays the game it is     *)
(* promised (handle_TRICK accepts one card per trick of the hand that was  *)
(* dealt, never twice the same, and one that follows suit), for every      *)
(* number of tricks, every hand, and any number of late answers, unasked   *)
(* messages and clients lost before their command was served or after its  *)
(* permit was collected.  Of a client lost in between the theorem says     *)
(* only what happened before: TrickExchange stops there (HandedOff).  The  *)
(* player thread then repeats TRICK, and the seat may lay a second card in *)
(* the same trick.                                                         *)
(***************************************************************************)
THEOREM SeatGameImplemented == Spec => SeatSpec
PROOF
<1>1. QED
  BY InitRefines, StepRefines, SeatInvariance, PTL DEF Spec, SeatSpec, Seat!Spec

-----------------------------------------------------------------------------
(* Counting.                                                               *)

(***************************************************************************)
(* What is counted is a finite number of messages.                         *)
(***************************************************************************)
LEMMA CountFinite ==
    ASSUME NEW q, NEW i \in Nat, NEW n \in Nat
    PROVE  /\ IsFiniteSet(SinceDeal(q, i))
           /\ Cardinality(SinceDeal(q, i)) \in Nat
           /\ Count(q, i, n) \in Nat
PROOF
<1>1. IsFiniteSet(1 .. i - 1)
  BY FS_Interval
<1>2. SinceDeal(q, i) \in SUBSET (1 .. i - 1)
  BY DEF SinceDeal, Named
<1>3. IsFiniteSet(SinceDeal(q, i))
  BY <1>1, <1>2, FS_Subset
<1>4. Cardinality(SinceDeal(q, i)) \in Nat
  BY <1>3, FS_CardinalityType
<1>5. QED
  BY <1>3, <1>4 DEF Count

(***************************************************************************)
(* Before the first message nothing is counted.                            *)
(***************************************************************************)
LEMMA CountFirst == ASSUME NEW q, NEW n \in Nat PROVE Count(q, 1, n) = n
PROOF
<1>1. \A name : Named(q, 1, name) = {}
  BY DEF Named
<1>2. SinceDeal(q, 1) = {}
  BY <1>1 DEF SinceDeal
<1>3. QED
  BY <1>1, <1>2, FS_EmptySet DEF Count

(***************************************************************************)
(* A message that is added changes no count before it.                     *)
(***************************************************************************)
LEMMA CountAppend ==
    ASSUME NEW S, NEW q \in Seq(S), NEW m \in S, NEW i \in 1 .. Len(q) + 1, NEW n
    PROVE  Count(Append(q, m), i, n) = Count(q, i, n)
PROOF
<1>1. \A k \in 1 .. i - 1 : Append(q, m)[k] = q[k]
  OBVIOUS
<1>2. \A name : Named(Append(q, m), i, name) = Named(q, i, name)
  BY <1>1 DEF Named
<1>3. SinceDeal(Append(q, m), i) = SinceDeal(q, i)
  BY <1>2 DEF SinceDeal
<1>4. QED
  BY <1>2, <1>3 DEF Count

(***************************************************************************)
(* After it a DEAL starts the count again and a TAKEN adds one to it.      *)
(***************************************************************************)
LEMMA CountLast ==
    ASSUME NEW S, NEW q \in Seq(S), NEW m \in S, NEW n \in Nat
    PROVE  Count(Append(q, m), Len(q) + 2, n) =
               (CASE m.name = "DEAL" -> 1
                  [] m.name = "TAKEN" -> Count(q, Len(q) + 1, n) + 1
                  [] OTHER -> Count(q, Len(q) + 1, n))
PROOF
<1> DEFINE p == Append(q, m)
           l == Len(q) + 1
<1>1. /\ l \in Nat /\ p[l] = m /\ \A k \in 1 .. l - 1 : p[k] = q[k]
      /\ 1 .. (Len(q) + 2) - 1 = (1 .. l - 1) \cup {l}
  OBVIOUS
<1>2. \A name : Named(p, Len(q) + 2, name) =
                    Named(q, l, name) \cup (IF m.name = name THEN {l} ELSE {})
  <2> HIDE DEF p, l
  <2>1. QED
    BY <1>1 DEF Named
<1>3. \A name : \A k \in Named(q, l, name) : k < l
  <2>1. \A k \in 1 .. l - 1 : k < l
    BY <1>1
  <2> HIDE DEF p, l
  <2>2. QED
    BY <2>1 DEF Named
<1>4. IsFiniteSet(SinceDeal(q, l)) /\ Cardinality(SinceDeal(q, l)) \in Nat
  BY CountFinite
<1>5. CASE m.name = "DEAL"
  <2>1. l \in Named(p, Len(q) + 2, "DEAL") /\ Named(p, Len(q) + 2, "TAKEN") = Named(q, l, "TAKEN")
    BY <1>2, <1>5
  <2>2. SinceDeal(p, Len(q) + 2) = {}
    <3>1. ASSUME NEW k \in Named(q, l, "TAKEN") PROVE ~ (l < k)
      <4>1. k < l /\ k \in 1 .. l - 1
        BY <1>3 DEF Named
      <4>2. QED
        BY <1>1, <4>1
    <3> HIDE DEF p, l
    <3>2. QED
      BY <2>1, <3>1 DEF SinceDeal
  <2>3. Count(p, Len(q) + 2, n) = 1
    <3> HIDE DEF p, l
    <3>1. Cardinality(SinceDeal(p, Len(q) + 2)) = 0
      BY <2>2, FS_EmptySet
    <3>2. QED
      BY <2>1, <3>1 DEF Count
  <2>4. QED
    BY <1>5, <2>3
<1>6. CASE m.name # "DEAL"
  <2>1. Named(p, Len(q) + 2, "DEAL") = Named(q, l, "DEAL")
    BY <1>2, <1>6
  <2>2. SinceDeal(p, Len(q) + 2) = SinceDeal(q, l) \cup (IF m.name = "TAKEN" THEN {l} ELSE {})
    <3> HIDE DEF p, l
    <3>1. QED
      BY <1>2, <1>3, <2>1 DEF SinceDeal
  <2>3. l \notin SinceDeal(q, l)
    <3>1. l \notin 1 .. l - 1
      BY <1>1
    <3>2. QED
      BY <3>1 DEF SinceDeal, Named
  <2>4. CASE m.name = "TAKEN"
    <3>1. SinceDeal(p, Len(q) + 2) = SinceDeal(q, l) \cup {l}
      BY <2>2, <2>4
    <3> HIDE DEF p, l
    <3>2. Cardinality(SinceDeal(p, Len(q) + 2)) = Cardinality(SinceDeal(q, l)) + 1
      BY <1>4, <2>3, <3>1, FS_AddElement
    <3>3. Count(p, Len(q) + 2, n) = Count(q, l, n) + 1
      BY <1>4, <2>1, <3>2 DEF Count
    <3>4. QED
      BY <2>4, <3>3 DEF p, l
  <2>5. CASE m.name # "TAKEN"
    <3>1. SinceDeal(p, Len(q) + 2) = SinceDeal(q, l)
      BY <2>2, <2>5
    <3>2. Count(p, Len(q) + 2, n) = Count(q, l, n)
      BY <2>1, <3>1 DEF Count
    <3>3. QED
      BY <1>6, <2>5, <3>2
  <2>6. QED
    BY <2>4, <2>5
<1>7. QED
  BY <1>5, <1>6

(***************************************************************************)
(* The count of a client that has read a message starts where that message *)
(* leaves it.                                                              *)
(***************************************************************************)
CountAfter(m, n) == CASE m.name = "DEAL" -> 1
                      [] m.name = "TAKEN" -> n + 1
                      [] OTHER -> n

(***************************************************************************)
(* Reading the first message and counting from there is counting from it.  *)
(***************************************************************************)
LEMMA CountTail ==
    ASSUME NEW S, NEW q \in Seq(S), q # << >>, NEW i \in 1 .. Len(q), NEW n \in Nat
    PROVE  Count(Tail(q), i, CountAfter(Head(q), n)) = Count(q, i + 1, n)
PROOF
<1> DEFINE t == Tail(q)
<1>0. /\ Len(q) \in Nat /\ i \in Nat /\ i >= 1 /\ Head(q) = q[1]
      /\ \A k \in 1 .. i - 1 : t[k] = q[k + 1] /\ k \in Nat
  BY TailOfSeq
<1>1. ASSUME NEW name
      PROVE  /\ \A k \in 1 .. i - 1 : k \in Named(t, i, name) <=> k + 1 \in Named(q, i + 1, name)
             /\ 1 \in Named(q, i + 1, name) <=> q[1].name = name
  <2>1. \A k \in 1 .. i - 1 : k + 1 \in 1 .. (i + 1) - 1
    BY <1>0
  <2>2. 1 \in 1 .. (i + 1) - 1
    BY <1>0
  <2> HIDE DEF t
  <2>3. QED
    BY <1>0, <2>1, <2>2 DEF Named
<1>2. \A name : Named(t, i, name) \subseteq 1 .. i - 1 /\ Named(q, i + 1, name) \subseteq 1 .. i
  <2>1. (i + 1) - 1 = i
    BY <1>0
  <2>2. QED
    BY <2>1 DEF Named
<1>3. \A k \in 1 .. i : k = 1 \/ (k - 1 \in 1 .. i - 1 /\ k = (k - 1) + 1)
  BY <1>0
<1>4. \A k \in 1 .. i - 1 : k \in SinceDeal(t, i) <=> k + 1 \in SinceDeal(q, i + 1)
  <2> SUFFICES ASSUME NEW k \in 1 .. i - 1
               PROVE  k \in SinceDeal(t, i) <=> k + 1 \in SinceDeal(q, i + 1)
    OBVIOUS
  <2> HIDE DEF t
  <2>1. k \in Named(t, i, "TAKEN") <=> k + 1 \in Named(q, i + 1, "TAKEN")
    BY <1>1
  <2>2. ASSUME \A d \in Named(t, i, "DEAL") : d < k, NEW d \in Named(q, i + 1, "DEAL")
        PROVE  d < k + 1
    <3>1. d \in 1 .. i /\ k \in Nat /\ k >= 1
      BY <1>0, <1>2
    <3>2. CASE d = 1
      BY <3>1, <3>2
    <3>3. CASE d - 1 \in 1 .. i - 1 /\ d = (d - 1) + 1
      <4>1. d - 1 \in Named(t, i, "DEAL")
        BY <1>1, <3>3
      <4>2. d - 1 < k
        BY <2>2, <4>1
      <4>3. QED
        BY <3>1, <4>2
    <3>4. QED
      BY <1>3, <3>1, <3>2, <3>3
  <2>3. ASSUME \A d \in Named(q, i + 1, "DEAL") : d < k + 1, NEW d \in Named(t, i, "DEAL")
        PROVE  d < k
    <3>1. d \in 1 .. i - 1 /\ k \in Nat
      BY <1>0, <1>2
    <3>2. d + 1 < k + 1
      BY <1>1, <2>3, <3>1
    <3>3. QED
      BY <3>1, <3>2
  <2>4. QED
    BY <2>1, <2>2, <2>3 DEF SinceDeal
<1> DEFINE shifted == {k \in SinceDeal(q, i + 1) : k # 1}
<1>5. IsFiniteSet(shifted) /\ Cardinality(shifted) = Cardinality(SinceDeal(t, i))
  <2> DEFINE f == [k \in SinceDeal(t, i) |-> k + 1]
  <2>1. SinceDeal(t, i) \subseteq 1 .. i - 1 /\ SinceDeal(q, i + 1) \subseteq 1 .. i
    BY <1>2 DEF SinceDeal
  <2>2. \A k \in SinceDeal(t, i) : k + 1 \in shifted
    BY <1>0, <1>4, <2>1
  <2>3. \A k \in shifted : k - 1 \in SinceDeal(t, i) /\ k = (k - 1) + 1
    BY <1>3, <1>4, <2>1
  <2>4. \A k1, k2 \in SinceDeal(t, i) : k1 + 1 = k2 + 1 => k1 = k2
    BY <1>0, <2>1
  <2>5. ExistsBijection(SinceDeal(t, i), shifted)
    <3> HIDE DEF t, shifted
    <3>1. f \in [SinceDeal(t, i) -> shifted]
      BY <2>2
    <3>2. f \in Injection(SinceDeal(t, i), shifted)
      BY <2>4, <3>1 DEF Injection, IsInjective
    <3>3. f \in Surjection(SinceDeal(t, i), shifted)
      BY <2>3, <3>1 DEF Surjection
    <3>4. QED
      BY <3>2, <3>3 DEF ExistsBijection, Bijection
  <2>6. IsFiniteSet(SinceDeal(t, i))
    BY <1>0, CountFinite
  <2> HIDE DEF t, shifted
  <2>7. QED
    BY <2>5, <2>6, FS_Bijection
<1>6. Cardinality(shifted) \in Nat
  BY <1>5, FS_CardinalityType
<1>7. Named(q, i + 1, "DEAL") = {} <=> Named(t, i, "DEAL") = {} /\ q[1].name # "DEAL"
  BY <1>1, <1>2, <1>3, ZenonT(30)
<1>8. CASE Named(t, i, "DEAL") # {}
  <2>1. 1 \notin SinceDeal(q, i + 1)
    <3>1. PICK d \in Named(t, i, "DEAL") : TRUE
      BY <1>8
    <3>2. d + 1 \in Named(q, i + 1, "DEAL") /\ d \in Nat
      BY <1>0, <1>1, <1>2, <3>1
    <3>3. ~ (d + 1 < 1)
      BY <3>2
    <3>4. QED
      BY <3>2, <3>3 DEF SinceDeal
  <2>2. shifted = SinceDeal(q, i + 1)
    BY <2>1
  <2> HIDE DEF t, shifted
  <2>3. QED
    BY <1>5, <1>7, <1>8, <2>2 DEF Count, t
<1>9. CASE Named(t, i, "DEAL") = {} /\ q[1].name = "DEAL"
  <2>1. 1 \notin SinceDeal(q, i + 1)
    BY <1>1, <1>9 DEF SinceDeal
  <2>2. shifted = SinceDeal(q, i + 1)
    BY <2>1
  <2>3. CountAfter(Head(q), n) = 1
    BY <1>0, <1>9 DEF CountAfter
  <2> HIDE DEF t, shifted
  <2>4. QED
    BY <1>5, <1>7, <1>9, <2>2, <2>3 DEF Count, t
<1>10. CASE Named(t, i, "DEAL") = {} /\ q[1].name # "DEAL"
  <2>1. Named(q, i + 1, "DEAL") = {}
    BY <1>7, <1>10
  <2>2. 1 \in SinceDeal(q, i + 1) <=> q[1].name = "TAKEN"
    BY <1>1, <2>1 DEF SinceDeal
  <2>3. CASE q[1].name = "TAKEN"
    <3>1. SinceDeal(q, i + 1) = shifted \cup {1} /\ 1 \notin shifted
      BY <2>2, <2>3
    <3>2. CountAfter(Head(q), n) = n + 1
      BY <1>0, <2>3 DEF CountAfter
    <3> HIDE DEF t, shifted
    <3>3. Cardinality(SinceDeal(q, i + 1)) = Cardinality(shifted) + 1
      BY <1>5, <3>1, FS_AddElement
    <3>4. Count(q, i + 1, n) = n + (Cardinality(shifted) + 1)
      BY <2>1, <3>3 DEF Count
    <3>5. Count(t, i, n + 1) = (n + 1) + Cardinality(shifted)
      BY <1>5, <1>10 DEF Count
    <3>6. QED
      BY <1>6, <3>2, <3>4, <3>5 DEF t
  <2>4. CASE q[1].name # "TAKEN"
    <3>1. SinceDeal(q, i + 1) = shifted
      BY <2>2, <2>4
    <3>2. CountAfter(Head(q), n) = n
      BY <1>0, <1>10, <2>4 DEF CountAfter
    <3> HIDE DEF t, shifted
    <3>3. QED
      BY <1>5, <1>10, <2>1, <3>1, <3>2 DEF Count, t
  <2>5. QED
    BY <2>3, <2>4
<1>11. QED
  BY <1>8, <1>9, <1>10

(***************************************************************************)
(* A replacement that reads a resend counts the tricks as they were.       *)
(***************************************************************************)
LEMMA CountResent ==
    ASSUME SeatInv, tcp = "resend", NEW i \in 2 .. curr_lewa_nbr + 1, NEW n
    PROVE  Count(Resent, i, n) = i - 1
PROOF
<1>1. /\ curr_lewa_nbr \in Nat \ {0} /\ i \in Nat /\ i >= 2
      /\ \A k \in 1 .. i - 1 : k = 1 \/ k \in 2 .. i - 1
      /\ \A k \in 2 .. i - 1 : k \in 2 .. curr_lewa_nbr /\ k \in 1 .. i - 1 /\ 1 < k
      /\ 1 \in 1 .. i - 1
  BY ResentMessages
<1>2. Resent[1].name = "DEAL" /\ \A k \in 2 .. i - 1 : Resent[k].name = "TAKEN"
  <2>1. \A id, card, cards : Deal(cards).name = "DEAL" /\ Taken(id, card).name = "TAKEN"
    BY DEF Deal, Taken, Message
  <2>2. /\ Resent[1] = Deal(hand)
        /\ \A k \in 2 .. i - 1 : Resent[k] = Taken(k - 1, laid[k - 1])
    BY <1>1, ResentMessages
  <2>3. QED
    BY <2>1, <2>2
<1>3. Named(Resent, i, "DEAL") = {1}
  BY <1>1, <1>2 DEF Named
<1>4. Named(Resent, i, "TAKEN") = 2 .. i - 1
  BY <1>1, <1>2 DEF Named
<1>5. SinceDeal(Resent, i) = 2 .. i - 1
  BY <1>1, <1>3, <1>4 DEF SinceDeal
<1>6. Cardinality(2 .. i - 1) = i - 2
  <2>1. \A a, b \in Int : Cardinality(a .. b) = IF a > b THEN 0 ELSE b - a + 1
    BY FS_Interval
  <2>2. Cardinality(2 .. i - 1) = IF 2 > i - 1 THEN 0 ELSE (i - 1) - 2 + 1
    BY <1>1, <2>1
  <2>3. QED
    BY <1>1, <2>2
<1>7. Count(Resent, i, n) = 1 + (i - 2)
  BY <1>3, <1>5, <1>6 DEF Count
<1>8. QED
  BY <1>1, <1>7

(***************************************************************************)
(* Ids stay counted when a message with the right id is added, and when    *)
(* one is read.                                                            *)
(***************************************************************************)
LEMMA CountedAppend ==
    ASSUME NEW q \in Seq(Msg), NEW m \in Msg, NEW n \in Nat, Counted(q, n),
           m.name \in {"TRICK", "TAKEN"} => m.id = Count(q, Len(q) + 1, n)
    PROVE  Counted(Append(q, m), n)
PROOF
<1>1. \A i \in 1 .. Len(q) + 1 : Count(Append(q, m), i, n) = Count(q, i, n)
  BY CountAppend
<1>2. /\ DOMAIN Append(q, m) = 1 .. Len(q) + 1 /\ DOMAIN q = 1 .. Len(q) /\ Len(q) \in Nat
      /\ \A i \in 1 .. Len(q) : Append(q, m)[i] = q[i]
      /\ Append(q, m)[Len(q) + 1] = m
      /\ \A i \in 1 .. Len(q) + 1 : i = Len(q) + 1 \/ i \in 1 .. Len(q)
  OBVIOUS
<1>3. QED
  BY <1>1, <1>2 DEF Counted

(***************************************************************************)
(* The first message is counted right, and so is the rest after it.        *)
(***************************************************************************)
LEMMA CountedTail ==
    ASSUME NEW q \in Seq(Msg), q # << >>, NEW n \in Nat, Counted(q, n)
    PROVE  /\ Head(q).name \in {"TRICK", "TAKEN"} => Head(q).id = n
           /\ Counted(Tail(q), CountAfter(Head(q), n))
           /\ Count(Tail(q), Len(Tail(q)) + 1, CountAfter(Head(q), n)) = Count(q, Len(q) + 1, n)
PROOF
<1>1. /\ Len(q) \in Nat /\ Len(q) > 0 /\ Head(q) = q[1] /\ DOMAIN q = 1 .. Len(q)
      /\ Len(Tail(q)) = Len(q) - 1 /\ DOMAIN Tail(q) = 1 .. Len(q) - 1
      /\ \A k \in 1 .. Len(q) - 1 : Tail(q)[k] = q[k + 1] /\ k \in 1 .. Len(q) /\ k + 1 \in 1 .. Len(q)
      /\ 1 \in 1 .. Len(q) /\ Len(q) \in 1 .. Len(q) /\ (Len(q) - 1) + 1 = Len(q)
  <2>1. DOMAIN Tail(q) = 1 .. Len(q) - 1
    OBVIOUS
  <2>2. QED
    BY <2>1, TailOfSeq
<1>2. \A i \in 1 .. Len(q) : Count(Tail(q), i, CountAfter(Head(q), n)) = Count(q, i + 1, n)
  BY CountTail
<1>3. Head(q).name \in {"TRICK", "TAKEN"} => Head(q).id = n
  BY <1>1, CountFirst DEF Counted
<1>4. Counted(Tail(q), CountAfter(Head(q), n))
  BY <1>1, <1>2 DEF Counted
<1>5. Count(Tail(q), Len(Tail(q)) + 1, CountAfter(Head(q), n)) = Count(q, Len(q) + 1, n)
  BY <1>1, <1>2
<1>6. QED
  BY <1>3, <1>4, <1>5

(***************************************************************************)
(* Two messages written together are written one after the other.          *)
(***************************************************************************)
LEMMA AppendTwo ==
    ASSUME NEW S, NEW q \in Seq(S), NEW a \in S, NEW b \in S
    PROVE  q \o <<a, b>> = Append(Append(q, a), b)
PROOF
  OBVIOUS

-----------------------------------------------------------------------------
(***************************************************************************)
(* Nothing has been written when the conversation begins.                  *)
(***************************************************************************)
LEMMA CountInitially == Init => CountInv
PROOF
<1>1. DOMAIN << >> = {}
  OBVIOUS
<1>2. QED
  BY <1>1 DEF Init, CountInv, Counted, WrittenTo

(***************************************************************************)
(* What has to be shown of a step that writes nothing, of one that writes  *)
(* a message, and of one that reads one.                                   *)
(***************************************************************************)
LEMMA CountSilent ==
    ASSUME CountInv, UNCHANGED <<to_client, curr_lewa_id>>,
           client' = "playing" => client = "playing",
           WrittenTo' => WrittenTo /\ TricksWritten' = TricksWritten
    PROVE  CountInv'
PROOF
  BY DEF CountInv

(***************************************************************************)
(* A message that is written carries the number of the trick.              *)
(***************************************************************************)
LEMMA CountWrites ==
    ASSUME SeatInv, CountInv, NEW m \in Msg,
           to_client' = Append(to_client, m), UNCHANGED <<client, curr_lewa_id>>,
           client = "playing" /\ m.name \in {"TRICK", "TAKEN"} =>
               WrittenTo /\ m.id = TricksWritten,
           WrittenTo' => CASE m.name = "DEAL" -> TricksWritten' = 1
                           [] m.name = "TAKEN" -> WrittenTo /\ TricksWritten' = TricksWritten + 1
                           [] OTHER -> WrittenTo /\ TricksWritten' = TricksWritten
    PROVE  CountInv'
PROOF
<1> DEFINE q == to_client
           n == curr_lewa_id
<1>1. q \in Seq(Msg) /\ n \in Nat /\ Len(q) \in Nat /\ Len(Append(q, m)) = Len(q) + 1
  BY DEF SeatInv, TypeOK
<1>2. ASSUME client' = "playing" PROVE Counted(Append(q, m), n)
  <2>1. Counted(q, n)
    BY <1>2 DEF CountInv
  <2>2. m.name \in {"TRICK", "TAKEN"} => m.id = Count(q, Len(q) + 1, n)
    BY <1>2 DEF CountInv
  <2> HIDE DEF q, n
  <2>3. QED
    BY <1>1, <2>1, <2>2, CountedAppend
<1>3. ASSUME WrittenTo' PROVE Count(Append(q, m), (Len(q) + 1) + 1, n) = TricksWritten'
  <2>1. (Len(q) + 1) + 1 = Len(q) + 2
    BY <1>1
  <2>2. Count(Append(q, m), Len(q) + 2, n) =
               (CASE m.name = "DEAL" -> 1
                  [] m.name = "TAKEN" -> Count(q, Len(q) + 1, n) + 1
                  [] OTHER -> Count(q, Len(q) + 1, n))
    <3> HIDE DEF q, n
    <3>1. QED
      BY <1>1, CountLast
  <2>3. m.name # "DEAL" => Count(q, Len(q) + 1, n) = TricksWritten
    BY <1>3 DEF CountInv
  <2>4. QED
    BY <1>3, <2>1, <2>2, <2>3
<1>4. QED
  BY <1>1, <1>2, <1>3 DEF CountInv

(***************************************************************************)
(* A message that is read moves the count on as the server meant it.       *)
(***************************************************************************)
LEMMA CountReads ==
    ASSUME SeatInv, CountInv, NEW name, Read(name), client' \in {"playing", "failed"},
           curr_lewa_id' = CountAfter(Head(to_client), curr_lewa_id)
    PROVE  CountInv'
PROOF
<1>1. /\ to_client \in Seq(Msg) /\ to_client # << >> /\ curr_lewa_id \in Nat
      /\ client = "playing" /\ to_client' = Tail(to_client)
  BY DEF SeatInv, TypeOK, Read, Received
<1>2. WrittenTo' => WrittenTo /\ TricksWritten' = TricksWritten
  BY <1>1 DEF Read, WrittenTo, TricksWritten, thread, game, conn
<1>3. Counted(to_client, curr_lewa_id)
  BY <1>1 DEF CountInv
<1>4. /\ Counted(Tail(to_client), CountAfter(Head(to_client), curr_lewa_id))
      /\ Count(Tail(to_client), Len(Tail(to_client)) + 1, CountAfter(Head(to_client), curr_lewa_id))
            = Count(to_client, Len(to_client) + 1, curr_lewa_id)
  BY <1>1, <1>3, CountedTail
<1>5. QED
  BY <1>1, <1>2, <1>4 DEF CountInv

(***************************************************************************)
(* The client parses the TAKEN it reads, since it counts with the server,  *)
(* and counts one trick more.                                              *)
(***************************************************************************)
LEMMA TakenReadable ==
    ASSUME SeatInv, CountInv, Received("TAKEN") \/ Received("TRICK")
    PROVE  Head(to_client).id = curr_lewa_id /\ Readable(Head(to_client).id, curr_lewa_id)
PROOF
<1>1. /\ to_client \in Seq(Msg) /\ to_client # << >> /\ curr_lewa_id \in Nat
      /\ Counted(to_client, curr_lewa_id)
  BY DEF SeatInv, TypeOK, Received, CountInv
<1>2. Head(to_client).name \in {"TRICK", "TAKEN"} => Head(to_client).id = curr_lewa_id
  BY <1>1, CountedTail
<1>3. Head(to_client).id = curr_lewa_id
  BY <1>2 DEF Received
<1>4. QED
  BY <1>3 DEF Readable

(***************************************************************************)
(* Every step keeps the counts alike.                                      *)
(***************************************************************************)
LEMMA CountKept ==
    ASSUME SeatInv, CountInv, [Next]_vars
    PROVE  CountInv'
PROOF
<1>0. /\ to_client \in Seq(Msg) /\ TypeOK /\ Asking /\ InStep
      /\ curr_lewa_nbr \in Nat \ {0} /\ curr_lewa_id \in Nat /\ led \in Led
  BY DEF SeatInv, TypeOK
<1>1. CASE SendCommand \/ Collect \/ LastRoundOver \/ PollSocket \/ Stopped \/ UNCHANGED vars
  <2>1. /\ UNCHANGED <<to_client, curr_lewa_id, client, curr_lewa_nbr>>
        /\ tcp' = tcp \/ (tcp = "poll" /\ tcp' = "unasked")
        /\ command' = command \/ (command = "nextround" /\ command' = "END")
    BY <1>1 DEF SendCommand, Collect, LastRoundOver, PollSocket, Stopped, vars, thread, game,
         player, conn, clientVars, trouble
  <2>2. QED
    BY <2>1, CountSilent DEF WrittenTo, TricksWritten
<1>2. CASE PrepareNewLewa
  <2>1. /\ UNCHANGED <<to_client, curr_lewa_id, client, tcp>>
        /\ command = "newlewa" /\ command' \in {"TRICK", "SCORE"}
        /\ curr_lewa_nbr' = curr_lewa_nbr + 1
    BY <1>2 DEF PrepareNewLewa, player, conn, clientVars
  <2>2. QED
    BY <2>1, CountSilent DEF WrittenTo, TricksWritten
<1>3. CASE PrepareNewRound
  <2>1. /\ UNCHANGED <<to_client, curr_lewa_id, client>>
        /\ command' = "DEAL" \/ tcp' = "none"
    BY <1>3 DEF PrepareNewRound, clientVars
  <2>2. QED
    BY <2>1, CountSilent DEF WrittenTo
<1>4. CASE HandleEnd \/ EndUnserved \/ RejectMessage \/ UnaskedTimesOut \/ NoticeLoss
  <2>1. UNCHANGED <<to_client, curr_lewa_id, client>> /\ tcp' = "none"
    BY <1>4 DEF HandleEnd, EndUnserved, RejectMessage, UnaskedTimesOut, NoticeLoss, Disconnect,
         conn, clientVars
  <2>2. QED
    BY <2>1, CountSilent DEF WrittenTo
<1>5. CASE HandleDeal
  <2>1. /\ to_client' = Append(to_client, Deal(Hands[round_number]))
        /\ UNCHANGED <<client, curr_lewa_id, curr_lewa_nbr>>
        /\ command = "DEAL" /\ command' = "TRICK"
    BY <1>5 DEF HandleDeal, Tell, Told, Served, clientVars, game
  <2>2. Deal(Hands[round_number]) \in Msg /\ Deal(Hands[round_number]).name = "DEAL"
    BY <1>0, HandsAreCards DEF TypeOK, Deal, Message, Msg, MsgNames, Led
  <2>3. TricksWritten' = 1
    BY <1>0, <2>1 DEF InStep, TricksWritten
  <2>4. QED
    BY <2>1, <2>2, <2>3, CountWrites
<1>6. CASE HandleTaken
  <2> DEFINE m == Taken(curr_lewa_nbr, laid[curr_lewa_nbr])
  <2>1. /\ to_client' = Append(to_client, m)
        /\ UNCHANGED <<client, curr_lewa_id, curr_lewa_nbr>>
        /\ tcp = "poll" /\ command = "TAKEN" /\ command' = "newlewa"
    BY <1>6 DEF HandleTaken, Tell, Told, Served, clientVars, game
  <2>2. m \in Msg /\ m.name = "TAKEN" /\ m.id = curr_lewa_nbr
    <3>1. laid[curr_lewa_nbr] \in Card
      BY <1>0, <2>1 DEF InStep, TypeOK
    <3>2. QED
      BY <1>0, <3>1 DEF Taken, Message, Msg, MsgNames, Led
  <2>3. client = "playing" => WrittenTo /\ TricksWritten = curr_lewa_nbr
    BY <2>1 DEF WrittenTo, TricksWritten
  <2>4. WrittenTo' => WrittenTo /\ TricksWritten' = TricksWritten + 1
    BY <2>1 DEF WrittenTo, TricksWritten
  <2> HIDE DEF m
  <2>5. QED
    BY <2>1, <2>2, <2>3, <2>4, CountWrites
<1>7. CASE HandleScore \/ HandleTotal
  <2>1. PICK name \in {"SCORE", "TOTAL"} : to_client' = Append(to_client, Plain(name))
    BY <1>7 DEF HandleScore, HandleTotal, Tell
  <2>2. /\ UNCHANGED <<client, curr_lewa_id, curr_lewa_nbr>>
        /\ tcp = "poll" /\ command \in {"SCORE", "TOTAL"} /\ command' \in {"TOTAL", "nextround"}
    BY <1>7 DEF HandleScore, HandleTotal, Tell, Told, Served, clientVars, game
  <2>3. Plain(name) \in Msg /\ Plain(name).name \notin {"DEAL", "TRICK", "TAKEN"}
    BY DEF Plain, Message, Msg, MsgNames, Led
  <2>4. WrittenTo' => WrittenTo /\ TricksWritten' = TricksWritten
    BY <2>2 DEF WrittenTo, TricksWritten
  <2>5. QED
    BY <2>1, <2>2, <2>3, <2>4, CountWrites
<1>8. CASE AskForCard \/ TimeoutInTrick
  <2>1. /\ to_client' = Append(to_client, Ask)
        /\ UNCHANGED <<client, curr_lewa_id, curr_lewa_nbr, command>>
        /\ tcp \in {"poll", "TRICK"} /\ command = "TRICK"
    BY <1>0, <1>8 DEF AskForCard, TimeoutInTrick, Told, Asking, clientVars, game, thread
  <2>2. Ask \in Msg /\ Ask.name = "TRICK" /\ Ask.id = curr_lewa_nbr
    BY <1>0 DEF Ask, Trick, Message, Msg, MsgNames
  <2>3. client = "playing" => WrittenTo /\ TricksWritten = curr_lewa_nbr
    BY <2>1 DEF WrittenTo, TricksWritten
  <2>4. WrittenTo' => WrittenTo /\ TricksWritten' = TricksWritten
    BY <2>1 DEF WrittenTo, TricksWritten
  <2>5. QED
    BY <2>1, <2>2, <2>3, <2>4, CountWrites
<1>9. CASE AcceptCard
  <2>1. /\ UNCHANGED <<to_client, curr_lewa_id, client, curr_lewa_nbr>>
        /\ tcp = "TRICK" /\ command = "TRICK" /\ command' = "TAKEN"
    BY <1>0, <1>9 DEF AcceptCard, Served, Asking, clientVars
  <2>2. QED
    BY <2>1, CountSilent DEF WrittenTo, TricksWritten
<1>10. CASE RefuseCard
  <2> DEFINE w == Wrong(curr_lewa_nbr)
             q == to_client
             n == curr_lewa_id
  <2>1. /\ to_client' = q \o <<w, Ask>>
        /\ UNCHANGED <<client, curr_lewa_id, curr_lewa_nbr, command, tcp>>
        /\ tcp = "TRICK" /\ command = "TRICK"
    BY <1>0, <1>10 DEF RefuseCard, Asking, clientVars, game, thread, conn
  <2>2. /\ w \in Msg /\ w.name = "WRONG"
        /\ Ask \in Msg /\ Ask.name = "TRICK" /\ Ask.id = curr_lewa_nbr
    BY <1>0 DEF Wrong, Ask, Trick, Message, Msg, MsgNames, Led
  <2>3. WrittenTo <=> client = "playing"
    BY <2>1 DEF WrittenTo
  <2>4. WrittenTo' = WrittenTo /\ TricksWritten = curr_lewa_nbr /\ TricksWritten' = curr_lewa_nbr
    BY <2>1 DEF WrittenTo, TricksWritten
  <2> DEFINE r == Append(q, w)
  <2>5. /\ q \in Seq(Msg) /\ r \in Seq(Msg) /\ to_client' = Append(r, Ask)
        /\ Len(r) = Len(q) + 1 /\ Len(to_client') = Len(q) + 2 /\ Len(q) \in Nat
        /\ (Len(q) + 1) + 1 = Len(q) + 2 /\ (Len(q) + 1) + 2 = (Len(q) + 2) + 1
    BY <1>0, <2>1, <2>2, AppendTwo
  <2>6. Count(r, Len(r) + 1, n) = Count(q, Len(q) + 1, n)
    <3>1. Count(r, Len(q) + 2, n) = Count(q, Len(q) + 1, n)
      <4> HIDE DEF w, q, n
      <4>1. QED
        BY <1>0, <2>2, <2>5, CountLast DEF n, r
    <3>2. QED
      BY <2>5, <3>1
  <2>7. Count(Append(r, Ask), Len(r) + 2, n) = Count(r, Len(r) + 1, n)
    <3> HIDE DEF r, n
    <3>1. QED
      BY <1>0, <2>2, <2>5, CountLast DEF n
  <2>8. ASSUME client = "playing" PROVE Counted(Append(r, Ask), n)
    <3>1. Counted(q, n) /\ Count(q, Len(q) + 1, n) = curr_lewa_nbr
      BY <2>3, <2>4, <2>8 DEF CountInv
    <3>2. Counted(r, n)
      <4> HIDE DEF w, q, n
      <4>1. QED
        BY <1>0, <2>2, <2>5, <3>1, CountedAppend DEF n, r
    <3>3. Count(r, Len(r) + 1, n) = Ask.id
      BY <2>2, <2>6, <3>1
    <3> HIDE DEF r, n
    <3>4. QED
      BY <1>0, <2>2, <2>5, <3>2, <3>3, CountedAppend DEF n
  <2>9. WrittenTo => Count(q, Len(q) + 1, n) = curr_lewa_nbr
    BY <2>4 DEF CountInv
  <2>10. WrittenTo => Count(to_client', Len(to_client') + 1, n) = curr_lewa_nbr
    BY <2>5, <2>6, <2>7, <2>9
  <2>11. QED
    BY <2>1, <2>3, <2>4, <2>5, <2>8, <2>10 DEF CountInv
<1>11. CASE AnswerUnasked
  <2>1. CASE curr_lewa_nbr <= NumTricks
    <3>1. /\ to_client' = Append(to_client, Wrong(curr_lewa_nbr))
          /\ UNCHANGED <<client, curr_lewa_id, curr_lewa_nbr, command>> /\ tcp = "unasked"
      BY <1>11, <2>1 DEF AnswerUnasked, clientVars, game
    <3>2. Wrong(curr_lewa_nbr) \in Msg /\ Wrong(curr_lewa_nbr).name = "WRONG"
      BY <1>0 DEF Wrong, Message, Msg, MsgNames, Led
    <3>3. WrittenTo' => WrittenTo /\ TricksWritten' = TricksWritten
      BY <3>1 DEF WrittenTo, TricksWritten
    <3>4. QED
      BY <3>1, <3>2, <3>3, CountWrites
  <2>2. CASE ~(curr_lewa_nbr <= NumTricks)
    <3>1. UNCHANGED <<to_client, client, curr_lewa_id>> /\ tcp' = "none"
      BY <1>11, <2>2 DEF AnswerUnasked, clientVars
    <3>2. QED
      BY <3>1, CountSilent DEF WrittenTo
  <2>3. QED
    BY <2>1, <2>2
<1>12. CASE Resend
  <2>1. /\ to_client' = Resent /\ tcp = "resend" /\ command \in Commands
        /\ UNCHANGED <<client, curr_lewa_id, curr_lewa_nbr, command>>
    BY <1>0, <1>12 DEF Resend, Resent, Asking, thread, game, clientVars
  <2>2. /\ Len(Resent) = curr_lewa_nbr /\ DOMAIN Resent = 1 .. curr_lewa_nbr
        /\ Resent \in Seq(Msg) /\ Resent[1] = Deal(hand)
        /\ \A k \in 2 .. curr_lewa_nbr : Resent[k] = Taken(k - 1, laid[k - 1])
    <3>1. Len(Resent) = curr_lewa_nbr /\ Resent \in Seq(Msg)
      BY <2>1, ResentMessages
    <3>2. DOMAIN Resent = 1 .. Len(Resent)
      BY <3>1
    <3>3. QED
      BY <2>1, <3>1, <3>2, ResentMessages
  <2>3. \A i \in 2 .. curr_lewa_nbr + 1 : Count(Resent, i, curr_lewa_id) = i - 1
    BY <2>1, CountResent
  <2>4. Counted(Resent, curr_lewa_id)
    <3>1. \A id, card, cards : /\ Deal(cards).name = "DEAL"
                               /\ Taken(id, card).id = id
      BY DEF Deal, Taken, Message
    <3>2. \A k \in 1 .. curr_lewa_nbr : k = 1 \/ (k \in 2 .. curr_lewa_nbr /\ k \in 2 .. curr_lewa_nbr + 1)
      BY <1>0
    <3>3. QED
      BY <2>2, <2>3, <3>1, <3>2 DEF Counted
  <2>5. Count(Resent, curr_lewa_nbr + 1, curr_lewa_id) = curr_lewa_nbr
    <3>1. curr_lewa_nbr + 1 \in 2 .. curr_lewa_nbr + 1 /\ (curr_lewa_nbr + 1) - 1 = curr_lewa_nbr
      BY <1>0
    <3>2. QED
      BY <2>3, <3>1
  <2>6. TricksWritten' = curr_lewa_nbr
    BY <2>1 DEF TricksWritten, Commands
  <2>7. QED
    BY <2>1, <2>2, <2>4, <2>5, <2>6 DEF CountInv
<1>13. CASE ReadDeal
  <2>1. Read("DEAL") /\ curr_lewa_id' = CountAfter(Head(to_client), curr_lewa_id) /\ client' = client
    BY <1>13 DEF ReadDeal, Read, Received, CountAfter
  <2>2. QED
    BY <2>1, CountReads DEF Read, Received
<1>14. CASE ReadTrick
  <2>1. Read("TRICK") /\ curr_lewa_id' = CountAfter(Head(to_client), curr_lewa_id) /\ client' = client
    BY <1>14 DEF ReadTrick, Read, Received, CountAfter
  <2>2. QED
    BY <2>1, CountReads DEF Read, Received
<1>15. CASE ReadTaken
  <2>1. Readable(Head(to_client).id, curr_lewa_id)
    BY <1>15, TakenReadable DEF ReadTaken, Read
  <2>2. Read("TAKEN") /\ curr_lewa_id' = CountAfter(Head(to_client), curr_lewa_id) /\ client' = client
    BY <1>15, <2>1 DEF ReadTaken, Read, Received, CountAfter
  <2>3. QED
    BY <2>2, CountReads DEF Read, Received
<1>16. CASE ReadWrong
  <2>1. /\ Read("WRONG") /\ curr_lewa_id' = CountAfter(Head(to_client), curr_lewa_id)
        /\ client' \in {"playing", "failed"}
    BY <1>16 DEF ReadWrong, Read, Received, CountAfter
  <2>2. QED
    BY <2>1, CountReads
<1>17. CASE ReadPoints
  <2>1. PICK name \in {"SCORE", "TOTAL"} : Read(name)
    BY <1>17 DEF ReadPoints
  <2>2. curr_lewa_id' = CountAfter(Head(to_client), curr_lewa_id) /\ client' = "playing"
    BY <1>17, <2>1 DEF ReadPoints, Read, Received, CountAfter
  <2>3. QED
    BY <2>1, <2>2, CountReads
<1>18. CASE ReadEnd \/ CloseClient
  <2>1. UNCHANGED <<to_client, curr_lewa_id>> /\ client' \in {"finished", "failed", "gone"}
    BY <1>18 DEF ReadEnd, CloseClient
  <2>2. QED
    BY <2>1, CountSilent DEF WrittenTo
<1>19. CASE Replace
  <2>1. to_client' = << >> /\ tcp' = "resend"
    BY <1>19 DEF Replace
  <2>2. DOMAIN << >> = {}
    OBVIOUS
  <2>3. QED
    BY <2>1, <2>2 DEF CountInv, Counted, WrittenTo
<1>20. CASE SendJunk
  <2>1. UNCHANGED <<to_client, curr_lewa_id, client, tcp, command, curr_lewa_nbr>>
    BY <1>20 DEF SendJunk, thread, game, conn, clientVars
  <2>2. QED
    BY <2>1, CountSilent DEF WrittenTo, TricksWritten
<1>21. QED
  BY <1>1, <1>2, <1>3, <1>4, <1>5, <1>6, <1>7, <1>8, <1>9, <1>10, <1>11, <1>12, <1>13, <1>14,
     <1>15, <1>16, <1>17, <1>18, <1>19, <1>20
  DEF Next, PlayerThread, TCPThread, TimeoutFires, Client

(***************************************************************************)
(* The messages under way carry the ids the client will count to, and when *)
(* it has read them all it has counted as many tricks as the server wrote  *)
(* of.                                                                     *)
(***************************************************************************)
THEOREM TricksCountedAlike == Spec => [](SeatInv /\ CountInv)
PROOF
<1>1. Init => SeatInv /\ CountInv
  BY Initially, CountInitially
<1>2. SeatInv /\ CountInv /\ [Next]_vars => (SeatInv /\ CountInv)'
  BY SeatKept, CountKept
<1>3. QED
  BY <1>1, <1>2, PTL DEF Spec

(***************************************************************************)
(* Whatever is late, lost or sent unasked, up to HandedOff, the client's   *)
(* own count of the tricks is the id of every TRICK and TAKEN by the time  *)
(* it reads it, so that it takes as many digits as the server wrote.       *)
(***************************************************************************)
THEOREM CountsTrue == Spec => []ClientCountsTricks
PROOF
<1>1. CountInv => ClientCountsTricks
  <2> SUFFICES ASSUME CountInv, client = "playing", NEW i \in DOMAIN to_client,
                      to_client[i].name \in {"TRICK", "TAKEN"}
               PROVE  to_client[i].id =
                        (IF Named(to_client, i, "DEAL") = {} THEN curr_lewa_id ELSE 1)
                            + Cardinality(SinceDeal(to_client, i))
    BY DEF ClientCountsTricks, Named, SinceDeal
  <2>1. QED
    BY DEF CountInv, Counted, Count
<1>2. QED
  BY <1>1, TricksCountedAlike, PTL

-----------------------------------------------------------------------------
(* The hand and its marks.                                                 *)

(***************************************************************************)
(* What a message that is added does to the hand the client will have.     *)
(***************************************************************************)
LEMMA MarksAppend ==
    ASSUME NEW q \in Seq(Msg), NEW m \in Msg, m.name # "DEAL", NEW cards, NEW played
    PROVE  /\ NoDeal(Append(q, m)) <=> NoDeal(q)
           /\ LastDealIs(Append(q, m), cards) <=> LastDealIs(q, cards)
           /\ Marks(Append(q, m), played) =
                Marks(q, played) \cup (IF m.name = "TAKEN" THEN m.cards ELSE {})
PROOF
<1> DEFINE p == Append(q, m)
           l == Len(q) + 1
<1>1. /\ DOMAIN p = 1 .. l /\ DOMAIN q = 1 .. l - 1 /\ l \in Nat /\ l \in 1 .. l
      /\ p[l] = m /\ \A k \in 1 .. l - 1 : p[k] = q[k] /\ k \in 1 .. l /\ k < l
      /\ \A k \in 1 .. l : k = l \/ k \in 1 .. l - 1
  OBVIOUS
<1> HIDE DEF p, l
<1>2. NoDeal(p) <=> NoDeal(q)
  BY <1>1 DEF NoDeal
<1>3. \A n : Latest(p, n) <=> Latest(q, n)
  BY <1>1 DEF Latest
<1>4. LastDealIs(p, cards) <=> LastDealIs(q, cards)
  BY <1>1, <1>3 DEF LastDealIs
<1>5. Latest(q, l)
  BY <1>1 DEF Latest
<1>6. {n \in DOMAIN p : p[n].name = "TAKEN" /\ Latest(p, n)} =
        {n \in DOMAIN q : q[n].name = "TAKEN" /\ Latest(q, n)}
            \cup (IF m.name = "TAKEN" THEN {l} ELSE {})
  BY <1>1, <1>3, <1>5
<1>7. OnItsWay(p) = OnItsWay(q) \cup (IF m.name = "TAKEN" THEN m.cards ELSE {})
  <2> DEFINE before == {n \in DOMAIN q : q[n].name = "TAKEN" /\ Latest(q, n)}
  <2>1. \A k \in before : p[k] = q[k]
    BY <1>1
  <2>2. OnItsWay(q) = UNION {q[k].cards : k \in before}
    BY DEF OnItsWay
  <2>3. OnItsWay(p) =
            UNION {p[k].cards : k \in before \cup (IF m.name = "TAKEN" THEN {l} ELSE {})}
    BY <1>6 DEF OnItsWay
  <2> HIDE DEF before
  <2>4. QED
    BY <1>1, <2>1, <2>2, <2>3
<1>8. QED
  BY <1>2, <1>4, <1>7 DEF Marks, p

(***************************************************************************)
(* After a deal there is nothing marked.                                   *)
(***************************************************************************)
LEMMA MarksDeal ==
    ASSUME NEW q \in Seq(Msg), NEW m \in Msg, m.name = "DEAL", NEW played
    PROVE  /\ ~NoDeal(Append(q, m))
           /\ LastDealIs(Append(q, m), m.cards)
           /\ Marks(Append(q, m), played) = {}
PROOF
<1> DEFINE p == Append(q, m)
           l == Len(q) + 1
<1>1. /\ DOMAIN p = 1 .. l /\ l \in Nat /\ l \in 1 .. l /\ p[l] = m
      /\ \A k \in 1 .. l : k = l \/ ~ (l < k + 1)
      /\ \A k \in 1 .. l : ~ (l < k)
  OBVIOUS
<1> HIDE DEF p, l
<1>2. ~NoDeal(p)
  BY <1>1 DEF NoDeal
<1>3. LastDealIs(p, m.cards)
  BY <1>1 DEF LastDealIs, Latest
<1>4. {n \in DOMAIN p : p[n].name = "TAKEN" /\ Latest(p, n)} = {}
  BY <1>1 DEF Latest
<1>5. OnItsWay(p) = {}
  BY <1>4 DEF OnItsWay
<1>6. QED
  BY <1>2, <1>3, <1>5 DEF Marks, p

(***************************************************************************)
(* What the first message of q does, when the client reads it: a DEAL      *)
(* takes all marks away, a TAKEN adds one.                                 *)
(***************************************************************************)
LEMMA MarksTail ==
    ASSUME NEW q \in Seq(Msg), q # << >>, NEW cards, NEW played
    PROVE  /\ LastDealIs(q, cards) => LastDealIs(Tail(q), cards)
           /\ NoDeal(q) <=> NoDeal(Tail(q)) /\ Head(q).name # "DEAL"
           /\ Head(q).name = "DEAL" =>
                /\ NoDeal(Tail(q)) /\ LastDealIs(q, cards) => Head(q).cards = cards
                /\ Marks(q, played) = Marks(Tail(q), {})
           /\ Head(q).name # "DEAL" =>
                Marks(q, played) =
                    Marks(Tail(q), played \cup
                                   (IF Head(q).name = "TAKEN" THEN Head(q).cards ELSE {}))
PROOF
<1> DEFINE t == Tail(q)
<1>1. /\ Head(q) = q[1] /\ Len(q) \in Nat /\ Len(q) > 0
      /\ DOMAIN q = 1 .. Len(q) /\ DOMAIN t = 1 .. Len(q) - 1
  <2>1. DOMAIN t = 1 .. Len(q) - 1
    OBVIOUS
  <2>2. QED
    BY <2>1, TailOfSeq
<1>2. \A k \in 1 .. Len(q) - 1 : t[k] = q[k + 1] /\ k + 1 \in 1 .. Len(q) /\ k \in Nat
  BY <1>1, TailOfSeq
<1>3. /\ \A k \in 1 .. Len(q) : k = 1 \/ (k - 1 \in 1 .. Len(q) - 1 /\ k = (k - 1) + 1)
      /\ 1 \in 1 .. Len(q)
  BY <1>1
<1> HIDE DEF t
<1>4. NoDeal(q) <=> NoDeal(t) /\ Head(q).name # "DEAL"
  <2>1. ASSUME NoDeal(q) PROVE NoDeal(t) /\ Head(q).name # "DEAL"
    BY <1>1, <1>2, <1>3, <2>1, SMTT(30) DEF NoDeal
  <2>2. ASSUME NoDeal(t), Head(q).name # "DEAL", NEW k \in 1 .. Len(q)
        PROVE  q[k].name # "DEAL"
    <3>1. CASE k = 1
      BY <1>1, <2>2, <3>1
    <3>2. CASE k - 1 \in 1 .. Len(q) - 1 /\ k = (k - 1) + 1
      <4>1. t[k - 1] = q[k] /\ k - 1 \in DOMAIN t
        BY <1>1, <1>2, <3>2
      <4>2. QED
        BY <2>2, <4>1 DEF NoDeal
    <3>3. QED
      BY <1>3, <3>1, <3>2
  <2>3. QED
    BY <1>1, <2>1, <2>2 DEF NoDeal
<1>5. ASSUME NEW n \in Nat, n > 0 PROVE Latest(q, n + 1) <=> Latest(t, n)
  <2>1. ASSUME Latest(q, n + 1), NEW d \in 1 .. Len(q) - 1, t[d].name = "DEAL" PROVE d < n
    <3>1. d + 1 < n + 1
      BY <1>1, <1>2, <2>1 DEF Latest
    <3>2. QED
      BY <1>2, <1>5, <3>1
  <2>2. ASSUME Latest(t, n), NEW d \in 1 .. Len(q), q[d].name = "DEAL" PROVE d < n + 1
    <3>1. CASE d = 1
      BY <1>5, <3>1
    <3>2. CASE d - 1 \in 1 .. Len(q) - 1 /\ d = (d - 1) + 1
      <4>1. d - 1 < n
        BY <1>1, <1>2, <2>2, <3>2 DEF Latest
      <4>2. QED
        BY <1>1, <1>5, <4>1
    <3>3. QED
      BY <1>3, <3>1, <3>2
  <2>3. QED
    BY <1>1, <2>1, <2>2 DEF Latest
<1>6. ASSUME LastDealIs(q, cards), NEW d \in DOMAIN t, t[d].name = "DEAL", Latest(t, d + 1)
      PROVE  t[d].cards = cards
  <2>1. d \in 1 .. Len(q) - 1 /\ d \in Nat /\ d + 1 \in DOMAIN q /\ t[d] = q[d + 1] /\ d + 1 > 0
    BY <1>1, <1>2, <1>6
  <2>2. Latest(q, (d + 1) + 1)
    BY <1>5, <1>6, <2>1
  <2>3. QED
    BY <1>6, <2>1, <2>2 DEF LastDealIs
<1>7. ASSUME Head(q).name = "DEAL", NoDeal(t), LastDealIs(q, cards)
      PROVE  Head(q).cards = cards
  <2>1. Latest(t, 1)
    BY <1>7 DEF NoDeal, Latest
  <2>2. Latest(q, 1 + 1)
    BY <1>5, <2>1
  <2>3. QED
    BY <1>1, <1>3, <1>7, <2>2 DEF LastDealIs
<1>8. \A c : c \in OnItsWay(t) <=>
        \E k \in 1 .. Len(q) - 1 : t[k].name = "TAKEN" /\ Latest(t, k) /\ c \in t[k].cards
  BY <1>1 DEF OnItsWay
<1>9. \A c : c \in OnItsWay(q) <=>
        \E k \in 1 .. Len(q) : q[k].name = "TAKEN" /\ Latest(q, k) /\ c \in q[k].cards
  BY <1>1 DEF OnItsWay
<1>10. \A k \in 1 .. Len(q) - 1 : Latest(q, k + 1) <=> Latest(t, k)
  <2>1. \A k \in 1 .. Len(q) - 1 : k \in Nat /\ k > 0
    BY <1>1
  <2>2. QED
    BY <1>5, <2>1
<1>11. Latest(q, 1) <=> NoDeal(q)
  <2>1. \A d \in 1 .. Len(q) : ~ (d < 1)
    BY <1>1
  <2>2. QED
    BY <1>1, <2>1 DEF Latest, NoDeal
<1>12. OnItsWay(q) = OnItsWay(t) \cup
            (IF Head(q).name = "TAKEN" /\ NoDeal(q) THEN Head(q).cards ELSE {})
  <2>1. ASSUME NEW c
        PROVE  c \in OnItsWay(q) <=>
                 \/ c \in OnItsWay(t)
                 \/ Head(q).name = "TAKEN" /\ NoDeal(q) /\ c \in Head(q).cards
    <3>1. ASSUME c \in OnItsWay(t) PROVE c \in OnItsWay(q)
      <4>1. PICK k \in 1 .. Len(q) - 1 : t[k].name = "TAKEN" /\ Latest(t, k) /\ c \in t[k].cards
        BY <1>8, <3>1
      <4>2. k + 1 \in 1 .. Len(q) /\ q[k + 1] = t[k] /\ Latest(q, k + 1)
        BY <1>2, <1>10, <4>1
      <4>3. QED
        BY <1>9, <4>1, <4>2
    <3>2. ASSUME Head(q).name = "TAKEN", NoDeal(q), c \in Head(q).cards
          PROVE  c \in OnItsWay(q)
      BY <1>1, <1>3, <1>9, <1>11, <3>2
    <3>3. ASSUME NEW k \in 1 .. Len(q), q[k].name = "TAKEN", Latest(q, k), c \in q[k].cards
          PROVE  \/ c \in OnItsWay(t)
                 \/ Head(q).name = "TAKEN" /\ NoDeal(q) /\ c \in Head(q).cards
      <4>1. CASE k = 1
        BY <1>1, <1>11, <3>3, <4>1
      <4>2. CASE k - 1 \in 1 .. Len(q) - 1 /\ k = (k - 1) + 1
        <5>1. t[k - 1] = q[k] /\ Latest(t, k - 1)
          BY <1>2, <1>10, <3>3, <4>2
        <5>2. QED
          BY <1>8, <3>3, <4>2, <5>1
      <4>3. QED
        BY <1>3, <4>1, <4>2
    <3>4. QED
      BY <1>9, <3>1, <3>2, <3>3
  <2>2. QED
    BY <2>1
<1>13. LastDealIs(q, cards) => LastDealIs(t, cards)
  BY <1>6 DEF LastDealIs
<1>14. Head(q).name = "DEAL" => Marks(q, played) = Marks(t, {})
  BY <1>4, <1>12 DEF Marks
<1>15. Head(q).name # "DEAL" =>
         Marks(q, played) =
            Marks(t, played \cup (IF Head(q).name = "TAKEN" THEN Head(q).cards ELSE {}))
  BY <1>4, <1>12 DEF Marks
<1>16. QED
  BY <1>4, <1>7, <1>13, <1>14, <1>15 DEF t

(***************************************************************************)
(* A resend brings the hand and all the marks but one that was not told.   *)
(***************************************************************************)
LEMMA MarksResent ==
    ASSUME SeatInv, tcp = "resend", command # "DEAL", NEW played
    PROVE  /\ ~NoDeal(Resent) /\ LastDealIs(Resent, hand)
           /\ Marks(Resent, played) \subseteq was_card_played
           /\ was_card_played \subseteq Marks(Resent, played) \cup Untold
PROOF
<1>1. /\ curr_lewa_nbr \in Nat \ {0} /\ DOMAIN Resent = 1 .. curr_lewa_nbr
      /\ Resent[1] = Deal(hand)
      /\ \A k \in 2 .. curr_lewa_nbr : Resent[k] = Taken(k - 1, laid[k - 1])
  <2>1. Resent \in Seq(Msg) /\ Len(Resent) = curr_lewa_nbr
    BY ResentMessages
  <2>2. DOMAIN Resent = 1 .. Len(Resent)
    BY <2>1
  <2>3. QED
    BY <2>1, <2>2, ResentMessages
<1>2. \A id, card, cards : /\ Deal(cards).name = "DEAL" /\ Deal(cards).cards = cards
                           /\ Taken(id, card).name = "TAKEN" /\ Taken(id, card).cards = {card}
  BY DEF Deal, Taken, Message
<1>3. /\ \A k \in 1 .. curr_lewa_nbr : k = 1 \/ k \in 2 .. curr_lewa_nbr
      /\ 1 \in 1 .. curr_lewa_nbr
      /\ \A k \in 2 .. curr_lewa_nbr : 1 < k /\ k \in 1 .. curr_lewa_nbr
      /\ \A k \in 2 .. curr_lewa_nbr : k - 1 \in 1 .. curr_lewa_nbr - 1
      /\ \A i \in 1 .. curr_lewa_nbr - 1 : i + 1 \in 2 .. curr_lewa_nbr /\ (i + 1) - 1 = i
  BY <1>1
<1>4. ~NoDeal(Resent) /\ LastDealIs(Resent, hand)
  BY <1>1, <1>2, <1>3 DEF NoDeal, LastDealIs
<1>5. \A k \in 2 .. curr_lewa_nbr : Latest(Resent, k)
  BY <1>1, <1>2, <1>3 DEF Latest
<1>6. {n \in DOMAIN Resent : Resent[n].name = "TAKEN" /\ Latest(Resent, n)} = 2 .. curr_lewa_nbr
  BY <1>1, <1>2, <1>3, <1>5
<1>7. OnItsWay(Resent) = UNION {Resent[k].cards : k \in 2 .. curr_lewa_nbr}
  BY <1>6 DEF OnItsWay
<1>8. OnItsWay(Resent) = {laid[i] : i \in 1 .. curr_lewa_nbr - 1}
  <2>1. \A k \in 2 .. curr_lewa_nbr : Resent[k].cards = {laid[k - 1]}
    BY <1>1, <1>2
  <2>2. OnItsWay(Resent) = UNION {{laid[k - 1]} : k \in 2 .. curr_lewa_nbr}
    BY <1>7, <2>1
  <2>3. QED
    BY <1>3, <2>2
<1>9. Marks(Resent, played) = {laid[i] : i \in 1 .. curr_lewa_nbr - 1}
  BY <1>4, <1>8 DEF Marks
<1>10. /\ was_card_played = {laid[i] : i \in 1 .. Len(laid)} /\ Len(laid) \in Nat
       /\ \/ Len(laid) = curr_lewa_nbr - 1
          \/ command = "TAKEN" /\ Len(laid) = curr_lewa_nbr
  <2>1. laid \in Seq(Card) /\ command \in Commands
    BY DEF SeatInv, TypeOK, Asking
  <2>2. DOMAIN laid = 1 .. Len(laid) /\ Len(laid) \in Nat
    BY <2>1
  <2>3. QED
    BY <2>1, <2>2 DEF SeatInv, MarksAreLaid, InStep, Commands
<1>11. \A i \in 1 .. curr_lewa_nbr : i = curr_lewa_nbr \/ i \in 1 .. curr_lewa_nbr - 1
  BY <1>1
<1>12. \A i \in 1 .. curr_lewa_nbr - 1 : i \in 1 .. curr_lewa_nbr
  BY <1>1
<1>13. QED
  BY <1>4, <1>9, <1>10, <1>11, <1>12 DEF Untold

-----------------------------------------------------------------------------
(***************************************************************************)
(* Nothing has been marked when the conversation begins.                   *)
(***************************************************************************)
LEMMA MarksInitially == Init => MarksInv
PROOF
  BY DEF Init, MarksInv, WrittenTo

(***************************************************************************)
(* What has to be shown of a step after which the client has the same or   *)
(* more to read.                                                           *)
(***************************************************************************)
LEMMA MarksGrow ==
    ASSUME MarksInv, UNCHANGED <<my_hand, my_played, hand>>, WrittenTo' => WrittenTo,
           NoDeal(to_client') => NoDeal(to_client),
           LastDealIs(to_client, hand) => LastDealIs(to_client', hand),
           Marks(to_client, my_played) \subseteq Marks(to_client', my_played),
           was_card_played' \subseteq was_card_played \cup Untold',
           Untold \subseteq Untold' \cup Marks(to_client', my_played)
    PROVE  MarksInv'
PROOF
<1>1. ASSUME WrittenTo'
      PROVE  /\ NoDeal(to_client') => my_hand' = hand'
             /\ LastDealIs(to_client', hand')
             /\ was_card_played' \subseteq Marks(to_client', my_played') \cup Untold'
  <2>1. /\ NoDeal(to_client) => my_hand = hand
        /\ LastDealIs(to_client, hand)
        /\ was_card_played \subseteq Marks(to_client, my_played) \cup Untold
    BY <1>1 DEF MarksInv
  <2>2. my_hand' = my_hand /\ hand' = hand /\ my_played' = my_played
    OBVIOUS
  <2>3. was_card_played' \subseteq Marks(to_client', my_played) \cup Untold'
    BY <2>1
  <2>4. QED
    BY <2>1, <2>2, <2>3
<1>2. QED
  BY <1>1 DEF MarksInv

(***************************************************************************)
(* A step that writes and reads nothing loses no mark.                     *)
(***************************************************************************)
LEMMA MarksSilent ==
    ASSUME MarksInv, UNCHANGED <<to_client, my_hand, my_played, hand, was_card_played>>,
           WrittenTo' => WrittenTo, Untold \subseteq Untold'
    PROVE  MarksInv'
PROOF
<1>1. /\ to_client' = to_client /\ my_hand' = my_hand /\ my_played' = my_played
      /\ hand' = hand /\ was_card_played' = was_card_played
  OBVIOUS
<1>2. QED
  BY <1>1, MarksGrow

(***************************************************************************)
(* A message that is written carries the marks it must.                    *)
(***************************************************************************)
LEMMA MarksWrites ==
    ASSUME SeatInv, MarksInv, NEW m \in Msg, m.name # "DEAL",
           to_client' = Append(to_client, m),
           UNCHANGED <<my_hand, my_played, hand, was_card_played>>, WrittenTo' => WrittenTo,
           Untold \subseteq Untold' \cup (IF m.name = "TAKEN" THEN m.cards ELSE {})
    PROVE  MarksInv'
PROOF
<1>1. to_client \in Seq(Msg)
  BY DEF SeatInv
<1>2. /\ NoDeal(to_client') <=> NoDeal(to_client)
      /\ LastDealIs(to_client', hand) <=> LastDealIs(to_client, hand)
      /\ Marks(to_client', my_played) =
            Marks(to_client, my_played) \cup (IF m.name = "TAKEN" THEN m.cards ELSE {})
  BY <1>1, MarksAppend
<1>3. was_card_played' = was_card_played
  OBVIOUS
<1>4. QED
  BY <1>2, <1>3, MarksGrow

(***************************************************************************)
(* A message other than DEAL that is read leaves its marks.                *)
(***************************************************************************)
LEMMA MarksReads ==
    ASSUME SeatInv, MarksInv, NEW name, name # "DEAL", Read(name),
           client' \in {"playing", "failed"}, my_hand' = my_hand, my_played \subseteq my_played',
           name = "TAKEN" /\ my_hand = hand => Head(to_client).cards \cap hand \subseteq my_played'
    PROVE  MarksInv'
PROOF
<1>1. /\ to_client \in Seq(Msg) /\ to_client # << >> /\ Head(to_client).name = name
      /\ to_client' = Tail(to_client) /\ client = "playing"
      /\ UNCHANGED <<hand, was_card_played, laid, tcp, command, curr_lewa_nbr>>
  BY DEF SeatInv, Read, Received, thread, game, player, conn
<1>2. SUFFICES ASSUME WrittenTo'
               PROVE  /\ NoDeal(to_client') => my_hand' = hand
                      /\ LastDealIs(to_client', hand)
                      /\ was_card_played \subseteq Marks(to_client', my_played') \cup Untold
  BY <1>1 DEF MarksInv, Untold
<1>3. /\ NoDeal(to_client) => my_hand = hand
      /\ LastDealIs(to_client, hand)
      /\ was_card_played \subseteq Marks(to_client, my_played) \cup Untold
  BY <1>1, <1>2 DEF MarksInv, WrittenTo
<1> DEFINE told == IF name = "TAKEN" THEN Head(to_client).cards ELSE {}
<1>4. /\ LastDealIs(to_client', hand)
      /\ NoDeal(to_client') <=> NoDeal(to_client)
      /\ Marks(to_client, my_played) = Marks(to_client', my_played \cup told)
  BY <1>1, <1>3, MarksTail
<1>5. was_card_played \subseteq hand
  BY DEF SeatInv, HandDealt
<1>6. was_card_played \subseteq Marks(to_client', my_played') \cup Untold
  <2>1. NoDeal(to_client') => told \cap hand \subseteq my_played'
    BY <1>3, <1>4
  <2>2. was_card_played \subseteq
            ((IF NoDeal(to_client') THEN my_played \cup told ELSE {}) \cup OnItsWay(to_client'))
                \cup Untold
    BY <1>3, <1>4 DEF Marks
  <2> HIDE DEF told
  <2>3. QED
    BY <1>5, <2>1, <2>2 DEF Marks
<1>7. QED
  BY <1>3, <1>4, <1>6

(***************************************************************************)
(* Every step keeps the marks on their way.                                *)
(***************************************************************************)
LEMMA MarksKept ==
    ASSUME SeatInv, CountInv, MarksInv, [Next]_vars
    PROVE  MarksInv'
PROOF
<1>0. /\ to_client \in Seq(Msg) /\ TypeOK /\ Asking /\ InStep
      /\ curr_lewa_nbr \in Nat \ {0} /\ led \in Led
  BY DEF SeatInv, TypeOK
<1>1. CASE \/ SendCommand \/ Collect \/ LastRoundOver \/ PollSocket \/ SendJunk \/ Stopped
           \/ UNCHANGED vars
  <2>1. /\ UNCHANGED <<to_client, my_hand, my_played, hand, was_card_played, client, laid,
                       curr_lewa_nbr>>
        /\ tcp' = tcp \/ (tcp = "poll" /\ tcp' = "unasked")
        /\ command' = command \/ (command = "nextround" /\ command' = "END")
    BY <1>1 DEF SendCommand, Collect, LastRoundOver, PollSocket, SendJunk, Stopped, vars,
         thread, game, player, conn, clientVars, trouble
  <2>2. QED
    BY <2>1, MarksSilent DEF WrittenTo, Untold
<1>2. CASE PrepareNewLewa
  <2>1. /\ UNCHANGED <<to_client, my_hand, my_played, hand, was_card_played, client, tcp>>
        /\ command = "newlewa" /\ command' \in {"TRICK", "SCORE"}
    BY <1>2 DEF PrepareNewLewa, player, conn, clientVars
  <2>2. QED
    BY <2>1, MarksSilent DEF WrittenTo, Untold
<1>3. CASE PrepareNewRound
  <2>1. command' = "DEAL" \/ tcp' = "none"
    BY <1>3 DEF PrepareNewRound
  <2>2. QED
    BY <2>1 DEF MarksInv, WrittenTo
<1>4. CASE HandleEnd \/ EndUnserved \/ RejectMessage \/ UnaskedTimesOut \/ NoticeLoss
  <2>1. tcp' = "none"
    BY <1>4 DEF HandleEnd, EndUnserved, RejectMessage, UnaskedTimesOut, NoticeLoss, Disconnect, conn
  <2>2. QED
    BY <2>1 DEF MarksInv, WrittenTo
<1>5. CASE HandleDeal
  <2> DEFINE m == Deal(Hands[round_number])
  <2>1. /\ to_client' = Append(to_client, m)
        /\ hand' = Hands[round_number] /\ was_card_played' = {}
    BY <1>5 DEF HandleDeal, Tell
  <2>2. m \in Msg /\ m.name = "DEAL" /\ m.cards = Hands[round_number]
    BY <1>0, HandsAreCards DEF TypeOK, Deal, Message, Msg, MsgNames, Led
  <2>3. ~NoDeal(to_client') /\ LastDealIs(to_client', hand')
    <3> HIDE DEF m
    <3>1. QED
      BY <1>0, <2>1, <2>2, MarksDeal
  <2>4. QED
    BY <2>1, <2>3 DEF MarksInv
<1>6. CASE HandleTaken
  <2> DEFINE m == Taken(curr_lewa_nbr, laid[curr_lewa_nbr])
  <2>1. /\ to_client' = Append(to_client, m)
        /\ UNCHANGED <<my_hand, my_played, hand, was_card_played, client>>
        /\ tcp = "poll" /\ command = "TAKEN" /\ command' = "newlewa"
    BY <1>6 DEF HandleTaken, Tell, Told, Served, clientVars, player
  <2>2. m \in Msg /\ m.name = "TAKEN" /\ m.cards = {laid[curr_lewa_nbr]}
    <3>1. laid[curr_lewa_nbr] \in Card
      BY <1>0, <2>1 DEF InStep, TypeOK
    <3>2. QED
      BY <1>0, <3>1 DEF Taken, Message, Msg, MsgNames, Led
  <2>3. Untold \subseteq m.cards /\ (WrittenTo' => WrittenTo)
    BY <2>1, <2>2 DEF Untold, WrittenTo
  <2> HIDE DEF m
  <2>4. QED
    BY <2>1, <2>2, <2>3, MarksWrites
<1>7. CASE HandleScore \/ HandleTotal
  <2>1. PICK name \in {"SCORE", "TOTAL"} : to_client' = Append(to_client, Plain(name))
    BY <1>7 DEF HandleScore, HandleTotal, Tell
  <2>2. /\ UNCHANGED <<my_hand, my_played, hand, was_card_played, client>>
        /\ tcp = "poll" /\ command \in {"SCORE", "TOTAL"}
    BY <1>7 DEF HandleScore, HandleTotal, Tell, Told, clientVars, player
  <2>3. Plain(name) \in Msg /\ Plain(name).name \notin {"DEAL", "TAKEN"}
    BY DEF Plain, Message, Msg, MsgNames, Led
  <2>4. Untold = {} /\ (WrittenTo' => WrittenTo)
    BY <2>2 DEF Untold, WrittenTo
  <2>5. QED
    BY <2>1, <2>2, <2>3, <2>4, MarksWrites
<1>8. CASE AskForCard \/ TimeoutInTrick
  <2>1. /\ to_client' = Append(to_client, Ask)
        /\ UNCHANGED <<my_hand, my_played, hand, was_card_played, client>>
        /\ tcp \in {"poll", "TRICK"} /\ command = "TRICK"
    BY <1>0, <1>8 DEF AskForCard, TimeoutInTrick, Told, Asking, clientVars, player
  <2>2. Ask \in Msg /\ Ask.name \notin {"DEAL", "TAKEN"}
    BY <1>0 DEF Ask, Trick, Message, Msg, MsgNames
  <2>3. Untold = {} /\ (WrittenTo' => WrittenTo)
    BY <2>1 DEF Untold, WrittenTo
  <2>4. QED
    BY <2>1, <2>2, <2>3, MarksWrites
<1>9. CASE AcceptCard
  <2>1. PICK card : laid' = Append(laid, card) /\ was_card_played' = was_card_played \cup {card}
                    /\ card \in hand
    BY <1>9 DEF AcceptCard, Acceptable, CardCorrect
  <2>2. /\ UNCHANGED <<to_client, my_hand, my_played, hand, client, curr_lewa_nbr>>
        /\ tcp = "TRICK" /\ command = "TRICK" /\ command' = "TAKEN"
    BY <1>0, <1>9 DEF AcceptCard, Served, Asking, clientVars
  <2>3. Untold' = {card} /\ Untold = {}
    <3>1. laid'[curr_lewa_nbr] = card
      BY <1>0, <2>1, <2>2 DEF InStep, TypeOK
    <3>2. QED
      BY <2>2, <3>1 DEF Untold
  <2>4. WrittenTo' => WrittenTo
    BY <2>2 DEF WrittenTo
  <2>5. QED
    BY <2>1, <2>2, <2>3, <2>4, MarksGrow
<1>10. CASE RefuseCard
  <2> DEFINE w == Wrong(curr_lewa_nbr)
             q == to_client
             r == Append(q, w)
  <2>1. /\ to_client' = q \o <<w, Ask>>
        /\ UNCHANGED <<my_hand, my_played, hand, was_card_played, client, command, tcp, laid,
                       curr_lewa_nbr>>
    BY <1>10 DEF RefuseCard, clientVars, game, thread, conn, player
  <2>2. /\ w \in Msg /\ w.name = "WRONG" /\ Ask \in Msg /\ Ask.name = "TRICK"
    BY <1>0 DEF Wrong, Ask, Trick, Message, Msg, MsgNames, Led
  <2>3. r \in Seq(Msg) /\ to_client' = Append(r, Ask)
    BY <1>0, <2>1, <2>2, AppendTwo
  <2>4. /\ NoDeal(r) <=> NoDeal(q)
        /\ LastDealIs(r, hand) <=> LastDealIs(q, hand)
        /\ Marks(r, my_played) = Marks(q, my_played)
    <3>1. /\ w.name # "DEAL" /\ w.name # "TAKEN" /\ w \in Msg /\ q \in Seq(Msg)
      BY <1>0, <2>2
    <3> HIDE DEF w, q
    <3>2. Marks(r, my_played) =
            Marks(q, my_played) \cup (IF w.name = "TAKEN" THEN w.cards ELSE {})
      BY <3>1, MarksAppend
    <3>3. QED
      BY <3>1, <3>2, MarksAppend
  <2>5. /\ NoDeal(to_client') <=> NoDeal(r)
        /\ LastDealIs(to_client', hand) <=> LastDealIs(r, hand)
        /\ Marks(to_client', my_played) = Marks(r, my_played)
    <3>1. Ask.name # "DEAL" /\ Ask.name # "TAKEN" /\ Ask \in Msg /\ r \in Seq(Msg)
      BY <2>2, <2>3
    <3> HIDE DEF r
    <3>2. /\ NoDeal(Append(r, Ask)) <=> NoDeal(r)
          /\ LastDealIs(Append(r, Ask), hand) <=> LastDealIs(r, hand)
          /\ Marks(Append(r, Ask), my_played) =
                Marks(r, my_played) \cup (IF Ask.name = "TAKEN" THEN Ask.cards ELSE {})
      BY <3>1, MarksAppend
    <3>3. QED
      BY <2>3, <3>1, <3>2
  <2>6. WrittenTo' = WrittenTo /\ Untold' = Untold
    BY <2>1 DEF WrittenTo, Untold
  <2>7. was_card_played' = was_card_played
    BY <2>1
  <2>8. QED
    BY <2>1, <2>4, <2>5, <2>6, <2>7, MarksGrow
<1>11. CASE AnswerUnasked
  <2>1. CASE curr_lewa_nbr <= NumTricks
    <3>1. /\ to_client' = Append(to_client, Wrong(curr_lewa_nbr)) /\ tcp = "unasked"
          /\ UNCHANGED <<my_hand, my_played, hand, was_card_played, client, command, laid,
                         curr_lewa_nbr>>
      BY <1>11, <2>1 DEF AnswerUnasked, clientVars, game, player
    <3>2. Wrong(curr_lewa_nbr) \in Msg /\ Wrong(curr_lewa_nbr).name = "WRONG"
      BY <1>0 DEF Wrong, Message, Msg, MsgNames, Led
    <3>3. (WrittenTo' => WrittenTo) /\ Untold' = Untold
      BY <3>1 DEF WrittenTo, Untold
    <3>4. QED
      BY <3>1, <3>2, <3>3, MarksWrites
  <2>2. CASE ~(curr_lewa_nbr <= NumTricks)
    <3>1. tcp' = "none"
      BY <1>11, <2>2 DEF AnswerUnasked
    <3>2. QED
      BY <3>1 DEF MarksInv, WrittenTo
  <2>3. QED
    BY <2>1, <2>2
<1>12. CASE Resend
  <2>1. /\ to_client' = Resent /\ tcp = "resend"
        /\ UNCHANGED <<my_played, hand, was_card_played, command, laid, curr_lewa_nbr>>
    BY <1>12 DEF Resend, Resent, thread, game, player, clientVars
  <2>2. Untold' = Untold /\ (WrittenTo' => command # "DEAL")
    BY <2>1 DEF Untold, WrittenTo
  <2>3. command # "DEAL" =>
            /\ ~NoDeal(Resent) /\ LastDealIs(Resent, hand)
            /\ was_card_played \subseteq Marks(Resent, my_played) \cup Untold
    BY <2>1, MarksResent
  <2>4. QED
    BY <2>1, <2>2, <2>3 DEF MarksInv
<1>13. CASE ReadDeal
  <2>1. /\ to_client # << >> /\ Head(to_client).name = "DEAL" /\ client = "playing"
        /\ to_client' = Tail(to_client)
        /\ my_hand' = Head(to_client).cards /\ my_played' = {}
        /\ UNCHANGED <<hand, was_card_played, laid, tcp, command, curr_lewa_nbr, client>>
    BY <1>13 DEF ReadDeal, Read, Received, thread, game, player, conn
  <2>2. SUFFICES ASSUME WrittenTo'
                 PROVE  /\ NoDeal(to_client') => my_hand' = hand
                        /\ LastDealIs(to_client', hand)
                        /\ was_card_played \subseteq Marks(to_client', {}) \cup Untold
    BY <2>1 DEF MarksInv, Untold
  <2>3. /\ LastDealIs(to_client, hand)
        /\ was_card_played \subseteq Marks(to_client, my_played) \cup Untold
    BY <2>1, <2>2 DEF MarksInv, WrittenTo
  <2>4. QED
    BY <1>0, <2>1, <2>3, MarksTail
<1>14. CASE ReadTrick
  <2>1. Read("TRICK") /\ my_hand' = my_hand /\ client' = "playing" /\ my_played \subseteq my_played'
    BY <1>14 DEF ReadTrick, Read, Received
  <2>2. QED
    BY <2>1, MarksReads
<1>15. CASE ReadTaken
  <2>1. Readable(Head(to_client).id, curr_lewa_id)
    BY <1>15, TakenReadable DEF ReadTaken, Read
  <2>2. /\ Read("TAKEN") /\ my_hand' = my_hand /\ client' = "playing"
        /\ my_played' = my_played \cup (Head(to_client).cards \cap my_hand)
    BY <1>15, <2>1 DEF ReadTaken, Read, Received
  <2>3. QED
    BY <2>2, MarksReads
<1>16. CASE ReadWrong
  <2>1. /\ Read("WRONG") /\ my_hand' = my_hand /\ client' \in {"playing", "failed"}
        /\ my_played' = my_played
    BY <1>16 DEF ReadWrong, Read, Received
  <2>2. QED
    BY <2>1, MarksReads
<1>17. CASE ReadPoints
  <2>1. PICK name \in {"SCORE", "TOTAL"} : Read(name)
    BY <1>17 DEF ReadPoints
  <2>2. my_hand' = my_hand /\ client' = "playing" /\ my_played' = my_played
    BY <1>17, <2>1 DEF ReadPoints, Read, Received
  <2>3. QED
    BY <2>1, <2>2, MarksReads
<1>18. CASE ReadEnd \/ CloseClient
  <2>1. client' \in {"finished", "failed", "gone"}
    BY <1>18 DEF ReadEnd, CloseClient
  <2>2. QED
    BY <2>1 DEF MarksInv, WrittenTo
<1>19. CASE Replace
  <2>1. tcp' = "resend"
    BY <1>19 DEF Replace
  <2>2. QED
    BY <2>1 DEF MarksInv, WrittenTo
<1>20. QED
  BY <1>1, <1>2, <1>3, <1>4, <1>5, <1>6, <1>7, <1>8, <1>9, <1>10, <1>11, <1>12, <1>13, <1>14,
     <1>15, <1>16, <1>17, <1>18, <1>19
  DEF Next, PlayerThread, TCPThread, TimeoutFires, Client

(***************************************************************************)
(* The deals and TAKENs on their way leave the client with the hand it was *)
(* dealt and with every mark the server made, but of the card that is not  *)
(* in a TAKEN yet.                                                         *)
(***************************************************************************)
THEOREM MarksFollow == Spec => [](SeatInv /\ CountInv /\ MarksInv)
PROOF
<1>1. Init => SeatInv /\ CountInv /\ MarksInv
  BY Initially, CountInitially, MarksInitially
<1>2. SeatInv /\ CountInv /\ MarksInv /\ [Next]_vars => (SeatInv /\ CountInv /\ MarksInv)'
  BY SeatKept, CountKept, MarksKept
<1>3. QED
  BY <1>1, <1>2, PTL DEF Spec

(***************************************************************************)
(* Whatever is late, lost or sent unasked, up to HandedOff, every card the *)
(* server has marked as played is marked by the client too, or lies on the *)
(* table, or is in a TAKEN on its way.                                     *)
(***************************************************************************)
THEOREM MarksReach == Spec => []MarksReachClient
PROOF
<1>1. SeatInv /\ MarksInv => MarksReachClient
  <2> DEFINE deals == {k \in DOMAIN to_client : to_client[k].name = "DEAL"}
             on_its_way == UNION {to_client[k].cards : k \in
                {n \in DOMAIN to_client : /\ to_client[n].name = "TAKEN"
                                          /\ \A d \in deals : d < n}}
             on_table == {laid[i] : i \in {n \in DOMAIN laid : n = curr_lewa_nbr}}
  <2> SUFFICES ASSUME SeatInv, MarksInv, WrittenTo
               PROVE  was_card_played \subseteq
                        (IF deals = {} THEN my_played ELSE {}) \cup on_its_way \cup on_table
    BY DEF MarksReachClient, WrittenTo
  <2>1. was_card_played \subseteq Marks(to_client, my_played) \cup Untold
    BY DEF MarksInv
  <2>2. NoDeal(to_client) <=> deals = {}
    BY DEF NoDeal
  <2>3. OnItsWay(to_client) = on_its_way
    <3>1. \A n : Latest(to_client, n) <=> \A d \in deals : d < n
      BY DEF Latest
    <3> HIDE DEF deals
    <3>2. QED
      BY <3>1 DEF OnItsWay
  <2>4. Untold \subseteq on_table
    <3>1. command = "TAKEN" => curr_lewa_nbr \in DOMAIN laid
      BY DEF SeatInv, TypeOK, InStep
    <3>2. QED
      BY <3>1 DEF Untold
  <2> HIDE DEF deals, on_its_way, on_table
  <2>5. QED
    BY <2>1, <2>2, <2>3, <2>4 DEF Marks
<1>2. QED
  BY <1>1, MarksFollow, PTL

-----------------------------------------------------------------------------
(* While nothing was late and nothing unasked.                             *)

(***************************************************************************)
(* Every trick finds a card in the hand: a hand has as many cards as a     *)
(* round has tricks.                                                       *)
(***************************************************************************)
LEMMA CardsLeft ==
    ASSUME SeatInv, command = "TRICK"
    PROVE  hand \ was_card_played # {}
PROOF
<1>1. /\ laid \in Seq(Card) /\ Len(laid) = curr_lewa_nbr - 1
      /\ curr_lewa_nbr \in Nat /\ curr_lewa_nbr <= NumTricks /\ NumTricks \in Nat
      /\ was_card_played = {laid[i] : i \in DOMAIN laid}
  BY ExchangeAssumption DEF SeatInv, TypeOK, InStep, MarksAreLaid
<1>2. IsFiniteSet(hand) /\ Cardinality(hand) = NumTricks
  BY ExchangeAssumption DEF SeatInv, HandDealt
<1>3. /\ DOMAIN laid = 1 .. Len(laid) /\ Len(laid) \in Nat
      /\ laid \in [1 .. Len(laid) -> was_card_played]
  BY <1>1
<1>4. IsFiniteSet(1 .. Len(laid)) /\ Cardinality(1 .. Len(laid)) = Len(laid)
  <2>1. \A n \in Nat : /\ IsFiniteSet(1 .. n)
                       /\ Cardinality(1 .. n) = IF 1 > n THEN 0 ELSE n - 1 + 1
    BY FS_Interval
  <2>2. QED
    BY <1>3, <2>1
<1>5. laid \in Surjection(1 .. Len(laid), was_card_played)
  BY <1>1, <1>3 DEF Surjection
<1>6. IsFiniteSet(was_card_played) /\ Cardinality(was_card_played) <= Len(laid)
  BY <1>4, <1>5, FS_Surjection
<1>7. ASSUME hand \ was_card_played = {} PROVE FALSE
  <2>1. hand \in SUBSET was_card_played
    BY <1>7
  <2>2. Cardinality(hand) <= Cardinality(was_card_played)
    BY <1>6, <2>1, FS_Subset
  <2>3. Cardinality(was_card_played) \in Nat
    BY <1>6, FS_CardinalityType
  <2>4. QED
    BY <1>1, <1>2, <1>6, <2>2, <2>3
<1>8. QED
  BY <1>7

Heard == SeatInv /\ CountInv /\ MarksInv

PromptState == Prompt /\ AskedOnce /\ AnsweredOnce /\ MarksLaid /\ StillServed

(***************************************************************************)
(* Nobody becomes prompt again.                                            *)
(***************************************************************************)
LEMMA PromptBefore ==
    ASSUME SeatInv, [Next]_vars, Prompt'
    PROVE  Prompt /\ late' = late /\ junk' = junk
PROOF
<1>1. late \in Nat /\ junk \in Nat
  BY DEF SeatInv, TypeOK
<1>2. late' \in {late, late + 1} /\ junk' \in {junk, junk + 1}
  BY DEF Next, PlayerThread, TCPThread, TimeoutFires, Client, SendCommand, Collect,
     EndUnserved, PrepareNewLewa, PrepareNewRound, LastRoundOver, Replace, HandleDeal, HandleTaken, HandleScore, HandleTotal,
     Tell, HandleEnd, AskForCard, TimeoutInTrick, TimeOutCounted, AcceptCard, RefuseCard,
     AnswerUnasked, RejectMessage, UnaskedTimesOut, PollSocket, Resend, NoticeLoss, ReadDeal,
     ReadTrick, ReadTaken, ReadWrong, ReadPoints, Read, ReadEnd, SendJunk, CloseClient, Stopped,
     vars, trouble
<1>3. QED
  BY <1>1, <1>2 DEF Prompt

(***************************************************************************)
(* A message that waits for the server was asked for and will be accepted. *)
(***************************************************************************)
LEMMA AnswerWaits ==
    ASSUME SeatInv, PromptState, to_server # << >>
    PROVE  /\ tcp = "TRICK" /\ command = "TRICK"
           /\ Parsed(Head(to_server)) /\ Acceptable(Head(to_server))
           /\ Tail(to_server) = << >> /\ Offered = Head(to_server).cards
PROOF
<1>1. PICK card \in hand :
            /\ tcp = "TRICK" /\ to_server = <<Answer(curr_lewa_nbr, {card})>>
            /\ CardCorrect(hand \ was_card_played, card, IF led = NONE_SUIT THEN card.suit ELSE led)
  BY DEF PromptState, AnsweredOnce
<1>2. Head(to_server) = Answer(curr_lewa_nbr, {card}) /\ Tail(to_server) = << >>
  BY <1>1
<1>3. /\ Answer(curr_lewa_nbr, {card}).name = "TRICK"
      /\ Answer(curr_lewa_nbr, {card}).id = curr_lewa_nbr
      /\ Answer(curr_lewa_nbr, {card}).cards = {card}
  BY DEF Answer, Message
<1>4. Parsed(Head(to_server)) /\ Acceptable(Head(to_server))
  BY <1>1, <1>2, <1>3 DEF Parsed, Readable, Acceptable
<1>5. QED
  BY <1>1, <1>2, <1>4 DEF SeatInv, Asking, Offered

(***************************************************************************)
(* A client that reads TRICK has read everything else, and has then the    *)
(* cards the server thinks it has.                                         *)
(***************************************************************************)
LEMMA TrickReady ==
    ASSUME Heard, PromptState, Received("TRICK")
    PROVE  /\ tcp = "TRICK" /\ command = "TRICK" /\ to_server = << >>
           /\ Head(to_client) = Ask /\ Tail(to_client) = << >>
           /\ MyLeft = hand \ was_card_played /\ MyLeft # {} /\ MyLeft \subseteq Card
           /\ my_played = was_card_played
PROOF
<1>1. /\ to_client \in Seq(Msg) /\ to_client # << >> /\ Head(to_client).name = "TRICK"
      /\ client = "playing" /\ Asking /\ TypeOK
  BY DEF Heard, SeatInv, Received
<1>2. 1 \in DOMAIN to_client /\ to_client[1] = Head(to_client) /\ DOMAIN to_client = 1 .. Len(to_client)
  BY <1>1
<1>3. Len(to_client) = 1 /\ tcp = "TRICK" /\ to_server = << >> /\ Head(to_client) = Ask
  BY <1>1, <1>2 DEF PromptState, AskedOnce
<1>4. Tail(to_client) = << >>
  BY <1>1, <1>3, TailOfOne
<1>5. command = "TRICK" /\ WrittenTo
  BY <1>1, <1>3 DEF Asking, WrittenTo
<1>6. NoDeal(to_client)
  BY <1>1, <1>2, <1>3 DEF NoDeal
<1>7. OnItsWay(to_client) = {}
  <2>1. {n \in DOMAIN to_client : to_client[n].name = "TAKEN" /\ Latest(to_client, n)} = {}
    BY <1>1, <1>2, <1>3
  <2>2. QED
    BY <2>1 DEF OnItsWay
<1>8. Marks(to_client, my_played) = my_played
  BY <1>6, <1>7 DEF Marks
<1>9. my_played = was_card_played
  <2>1. was_card_played \subseteq my_played
    BY <1>5, <1>8 DEF Heard, MarksInv, Untold
  <2>2. my_played \subseteq was_card_played
    BY <1>3, <1>5, <1>8 DEF PromptState, MarksLaid, Offered
  <2>3. QED
    BY <2>1, <2>2
<1>10. my_hand = hand
  BY <1>5, <1>6 DEF Heard, MarksInv
<1>11. MyLeft # {}
  BY <1>5, <1>9, <1>10, CardsLeft DEF Heard, MyLeft
<1>12. MyLeft \subseteq Card
  BY <1>1, <1>10 DEF MyLeft, TypeOK
<1>13. QED
  BY <1>3, <1>4, <1>5, <1>9, <1>10, <1>11, <1>12 DEF MyLeft

(***************************************************************************)
(* What does not happen: no TRICK is repeated or refused, nothing is read  *)
(* at the wrong time, no read times out for nothing, no WRONG is read.     *)
(***************************************************************************)
LEMMA NoTrouble ==
    ASSUME SeatInv, PromptState, [Next]_vars, Prompt'
    PROVE  ~ \/ TimeoutInTrick \/ RefuseCard \/ AnswerUnasked \/ RejectMessage
             \/ UnaskedTimesOut \/ PollSocket \/ ReadWrong \/ SendJunk
PROOF
<1>1. ~TimeoutInTrick
  <2>1. SUFFICES ASSUME TimeoutInTrick PROVE FALSE
    OBVIOUS
  <2>2. late' = late /\ late \in Nat
    BY PromptBefore DEF SeatInv, TypeOK
  <2>3. to_client = << >> /\ to_server = << >> /\ tcp = "TRICK" /\ client = "playing"
    BY <2>1, <2>2 DEF TimeoutInTrick, TimeOutCounted, SocketReadable
  <2>4. QED
    BY <2>3 DEF PromptState, AskedOnce
<1>2. ~RefuseCard /\ ~RejectMessage
  BY AnswerWaits DEF RefuseCard, RejectMessage, SocketReadable
<1>3. ~AnswerUnasked /\ ~UnaskedTimesOut
  BY DEF AnswerUnasked, UnaskedTimesOut, PromptState, StillServed
<1>4. ~PollSocket
  BY AnswerWaits DEF PollSocket, SocketReadable
<1>5. ~ReadWrong
  <2>1. SUFFICES ASSUME Received("WRONG") PROVE FALSE
    BY DEF ReadWrong, Read
  <2>2. to_client \in Seq(Msg) /\ to_client # << >>
    BY <2>1 DEF SeatInv, Received
  <2>3. 1 \in DOMAIN to_client /\ to_client[1] = Head(to_client)
    BY <2>2
  <2>4. QED
    BY <2>1, <2>3 DEF PromptState, AskedOnce, Received
<1>6. ~SendJunk
  <2>1. junk' = junk /\ junk \in Nat
    BY PromptBefore DEF SeatInv, TypeOK
  <2>2. QED
    BY <2>1 DEF SendJunk
<1>7. QED
  BY <1>1, <1>2, <1>3, <1>4, <1>5, <1>6

NotAsked(q) == \A i \in DOMAIN q : q[i].name \notin {"TRICK", "WRONG"}

(***************************************************************************)
(* Unless handle_TRICK is served, no TRICK, WRONG or answer is under way.  *)
(***************************************************************************)
LEMMA NothingAsked ==
    ASSUME SeatInv, PromptState, tcp # "TRICK"
    PROVE  to_server = << >> /\ Offered = {} /\ (client = "playing" => NotAsked(to_client))
PROOF
<1>1. to_server = << >>
  BY AnswerWaits
<1>2. client = "playing" => NotAsked(to_client)
  BY DEF PromptState, AskedOnce, NotAsked
<1>3. QED
  BY <1>1, <1>2 DEF Offered

(***************************************************************************)
(* A message that asks nothing may follow.                                 *)
(***************************************************************************)
LEMMA NotAskedAppend ==
    ASSUME NEW q \in Seq(Msg), NEW m \in Msg, m.name \notin {"TRICK", "WRONG"}, NotAsked(q)
    PROVE  NotAsked(Append(q, m))
PROOF
<1>1. /\ DOMAIN Append(q, m) = 1 .. Len(q) + 1 /\ DOMAIN q = 1 .. Len(q)
      /\ \A i \in 1 .. Len(q) : Append(q, m)[i] = q[i]
      /\ Append(q, m)[Len(q) + 1] = m
      /\ \A i \in 1 .. Len(q) + 1 : i = Len(q) + 1 \/ i \in 1 .. Len(q)
  OBVIOUS
<1>2. QED
  BY <1>1 DEF NotAsked

(***************************************************************************)
(* Where nothing is asked there is nothing to answer.                      *)
(***************************************************************************)
LEMMA QuietAfter ==
    ASSUME tcp' # "TRICK", to_server' = << >>, client' = "playing" => NotAsked(to_client')
    PROVE  AskedOnce' /\ AnsweredOnce' /\ Offered' = {}
PROOF
  BY DEF AskedOnce, AnsweredOnce, Offered, NotAsked

(***************************************************************************)
(* Nobody is late when the conversation begins.                            *)
(***************************************************************************)
LEMMA PromptInitially == Init => PromptInv
PROOF
<1>1. DOMAIN << >> = {}
  OBVIOUS
<1>2. QED
  BY <1>1 DEF Init, PromptInv, AskedOnce, AnsweredOnce, MarksLaid, WrittenTo, StillServed

(***************************************************************************)
(* A command that is served while nothing is asked.                        *)
(***************************************************************************)
LEMMA PromptTold ==
    ASSUME SeatInv, PromptState, NEW name \in Commands \ {"TRICK", "END"}, NEW m \in Msg, NEW next,
           Tell(name, m, next), m.name \notin {"TRICK", "WRONG"}
    PROVE  AskedOnce' /\ AnsweredOnce' /\ Offered' = {} /\ StillServed'
PROOF
<1>1. /\ tcp = "poll" /\ command = name /\ to_client' = Append(to_client, m)
      /\ UNCHANGED <<client, to_server, revents>>
      /\ tcp' = IF SocketReadable THEN "unasked" ELSE "poll"
  BY DEF Tell, Told, Served, clientVars
<1>2. to_server = << >> /\ (client = "playing" => NotAsked(to_client))
  BY <1>1, NothingAsked
<1>3. tcp' = "poll"
  BY <1>1, <1>2 DEF SocketReadable
<1>4. client = "playing" => NotAsked(to_client')
  BY <1>1, <1>2, NotAskedAppend DEF SeatInv
<1>5. AskedOnce' /\ AnsweredOnce' /\ Offered' = {}
  BY <1>1, <1>2, <1>3, <1>4, QuietAfter
<1>6. StillServed'
  BY <1>1, <1>3 DEF PromptState, StillServed, Commands
<1>7. QED
  BY <1>5, <1>6

(***************************************************************************)
(* A message other than TRICK that is read, when it leaves no more marks   *)
(* than there were.                                                        *)
(***************************************************************************)
LEMMA PromptReads ==
    ASSUME SeatInv, PromptState, NEW name, Read(name), client' = "playing",
           to_server' = to_server,
           WrittenTo => Marks(to_client', my_played') \subseteq Marks(to_client, my_played),
           name # "TRICK"
    PROVE  AskedOnce' /\ AnsweredOnce' /\ MarksLaid' /\ StillServed'
PROOF
<1>1. /\ to_client \in Seq(Msg) /\ to_client # << >> /\ Head(to_client).name = name
      /\ to_client' = Tail(to_client) /\ client = "playing"
      /\ UNCHANGED <<hand, was_card_played, tcp, command, curr_lewa_nbr, led, revents>>
  BY DEF SeatInv, Read, Received, thread, game, player, conn
<1>2. /\ Len(to_client) \in Nat /\ Len(to_client) > 0 /\ DOMAIN to_client = 1 .. Len(to_client)
      /\ Len(to_client') = Len(to_client) - 1 /\ DOMAIN to_client' = 1 .. Len(to_client) - 1
      /\ \A k \in 1 .. Len(to_client) - 1 : /\ to_client'[k] = to_client[k + 1]
                                            /\ k + 1 \in 1 .. Len(to_client)
      /\ \A k \in 1 .. Len(to_client) - 1 : k + 1 = Len(to_client) => k = Len(to_client) - 1
      /\ to_client[1] = Head(to_client) /\ Len(to_client) \in 1 .. Len(to_client)
  <2>1. to_client' \in Seq(Msg) /\ DOMAIN to_client' = 1 .. Len(to_client')
    BY <1>1
  <2>2. QED
    BY <1>1, <2>1, TailOfSeq
<1>3. AskedOnce'
  <2>1. Ask' = Ask
    BY <1>1 DEF Ask
  <2>2. ASSUME NEW k \in 1 .. Len(to_client) - 1
        PROVE  /\ to_client'[k].name # "WRONG"
               /\ to_client'[k].name = "TRICK" =>
                     /\ k = Len(to_client) - 1 /\ tcp = "TRICK" /\ to_server = << >>
                     /\ to_client'[k] = Ask
    BY <1>1, <1>2 DEF PromptState, AskedOnce
  <2>3. ASSUME tcp = "TRICK", to_server = << >>
        PROVE  to_client' # << >> /\ to_client'[Len(to_client) - 1].name = "TRICK"
    <3>1. to_client[Len(to_client)].name = "TRICK"
      BY <1>1, <2>3 DEF PromptState, AskedOnce
    <3>2. Len(to_client) # 1
      BY <1>1, <1>2, <3>1
    <3>3. /\ Len(to_client) - 1 \in 1 .. Len(to_client) - 1
          /\ (Len(to_client) - 1) + 1 = Len(to_client)
          /\ Len(to_client) - 1 # 0
      <4>1. \A l \in Nat : l > 0 /\ l # 1 => l - 1 \in 1 .. l - 1 /\ (l - 1) + 1 = l /\ l - 1 # 0
        OBVIOUS
      <4>2. Len(to_client) \in Nat /\ Len(to_client) > 0
        BY <1>2
      <4>3. QED
        BY <3>2, <4>1, <4>2
    <3>4. to_client'[Len(to_client) - 1].name = "TRICK"
      BY <1>2, <3>1, <3>3
    <3>5. to_client' # << >>
      <4>1. Len(to_client') # 0
        BY <1>2, <3>3
      <4>2. Len(<< >>) = 0
        OBVIOUS
      <4>3. QED
        BY <4>1, <4>2
    <3>6. QED
      BY <3>4, <3>5
  <2>4. QED
    BY <1>1, <1>2, <2>1, <2>2, <2>3 DEF AskedOnce
<1>4. AnsweredOnce'
  BY <1>1 DEF PromptState, AnsweredOnce
<1>5. MarksLaid'
  BY <1>1 DEF PromptState, MarksLaid, WrittenTo, Offered
<1>6. StillServed'
  BY <1>1 DEF PromptState, StillServed
<1>7. QED
  BY <1>3, <1>4, <1>5, <1>6

(***************************************************************************)
(* While everybody is prompt, every step keeps question and answer paired. *)
(***************************************************************************)
LEMMA PromptKept ==
    ASSUME Heard, PromptState, [Next]_vars, Prompt'
    PROVE  AskedOnce' /\ AnsweredOnce' /\ MarksLaid' /\ StillServed'
PROOF
<1>0. /\ SeatInv /\ CountInv /\ MarksInv /\ TypeOK /\ Asking /\ InStep /\ to_client \in Seq(Msg)
      /\ curr_lewa_nbr \in Nat \ {0} /\ led \in Led
      /\ AskedOnce /\ AnsweredOnce /\ MarksLaid /\ StillServed
  BY DEF Heard, SeatInv, TypeOK, PromptState
<1>1. CASE SendCommand \/ PrepareNewLewa \/ LastRoundOver
  <2>1. /\ UNCHANGED <<to_client, to_server, client, my_played, was_card_played, tcp, revents>>
        /\ command' = command \/ command \in {"newlewa", "nextround"}
        /\ command # "TRICK" \/ ~pending
    BY <1>1 DEF SendCommand, PrepareNewLewa, LastRoundOver, player, conn, clientVars
  <2>2. tcp # "TRICK"
    BY <1>0, <2>1 DEF Asking
  <2>3. to_server = << >> /\ (client = "playing" => NotAsked(to_client))
    BY <1>0, <2>2, NothingAsked
  <2>4. AskedOnce' /\ AnsweredOnce' /\ Offered' = {}
    BY <2>1, <2>2, <2>3, QuietAfter
  <2>5. MarksLaid'
    <3>1. Offered = {} /\ (WrittenTo' => WrittenTo)
      BY <2>1, <2>3 DEF Offered, WrittenTo
    <3>2. QED
      BY <1>0, <2>1, <3>1 DEF MarksLaid
  <2>6. StillServed'
    BY <1>0, <2>1 DEF StillServed
  <2>7. QED
    BY <2>4, <2>5, <2>6
<1>2. CASE PrepareNewRound
  <2>1. /\ UNCHANGED <<to_client, to_server, client, revents>>
        /\ command = "nextround"
        /\ \/ command' = "DEAL" /\ tcp' = tcp
           \/ command' = "aborted" /\ tcp' = "none"
    BY <1>2 DEF PrepareNewRound, conn, clientVars
  <2>2. tcp # "TRICK" /\ tcp' # "TRICK"
    BY <1>0, <2>1 DEF Asking
  <2>3. to_server = << >> /\ (client = "playing" => NotAsked(to_client))
    BY <1>0, <2>2, NothingAsked
  <2>4. AskedOnce' /\ AnsweredOnce'
    BY <2>1, <2>2, <2>3, QuietAfter
  <2>5. MarksLaid'
    BY <2>1 DEF MarksLaid, WrittenTo
  <2>6. StillServed'
    BY <1>0, <2>1 DEF StillServed
  <2>7. QED
    BY <2>4, <2>5, <2>6
<1>3. CASE HandleDeal
  <2> DEFINE m == Deal(Hands[round_number])
  <2>1. Tell("DEAL", m, "TRICK") /\ to_client' = Append(to_client, m)
    BY <1>3 DEF HandleDeal, Tell
  <2>2. m \in Msg /\ m.name = "DEAL"
    BY <1>0, HandsAreCards DEF TypeOK, Deal, Message, Msg, MsgNames, Led
  <2> HIDE DEF m
  <2>3. AskedOnce' /\ AnsweredOnce' /\ Offered' = {} /\ StillServed'
    <3>1. "DEAL" \in Commands \ {"TRICK", "END"} /\ m.name \notin {"TRICK", "WRONG"}
      BY <2>2 DEF Commands
    <3>2. QED
      BY <1>0, <2>1, <2>2, <3>1, PromptTold
  <2>4. MarksLaid'
    <3>1. Marks(Append(to_client, m), my_played') = {}
      BY <1>0, <2>2, MarksDeal
    <3>2. QED
      BY <2>1, <3>1 DEF MarksLaid
  <2>5. QED
    BY <2>3, <2>4
<1>4. CASE HandleTaken
  <2> DEFINE m == Taken(curr_lewa_nbr, laid[curr_lewa_nbr])
  <2>1. /\ Tell("TAKEN", m, "newlewa") /\ to_client' = Append(to_client, m)
        /\ UNCHANGED <<my_played, was_card_played, client>>
        /\ tcp = "poll" /\ command = "TAKEN"
    BY <1>4 DEF HandleTaken, Tell, Told, player, clientVars
  <2>2. curr_lewa_nbr \in DOMAIN laid /\ laid[curr_lewa_nbr] \in Card
    BY <1>0, <2>1 DEF InStep, TypeOK
  <2>3. m \in Msg /\ m.name = "TAKEN" /\ m.cards = {laid[curr_lewa_nbr]}
    BY <1>0, <2>2 DEF Taken, Message, Msg, MsgNames, Led
  <2>4. m.cards \subseteq was_card_played
    BY <1>0, <2>1, <2>2, <2>3 DEF SeatInv, MarksAreLaid
  <2> HIDE DEF m
  <2>5. AskedOnce' /\ AnsweredOnce' /\ Offered' = {} /\ StillServed'
    <3>1. "TAKEN" \in Commands \ {"TRICK", "END"} /\ m.name \notin {"TRICK", "WRONG"}
      BY <2>3 DEF Commands
    <3>2. QED
      BY <1>0, <2>1, <2>3, <3>1, PromptTold
  <2>6. MarksLaid'
    <3>1. Marks(Append(to_client, m), my_played) =
            Marks(to_client, my_played) \cup (IF m.name = "TAKEN" THEN m.cards ELSE {})
      BY <1>0, <2>3, MarksAppend
    <3>2. Offered = {} /\ (WrittenTo' => WrittenTo)
      BY <1>0, <2>1, NothingAsked DEF WrittenTo
    <3>3. WrittenTo' => Marks(to_client, my_played) \subseteq was_card_played
      BY <1>0, <3>2 DEF MarksLaid
    <3>4. WrittenTo' => Marks(to_client', my_played') \subseteq was_card_played'
      BY <2>1, <2>4, <3>1, <3>3
    <3>5. QED
      BY <3>4 DEF MarksLaid
  <2>7. QED
    BY <2>5, <2>6
<1>5. CASE HandleScore \/ HandleTotal
  <2>1. PICK name \in {"SCORE", "TOTAL"}, next \in {"TOTAL", "nextround"} :
            Tell(name, Plain(name), next) /\ to_client' = Append(to_client, Plain(name))
    BY <1>5 DEF HandleScore, HandleTotal, Tell
  <2>2. /\ UNCHANGED <<my_played, was_card_played, client>>
        /\ tcp = "poll" /\ command \in {"SCORE", "TOTAL"}
    BY <1>5 DEF HandleScore, HandleTotal, Tell, Told, player, clientVars
  <2>3. Plain(name) \in Msg /\ Plain(name).name \notin {"DEAL", "TAKEN", "TRICK", "WRONG"}
    BY DEF Plain, Message, Msg, MsgNames, Led
  <2>4. AskedOnce' /\ AnsweredOnce' /\ Offered' = {} /\ StillServed'
    <3>1. name \in Commands \ {"TRICK", "END"}
      BY DEF Commands
    <3>2. QED
      BY <1>0, <2>1, <2>3, <3>1, PromptTold
  <2>5. MarksLaid'
    <3>1. Marks(Append(to_client, Plain(name)), my_played) = Marks(to_client, my_played)
            \cup (IF Plain(name).name = "TAKEN" THEN Plain(name).cards ELSE {})
      BY <1>0, <2>3, MarksAppend
    <3>2. Offered = {} /\ (WrittenTo' => WrittenTo)
      BY <1>0, <2>2, NothingAsked DEF WrittenTo
    <3>3. Marks(to_client', my_played') = Marks(to_client, my_played)
      BY <2>1, <2>2, <2>3, <3>1
    <3>4. QED
      BY <1>0, <2>2, <3>2, <3>3 DEF MarksLaid
  <2>6. QED
    BY <2>4, <2>5
<1>6. CASE HandleEnd \/ EndUnserved
  <2>1. /\ tcp # "TRICK" /\ tcp' = "none" /\ command' = "over"
        /\ UNCHANGED <<to_client, to_server, client, revents>>
    BY <1>6 DEF HandleEnd, EndUnserved, Told, conn, clientVars
  <2>2. AskedOnce' /\ AnsweredOnce'
    BY <1>0, <2>1, NothingAsked, QuietAfter
  <2>3. QED
    BY <1>0, <2>1, <2>2 DEF MarksLaid, WrittenTo, StillServed
<1>7. CASE AskForCard
  <2>1. /\ tcp = "poll" /\ tcp' = "TRICK" /\ command = "TRICK" /\ to_client' = Append(to_client, Ask)
        /\ UNCHANGED <<to_server, client, my_played, was_card_played, command, curr_lewa_nbr, led>>
        /\ revents' = SocketReadable
    BY <1>7 DEF AskForCard, Told, thread, game, player, clientVars
  <2>2. to_server = << >> /\ Offered = {} /\ (client = "playing" => NotAsked(to_client))
    BY <1>0, <2>1, NothingAsked
  <2>3. Ask \in Msg /\ Ask.name = "TRICK"
    BY <1>0 DEF Ask, Trick, Message, Msg, MsgNames
  <2>4. /\ DOMAIN to_client' = 1 .. Len(to_client) + 1 /\ Len(to_client') = Len(to_client) + 1
        /\ \A i \in 1 .. Len(to_client) : to_client'[i] = to_client[i] /\ i \in DOMAIN to_client
        /\ to_client'[Len(to_client) + 1] = Ask
        /\ \A i \in 1 .. Len(to_client) + 1 : i = Len(to_client) + 1 \/ i \in 1 .. Len(to_client)
        /\ to_client' # << >>
    BY <1>0, <2>1, <2>3
  <2>5. AskedOnce'
    <3>1. Ask' = Ask
      BY <2>1 DEF Ask
    <3>2. ASSUME client = "playing", NEW i \in 1 .. Len(to_client) + 1
          PROVE  /\ to_client'[i].name # "WRONG"
                 /\ to_client'[i].name = "TRICK" => i = Len(to_client) + 1 /\ to_client'[i] = Ask
      BY <2>2, <2>3, <2>4, <3>2 DEF NotAsked
    <3>3. QED
      BY <2>1, <2>2, <2>3, <2>4, <3>1, <3>2 DEF AskedOnce
  <2>6. AnsweredOnce'
    BY <2>1, <2>2 DEF AnsweredOnce
  <2>7. MarksLaid'
    <3>1. Marks(Append(to_client, Ask), my_played) = Marks(to_client, my_played)
            \cup (IF Ask.name = "TAKEN" THEN Ask.cards ELSE {})
      BY <1>0, <2>3, MarksAppend
    <3>2. Marks(to_client', my_played') = Marks(to_client, my_played)
      BY <2>1, <2>3, <3>1
    <3>3. WrittenTo' => WrittenTo
      BY <2>1 DEF WrittenTo
    <3>4. QED
      BY <1>0, <2>1, <2>2, <3>2, <3>3 DEF MarksLaid
  <2>8. StillServed'
    BY <1>0, <2>1, <2>2 DEF StillServed, SocketReadable
  <2>9. QED
    BY <2>5, <2>6, <2>7, <2>8
<1>8. CASE AcceptCard
  <2>1. /\ to_server # << >> /\ to_server' = Tail(to_server) /\ command' = "TAKEN"
        /\ tcp' = IF revents THEN "unasked" ELSE "poll"
        /\ was_card_played' = was_card_played \cup Head(to_server).cards
        /\ UNCHANGED <<to_client, client, my_played, revents>>
    <3>1. PICK card \in Head(to_server).cards : was_card_played' = was_card_played \cup {card}
      BY <1>8 DEF AcceptCard
    <3>2. \E c : Head(to_server).cards = {c}
      BY <1>8 DEF AcceptCard, Acceptable
    <3>3. QED
      BY <1>8, <3>1, <3>2 DEF AcceptCard, Served, SocketReadable, clientVars
  <2>2. /\ Tail(to_server) = << >> /\ tcp = "TRICK" /\ command = "TRICK"
        /\ Offered = Head(to_server).cards
    BY <1>0, <2>1, AnswerWaits
  <2>3. tcp' = "poll"
    BY <1>0, <2>1 DEF StillServed
  <2>4. client = "playing" => NotAsked(to_client)
    BY <1>0, <2>1 DEF AskedOnce, NotAsked
  <2>5. AskedOnce' /\ AnsweredOnce'
    BY <2>1, <2>2, <2>3, <2>4, QuietAfter
  <2>6. MarksLaid'
    <3>1. WrittenTo' => WrittenTo
      BY <2>1, <2>2 DEF WrittenTo
    <3>2. WrittenTo' => Marks(to_client, my_played) \subseteq was_card_played'
      BY <1>0, <2>1, <2>2, <3>1 DEF MarksLaid
    <3>3. QED
      BY <2>1, <3>2 DEF MarksLaid
  <2>7. StillServed'
    BY <1>0, <2>1, <2>2, <2>3 DEF StillServed
  <2>8. QED
    BY <2>5, <2>6, <2>7
<1>9. CASE Resend
  <2>1. /\ to_client' = Resent /\ tcp = "resend" /\ tcp' = "poll"
        /\ UNCHANGED <<client, my_played, was_card_played, command, to_server, revents>>
    BY <1>9 DEF Resend, Resent, thread, player, clientVars
  <2>2. to_server = << >>
    BY <1>0, <2>1, NothingAsked
  <2>3. NotAsked(Resent)
    <3>1. /\ Resent \in Seq(Msg) /\ Len(Resent) = curr_lewa_nbr
          /\ Resent[1] = Deal(hand)
          /\ \A k \in 2 .. curr_lewa_nbr : Resent[k] = Taken(k - 1, laid[k - 1])
      BY <1>0, <2>1, ResentMessages
    <3>2. DOMAIN Resent = 1 .. curr_lewa_nbr
      BY <3>1
    <3>3. \A k \in 1 .. curr_lewa_nbr : k = 1 \/ k \in 2 .. curr_lewa_nbr
      BY <1>0
    <3>4. \A id, card, cards : Deal(cards).name = "DEAL" /\ Taken(id, card).name = "TAKEN"
      BY DEF Deal, Taken, Message
    <3>5. QED
      BY <3>1, <3>2, <3>3, <3>4 DEF NotAsked
  <2>4. AskedOnce' /\ AnsweredOnce'
    BY <2>1, <2>2, <2>3, QuietAfter
  <2>5. MarksLaid'
    <3>1. command # "DEAL" => Marks(Resent, my_played) \subseteq was_card_played
      BY <1>0, <2>1, MarksResent
    <3>2. QED
      BY <2>1, <3>1 DEF MarksLaid, WrittenTo
  <2>6. StillServed'
    BY <1>0, <2>1 DEF StillServed
  <2>7. QED
    BY <2>4, <2>5, <2>6
<1>10. CASE NoticeLoss
  <2>1. /\ client # "playing" /\ tcp' = "none" /\ to_server' = << >>
        /\ UNCHANGED <<client, command, revents>>
    BY <1>10 DEF NoticeLoss, Disconnect, thread, clientVars
  <2>2. AskedOnce' /\ AnsweredOnce'
    BY <2>1, QuietAfter
  <2>3. QED
    BY <1>0, <2>1, <2>2 DEF MarksLaid, WrittenTo, StillServed
<1>11. CASE ReadDeal
  <2>1. /\ Read("DEAL") /\ client' = "playing" /\ to_server' = to_server /\ my_played' = {}
        /\ to_client' = Tail(to_client) /\ to_client # << >> /\ Head(to_client).name = "DEAL"
    BY <1>11 DEF ReadDeal, Read, Received
  <2>2. Marks(to_client', my_played') = Marks(to_client, my_played)
    BY <1>0, <2>1, MarksTail
  <2>3. QED
    BY <1>0, <2>1, <2>2, PromptReads
<1>12. CASE ReadTrick
  <2> DEFINE card == AutoCard(MyLeft, Head(to_client).led)
             reply == Answer(curr_lewa_nbr, {card})
  <2>1. Received("TRICK")
    BY <1>12 DEF ReadTrick, Read
  <2>2. /\ tcp = "TRICK" /\ command = "TRICK" /\ to_server = << >>
        /\ Head(to_client) = Ask /\ Tail(to_client) = << >>
        /\ MyLeft = hand \ was_card_played /\ MyLeft # {} /\ MyLeft \subseteq Card
        /\ my_played = was_card_played
    BY <2>1, TrickReady
  <2>3. Ask.id = curr_lewa_nbr /\ Ask.led = led
    BY DEF Ask, Trick, Message
  <2>4. Readable(Head(to_client).id, curr_lewa_id)
    BY <1>0, <2>1, TakenReadable
  <2>5. my_played' = my_played \cup {card} /\ to_server' = Append(to_server, reply)
    BY <1>12, <2>2, <2>3, <2>4 DEF ReadTrick
  <2>6. /\ to_client' = << >> /\ client' = client /\ client = "playing"
        /\ UNCHANGED <<tcp, command, hand, was_card_played, led, curr_lewa_nbr, revents>>
    BY <1>12, <2>2 DEF ReadTrick, Read, Received, thread, game, player, conn
  <2>7. to_server' = <<reply>> /\ Head(<<reply>>) = reply /\ <<reply>> # << >>
    BY <2>2, <2>5
  <2>8. /\ card \in hand
        /\ CardCorrect(hand \ was_card_played, card, IF led = NONE_SUIT THEN card.suit ELSE led)
    <3>1. card = AutoCard(MyLeft, led)
      BY <2>2, <2>3
    <3>2. /\ card \in MyLeft
          /\ CardCorrect(MyLeft, card, IF led = NONE_SUIT THEN card.suit ELSE led)
      BY <2>2, <3>1, CardsAreNumbers, AutoCardCorrect
    <3> HIDE DEF card
    <3>3. QED
      BY <2>2, <3>2
  <2>9. AskedOnce'
    <3>1. DOMAIN << >> = {}
      OBVIOUS
    <3> HIDE DEF reply
    <3>2. QED
      BY <2>6, <2>7, <3>1 DEF AskedOnce
  <2>10. AnsweredOnce'
    <3>1. to_server' = <<Answer(curr_lewa_nbr, {card})>>
      BY <2>7
    <3> HIDE DEF card
    <3>2. QED
      BY <2>2, <2>6, <2>8, <3>1 DEF AnsweredOnce
  <2>11. MarksLaid'
    <3>1. Marks(<< >>, my_played') = my_played'
      <4>1. DOMAIN << >> = {}
        OBVIOUS
      <4>2. NoDeal(<< >>) /\ OnItsWay(<< >>) = {}
        BY <4>1 DEF NoDeal, OnItsWay
      <4>3. QED
        BY <4>2 DEF Marks
    <3>2. reply.cards = {card}
      BY DEF Answer, Message
    <3>3. Offered' = {card}
      <4> HIDE DEF card, reply
      <4>1. QED
        BY <2>7, <3>2 DEF Offered
    <3> HIDE DEF card, reply
    <3>4. QED
      BY <2>2, <2>5, <2>6, <3>1, <3>3 DEF MarksLaid
  <2>12. StillServed'
    BY <1>0, <2>6 DEF StillServed
  <2>13. QED
    BY <2>9, <2>10, <2>11, <2>12
<1>13. CASE ReadTaken
  <2>1. Readable(Head(to_client).id, curr_lewa_id)
    BY <1>0, <1>13, TakenReadable DEF ReadTaken, Read
  <2>2. /\ Read("TAKEN") /\ client' = "playing" /\ to_server' = to_server
        /\ my_played' = my_played \cup (Head(to_client).cards \cap my_hand)
        /\ to_client' = Tail(to_client) /\ to_client # << >> /\ Head(to_client).name = "TAKEN"
    BY <1>13, <2>1 DEF ReadTaken, Read, Received
  <2>3. Marks(to_client, my_played) = Marks(to_client', my_played \cup Head(to_client).cards)
    BY <1>0, <2>2, MarksTail
  <2>4. Marks(to_client', my_played') \subseteq Marks(to_client', my_played \cup Head(to_client).cards)
    BY <2>2 DEF Marks
  <2>5. QED
    BY <1>0, <2>2, <2>3, <2>4, PromptReads
<1>14. CASE ReadPoints
  <2>1. PICK name \in {"SCORE", "TOTAL"} : Read(name)
    BY <1>14 DEF ReadPoints
  <2>2. /\ client' = "playing" /\ to_server' = to_server /\ my_played' = my_played
        /\ to_client' = Tail(to_client) /\ to_client # << >> /\ Head(to_client).name = name
    BY <1>14, <2>1 DEF ReadPoints, Read, Received
  <2>3. Marks(to_client, my_played) = Marks(to_client', my_played \cup {})
    BY <1>0, <2>2, MarksTail
  <2>4. my_played \cup {} = my_played
    OBVIOUS
  <2>5. QED
    BY <1>0, <2>1, <2>2, <2>3, <2>4, PromptReads
<1>15. CASE ReadEnd
  <2>1. /\ client = "playing" /\ tcp = "none" /\ client' \in {"finished", "failed"}
        /\ UNCHANGED <<to_server, tcp, command, revents>>
    BY <1>15 DEF ReadEnd, thread, conn
  <2>2. to_server = << >>
    BY <1>0, <2>1, NothingAsked
  <2>3. AskedOnce' /\ AnsweredOnce'
    BY <2>1, <2>2, QuietAfter
  <2>4. QED
    BY <1>0, <2>1, <2>3 DEF MarksLaid, WrittenTo, StillServed
<1>16. CASE CloseClient
  <2>1. /\ client' = "gone"
        /\ UNCHANGED <<to_server, tcp, command, revents, hand, was_card_played, led, curr_lewa_nbr>>
    BY <1>16 DEF CloseClient, thread, conn, game, player
  <2>2. AskedOnce' /\ MarksLaid' /\ StillServed'
    BY <1>0, <2>1 DEF AskedOnce, MarksLaid, WrittenTo, StillServed
  <2>3. AnsweredOnce'
    BY <1>0, <2>1 DEF AnsweredOnce
  <2>4. QED
    BY <2>2, <2>3
<1>17. CASE Replace
  <2>1. /\ to_client' = << >> /\ to_server' = << >> /\ tcp' = "resend" /\ client' = "playing"
        /\ revents' = FALSE
    BY <1>17 DEF Replace
  <2>2. DOMAIN << >> = {}
    OBVIOUS
  <2>3. AskedOnce' /\ AnsweredOnce'
    BY <2>1, <2>2 DEF AskedOnce, AnsweredOnce
  <2>4. QED
    BY <2>1, <2>3 DEF MarksLaid, WrittenTo, StillServed
<1>18. CASE Collect \/ Stopped \/ UNCHANGED vars
  <2>1. /\ UNCHANGED <<to_client, to_server, client, my_played, was_card_played, tcp, revents>>
        /\ UNCHANGED <<command, hand, led, curr_lewa_nbr>>
    BY <1>18 DEF Collect, Stopped, vars, thread, game, player, conn, clientVars
  <2>2. AskedOnce'
    <3>1. Ask' = Ask
      BY <2>1 DEF Ask
    <3>2. QED
      BY <1>0, <2>1, <3>1 DEF AskedOnce
  <2>3. AnsweredOnce' /\ MarksLaid' /\ StillServed'
    BY <1>0, <2>1 DEF AnsweredOnce, MarksLaid, WrittenTo, Offered, StillServed
  <2>4. QED
    BY <2>2, <2>3
<1>19. ~ \/ TimeoutInTrick \/ RefuseCard \/ AnswerUnasked \/ RejectMessage
         \/ UnaskedTimesOut \/ PollSocket \/ ReadWrong \/ SendJunk
  BY <1>0, NoTrouble
<1>20. QED
  BY <1>1, <1>2, <1>3, <1>4, <1>5, <1>6, <1>7, <1>8, <1>9, <1>10, <1>11, <1>12, <1>13, <1>14,
     <1>15, <1>16, <1>17, <1>18, <1>19
  DEF Next, PlayerThread, TCPThread, TimeoutFires, Client

(***************************************************************************)
(* Every step keeps the invariant of the exchange.                         *)
(***************************************************************************)
LEMMA ExchangeKept == ExchangeInv /\ [Next]_vars => ExchangeInv'
PROOF
<1> SUFFICES ASSUME ExchangeInv, [Next]_vars PROVE ExchangeInv'
  OBVIOUS
<1>1. SeatInv' /\ CountInv' /\ MarksInv'
  BY SeatKept, CountKept, MarksKept DEF ExchangeInv
<1>2. ASSUME Prompt' PROVE AskedOnce' /\ AnsweredOnce' /\ MarksLaid' /\ StillServed'
  <2>1. Prompt
    BY <1>2, PromptBefore DEF ExchangeInv
  <2>2. Heard /\ PromptState
    BY <2>1 DEF ExchangeInv, PromptInv, Heard, PromptState
  <2>3. QED
    BY <1>2, <2>2, PromptKept
<1>3. QED
  BY <1>1, <1>2 DEF ExchangeInv, PromptInv

(***************************************************************************)
(* The messages under way agree with both ends (ExchangeInv), for every    *)
(* number of tricks, every hand and whatever is late, lost or unasked.     *)
(***************************************************************************)
THEOREM ExchangeInvariance == Spec => []ExchangeInv
PROOF
<1>1. Init => ExchangeInv
  BY Initially, CountInitially, MarksInitially, PromptInitially DEF ExchangeInv
<1>2. QED
  BY <1>1, ExchangeKept, PTL DEF Spec

(***************************************************************************)
(* As long as no client was late or sent anything unasked, a client that   *)
(* is about to answer TRICK has the same cards left as the server's copy   *)
(* of its hand, whichever clients were lost before it, up to HandedOff.    *)
(***************************************************************************)
THEOREM HandsAgreeAlways == Spec => []HandsAgree
PROOF
<1>1. ExchangeInv => HandsAgree
  <2> SUFFICES ASSUME ExchangeInv, Prompt, Received("TRICK")
               PROVE  MyLeft = hand \ was_card_played
    BY DEF HandsAgree
  <2>1. Heard /\ PromptState
    BY DEF ExchangeInv, PromptInv, Heard, PromptState
  <2>2. QED
    BY <2>1, TrickReady
<1>2. QED
  BY <1>1, ExchangeInvariance, PTL

(***************************************************************************)
(* Until then the server never cuts off a client that did not close, and   *)
(* no client fails before the server is done: neither the stale result of  *)
(* poll() nor a WRONG outside the try is ever met.                         *)
(***************************************************************************)
THEOREM PromptServed == Spec => []PromptClientServed
PROOF
<1>1. ExchangeInv => PromptClientServed
  BY DEF ExchangeInv, PromptInv, StillServed, PromptClientServed
<1>2. QED
  BY <1>1, ExchangeInvariance, PTL

=============================================================================
