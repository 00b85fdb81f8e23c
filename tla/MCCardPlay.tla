----------------------------- MODULE MCCardPlay -----------------------------
(***************************************************************************)
(* CardPlay for TLC: three seats, three tricks, the jack, queen and king   *)
(* of three suits.  Seat 0 holds one suit, two suits or three, and the     *)
(* other cards are dealt in every way; every deal is played as every kind  *)
(* of round, and then, one seat on, as the next kind.                      *)
(***************************************************************************)
EXTENDS CardPlay

CLUBS == 67
SPADES == 83

MCDeck == [suit : {CLUBS, HEARTS, SPADES}, value : {J, Q, K}]

MCStarter == <<NumPlayers - 1, 0>>

Card(s, v) == [suit |-> s, value |-> v]

FirstHands ==
    {{Card(HEARTS, J), Card(HEARTS, Q), Card(HEARTS, K)},
     {Card(HEARTS, J), Card(HEARTS, K), Card(SPADES, Q)},
     {Card(CLUBS, K), Card(HEARTS, Q), Card(SPADES, J)}}

Deals ==
    {deal \in [Players -> FirstHands \cup kSubset(MaxNbrOfLewas, MCDeck)] :
        /\ deal[0] \in FirstHands
        /\ UNION {deal[p] : p \in Players} = MCDeck}

MCGames ==
    {<<[game_type |-> t, player_cards |-> deal],
       [game_type |-> (t % BANDIT) + 1,
        player_cards |-> [p \in Players |-> deal[(p + 1) % NumPlayers]]]>> :
        t \in GameTypes, deal \in Deals}
=============================================================================
