-------------------------- MODULE MCTrickExchange --------------------------
(***************************************************************************)
(* TrickExchange for TLC: three tricks, of which the third is the first    *)
(* with a longer id; two suits; two rounds, whose hands share cards.       *)
(***************************************************************************)
EXTENDS TrickExchangeInv

CLUBS == 67

MCSuits == {CLUBS, HEARTS}

MCHands ==
    <<{[suit |-> CLUBS, value |-> 2], [suit |-> CLUBS, value |-> 9],
       [suit |-> HEARTS, value |-> K]},
      {[suit |-> CLUBS, value |-> 9], [suit |-> HEARTS, value |-> 5],
       [suit |-> HEARTS, value |-> K]}>>
=============================================================================
