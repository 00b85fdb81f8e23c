----------------------------- MODULE CardPlayInv -----------------------------
(***************************************************************************)
(* The inductive invariant behind the properties of CardPlay: which cards  *)
(* have been laid, whose they were, and what the marks and the counters    *)
(* of the server make of them.                                             *)
(***************************************************************************)
EXTENDS CardPlay

Trick == [cards : Seq(Deck), leader : Players, taker : Players]

CardTypes ==
    /\ round_number \in 1 .. NumRounds
    /\ first_player \in Players
    /\ curr_lewa \in Seq(Deck)
    /\ lewas_played \in Seq(Trick)
    /\ was_card_played \in [Players -> SUBSET Deck]
    /\ curr_game_points \in [Players -> Nat]

(***************************************************************************)
(* The seat that lays the k-th card of a trick, and the cards of a trick,  *)
(* of the tricks before the i-th, and of all the finished ones.            *)
(***************************************************************************)
SeatAt(leader, k) == (leader + k - 1) % NumPlayers
In(lewa) == {lewa[k] : k \in DOMAIN lewa}
LaidBefore(i) == UNION {In(lewas_played[j].cards) : j \in 1 .. i - 1}
Laid == UNION {In(lewas_played[i].cards) : i \in DOMAIN lewas_played}

(***************************************************************************)
(* A trick has a card of each seat's hand, clockwise from its leader.      *)
(***************************************************************************)
FromHands(leader, lewa) ==
    \A k \in DOMAIN lewa : lewa[k] \in PlayerCards(SeatAt(leader, k))

InTurn ==
    /\ Len(curr_lewa) <= NumPlayers
    /\ FromHands(first_player, curr_lewa)
    /\ \A i \in DOMAIN lewas_played :
        /\ Len(lewas_played[i].cards) = NumPlayers
        /\ FromHands(lewas_played[i].leader, lewas_played[i].cards)

(***************************************************************************)
(* No card is laid twice, and none after the last trick.                   *)
(***************************************************************************)
LaidOnce ==
    /\ In(curr_lewa) \cap Laid = {}
    /\ \A i, j \in DOMAIN lewas_played :
        i # j => In(lewas_played[i].cards) \cap In(lewas_played[j].cards) = {}
    /\ Len(lewas_played) <= MaxNbrOfLewas
    /\ curr_lewa # << >> => Len(lewas_played) < MaxNbrOfLewas

(***************************************************************************)
(* The marks on the server's copies of the hands are the cards laid: one   *)
(* of each seat for each trick.                                            *)
(***************************************************************************)
HasLaid(p) == \E k \in DOMAIN curr_lewa : p = SeatAt(first_player, k)

Marked ==
    \A p \in Players :
        /\ was_card_played[p] = PlayerCards(p) \cap (Laid \cup In(curr_lewa))
        /\ Cardinality(was_card_played[p]) =
               Len(lewas_played) + (IF HasLaid(p) THEN 1 ELSE 0)

(***************************************************************************)
(* CardCounter has counted the finished tricks and the cards in them.      *)
(***************************************************************************)
Counted ==
    card_counter = [lewas |-> Len(lewas_played),
                    hearts |-> Cardinality(Hearts \cap Laid),
                    queens |-> Cardinality(Queens \cap Laid),
                    misters |-> Cardinality(Misters \cap Laid),
                    king_of_hearts |-> KingOfHearts \cap Laid # {},
                    seven_and_last |-> Len(lewas_played) = MaxNbrOfLewas]

(***************************************************************************)
(* Who did not follow suit had no card of it left.                         *)
(***************************************************************************)
Follows(leader, lewa, gone) ==
    \A k \in DOMAIN lewa : lewa[k].suit # lewa[1].suit =>
        \A c \in PlayerCards(SeatAt(leader, k)) : c.suit = lewa[1].suit => c \in gone

Followed ==
    /\ Follows(first_player, curr_lewa, Laid)
    /\ \A i \in DOMAIN lewas_played :
        Follows(lewas_played[i].leader, lewas_played[i].cards, LaidBefore(i))

CardInv == CardTypes /\ InTurn /\ LaidOnce /\ Marked /\ Counted

(***************************************************************************)
(* The hands, the marks, the tricks and the counters tell one story of the *)
(* round (player_class.cpp, game_classes.cpp and card_classes.cpp), and    *)
(* what was laid and charged was right.                                    *)
(***************************************************************************)
PlayInv == CardInv /\ Followed /\ TakerHighest /\ PointsByRules
=============================================================================
