-------------------------------- MODULE Cards --------------------------------
(***************************************************************************)
(* Suits and values, which card may be laid on what was led, and which one *)
(* the automatic client lays (card_classes.cpp, enum_types.h and           *)
(* Player::check_card_correctness).  A card is a record [suit, value]; a   *)
(* suit is its letter's code, so that "<" is operator<.                    *)
(***************************************************************************)
EXTENDS Integers

HEARTS == 72
NONE_SUIT == 88
J == 11
Q == 12
K == 13
A == 14

(***************************************************************************)
(* Mutant: any card of the hand is accepted.                               *)
(***************************************************************************)
CardCorrect_AnySuit(left, card, bottom_card_suit) == card \in left

(***************************************************************************)
(* check_card_correctness: the card is in the hand, not marked as played,  *)
(* and follows suit if another card left in the hand could.                *)
(***************************************************************************)
CardCorrect(left, card, bottom_card_suit) ==
    /\ card \in left
    /\ \/ card.suit = bottom_card_suit
       \/ \A c \in left : c.suit # bottom_card_suit

(***************************************************************************)
(* DeckOfCards::play_card walks the hand in the order of the map's keys.   *)
(***************************************************************************)
Before(c, d) == c.suit < d.suit \/ (c.suit = d.suit /\ c.value < d.value)
FirstOf(cards) == CHOOSE c \in cards : \A d \in cards \ {c} : Before(c, d)

(***************************************************************************)
(* Mutant: the client lays its first card whatever was led.                *)
(***************************************************************************)
AutoCard_First(left, bottom_card_suit) == FirstOf(left)

AutoCard(left, bottom_card_suit) ==
    LET following == {c \in left : c.suit = bottom_card_suit}
    IN FirstOf(IF following = {} THEN left ELSE following)
=============================================================================
