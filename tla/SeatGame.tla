------------------------------ MODULE SeatGame ------------------------------
(***************************************************************************)
(* What a seat is promised, without messages, timeouts or clients: it is   *)
(* dealt a hand, and lays one card in each trick, never twice the same and *)
(* following suit if it can.  TrickExchange implements this.               *)
(***************************************************************************)
EXTENDS Cards, Sequences

CONSTANTS NumTricks, Suits, Hands

VARIABLES
    round,   \* rounds opened
    hand,    \* the cards of the last deal
    led,     \* suit of the first card on the table, NONE_SUIT if there is none
    tricks,  \* finished tricks of the round
    laid     \* the seat's cards in this round, in order

vars == <<round, hand, led, tricks, laid>>

Left == hand \ {laid[i] : i \in DOMAIN laid}

Init ==
    /\ round = 1
    /\ hand = Hands[1]
    /\ led \in Suits \cup {NONE_SUIT}
    /\ tricks = 0
    /\ laid = << >>

Deal ==
    /\ laid = << >>
    /\ hand' = Hands[round]
    /\ UNCHANGED <<round, led, tricks, laid>>

OthersLead ==
    /\ Len(laid) = tricks
    /\ led' \in Suits \cup {NONE_SUIT}
    /\ UNCHANGED <<round, hand, tricks, laid>>

LayCard ==
    /\ Len(laid) = tricks
    /\ \E card \in Left :
        /\ \/ card.suit = led \/ led = NONE_SUIT
           \/ \A c \in Left : c.suit # led
        /\ laid' = Append(laid, card)
    /\ UNCHANGED <<round, hand, led, tricks>>

FinishTrick ==
    /\ Len(laid) = tricks + 1
    /\ tricks' = tricks + 1
    /\ UNCHANGED <<round, hand, led, laid>>

NewRound ==
    /\ round < Len(Hands)
    /\ Len(laid) = tricks
    /\ tricks > 0
    /\ round' = round + 1
    /\ tricks' = 0
    /\ laid' = << >>
    /\ UNCHANGED <<hand, led>>

Next == Deal \/ OthersLead \/ LayCard \/ FinishTrick \/ NewRound

Spec == Init /\ [][Next]_vars
=============================================================================
