-------------------------- MODULE TrickExchangeInv --------------------------
(***************************************************************************)
(* The inductive invariant behind the safety properties of TrickExchange   *)
(* and its refinement of SeatGame.  It comes in layers, each inductive     *)
(* with the ones before it: the seat's place in the round (SeatInv), the   *)
(* client's count of the tricks (CountInv), its copy of the hand           *)
(* (MarksInv), and what is more while nothing was late or unasked          *)
(* (PromptInv).                                                            *)
(***************************************************************************)
EXTENDS TrickExchange

(***************************************************************************)
(* Where the seat stands in its round when each command is given.          *)
(***************************************************************************)
InStep ==
    /\ command = "DEAL" => laid = << >> /\ curr_lewa_nbr = 1
    /\ command = "TRICK" => Len(laid) = curr_lewa_nbr - 1
    /\ command \in {"TAKEN", "newlewa"} => Len(laid) = curr_lewa_nbr
    /\ command \in {"SCORE", "TOTAL", "nextround", "END"} =>
            Len(laid) = curr_lewa_nbr - 1 /\ curr_lewa_nbr > 1
    /\ command \in {"TRICK", "TAKEN", "newlewa"} => curr_lewa_nbr <= NumTricks

(***************************************************************************)
(* The marks on the server's copy of the hand are the cards the seat laid. *)
(***************************************************************************)
MarksAreLaid ==
    command # "DEAL" => was_card_played = {laid[i] : i \in DOMAIN laid}

HandDealt ==
    /\ \E r \in DOMAIN Hands : hand = Hands[r]
    /\ was_card_played \subseteq hand

Asking ==
    /\ tcp = "TRICK" => command = "TRICK" /\ pending
    /\ tcp = "resend" => command \in Commands /\ pending

MsgNames == {"DEAL", "TRICK", "TAKEN", "SCORE", "TOTAL", "WRONG"}
Msg == [name : MsgNames, id : Nat, led : Led, cards : SUBSET Card]

SeatInv == /\ TypeOK /\ to_client \in Seq(Msg)
           /\ InStep /\ MarksAreLaid /\ HandDealt /\ Asking

(***************************************************************************)
(* The server writes to this client, and has dealt it its cards.           *)
(***************************************************************************)
WrittenTo == client = "playing" /\ tcp \notin {"none", "resend"} /\ command # "DEAL"

-----------------------------------------------------------------------------
(* The tricks a client has counted when it comes to the i-th message of q, *)
(* having counted n before the first.                                      *)

Named(q, i, name) == {k \in 1 .. i - 1 : q[k].name = name}
SinceDeal(q, i) == {k \in Named(q, i, "TAKEN") : \A d \in Named(q, i, "DEAL") : d < k}
Count(q, i, n) == (IF Named(q, i, "DEAL") = {} THEN n ELSE 1) + Cardinality(SinceDeal(q, i))

(***************************************************************************)
(* Every id is the client's count, and the server's trick is what the      *)
(* client will have counted when it has read everything.                   *)
(***************************************************************************)
Counted(q, n) ==
    \A i \in DOMAIN q : q[i].name \in {"TRICK", "TAKEN"} => q[i].id = Count(q, i, n)

TricksWritten == IF command = "newlewa" THEN curr_lewa_nbr + 1 ELSE curr_lewa_nbr

CountInv ==
    /\ client = "playing" => Counted(to_client, curr_lewa_id)
    /\ WrittenTo => Count(to_client, Len(to_client) + 1, curr_lewa_id) = TricksWritten

-----------------------------------------------------------------------------
(* The client's hand, and the marks on it, when it has read everything in  *)
(* q: a DEAL wipes out what was before it.                                 *)

NoDeal(q) == \A k \in DOMAIN q : q[k].name # "DEAL"
Latest(q, n) == \A d \in DOMAIN q : q[d].name = "DEAL" => d < n
LastDealIs(q, cards) ==
    \A d \in DOMAIN q : q[d].name = "DEAL" /\ Latest(q, d + 1) => q[d].cards = cards

OnItsWay(q) ==
    UNION {q[k].cards : k \in {n \in DOMAIN q : q[n].name = "TAKEN" /\ Latest(q, n)}}
Marks(q, played) == (IF NoDeal(q) THEN played ELSE {}) \cup OnItsWay(q)

(***************************************************************************)
(* The card that was accepted and is not in a TAKEN yet.                   *)
(***************************************************************************)
Untold == IF command = "TAKEN" THEN {laid[curr_lewa_nbr]} ELSE {}

MarksInv ==
    WrittenTo =>
        /\ NoDeal(to_client) => my_hand = hand
        /\ LastDealIs(to_client, hand)
        /\ was_card_played \subseteq Marks(to_client, my_played) \cup Untold

-----------------------------------------------------------------------------
(* As long as no client was late or sent anything unasked.                 *)

(***************************************************************************)
(* TRICK is asked once, after everything else was written, and no WRONG.   *)
(***************************************************************************)
AskedOnce ==
    client = "playing" =>
        /\ \A i \in DOMAIN to_client :
               /\ to_client[i].name # "WRONG"
               /\ to_client[i].name = "TRICK" =>
                      /\ i = Len(to_client) /\ tcp = "TRICK" /\ to_server = << >>
                      /\ to_client[i] = Ask
        /\ tcp = "TRICK" /\ to_server = << >> =>
               to_client # << >> /\ to_client[Len(to_client)].name = "TRICK"

(***************************************************************************)
(* It is answered once, with a card that will be accepted.                 *)
(***************************************************************************)
AnsweredOnce ==
    to_server # << >> =>
        \E card \in hand :
            /\ tcp = "TRICK" /\ to_server = <<Answer(curr_lewa_nbr, {card})>>
            /\ CardCorrect(hand \ was_card_played, card,
                           IF led = NONE_SUIT THEN card.suit ELSE led)

(***************************************************************************)
(* The client marks no card but those it laid and the one it answers with. *)
(***************************************************************************)
Offered == IF to_server = << >> THEN {} ELSE Head(to_server).cards
MarksLaid ==
    WrittenTo => Marks(to_client, my_played) \subseteq was_card_played \cup Offered

StillServed ==
    /\ ~revents /\ tcp # "unasked"
    /\ client = "failed" => command \in {"over", "aborted"}
    /\ client = "playing" /\ tcp = "none" => command \in {"over", "aborted"}

PromptInv == Prompt => AskedOnce /\ AnsweredOnce /\ MarksLaid /\ StillServed

(***************************************************************************)
(* The messages under way agree with both ends: the ids are those the      *)
(* client counts to, the deals and TAKENs will leave its copy of the hand  *)
(* with the server's marks, and until somebody is late or speaks unasked   *)
(* there is one TRICK or one acceptable answer (TCP_threads.cpp against    *)
(* klient_auto_lib.cpp).                                                   *)
(***************************************************************************)
ExchangeInv == SeatInv /\ CountInv /\ MarksInv /\ PromptInv
=============================================================================
