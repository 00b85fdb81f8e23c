------------------------------ MODULE CardPlay ------------------------------
(***************************************************************************)
(* The cards: which ones a seat may lay, who takes a trick, what it costs  *)
(* and when a round is over (card_classes.cpp, game_classes.cpp and the    *)
(* card half of player_class.cpp), together with the automatic client that *)
(* answers from the hand it was dealt and the tricks it was told of.       *)
(*                                                                         *)
(* KierkiServer shows that the server's threads lay cards in turn and meet *)
(* between tricks; here the steps between two meetings are one action, and *)
(* the choices KierkiServer makes freely (the taker, the end of the round) *)
(* are computed from the cards.                                            *)
(***************************************************************************)
EXTENDS Cards, Sequences, FiniteSets, FiniteSetsExt

CONSTANTS
    NumPlayers,       \* MAX_PLAYERS and MAX_LEWA_SIZE, 4 in the code
    MaxNbrOfLewas,    \* MAX_NBR_OF_LEWAS, 13
    SeventhLewa,      \* the trick that counts beside the last one, 7
    MaxOneColorSize,  \* MAX_ONE_COLOR_SIZE, 13
    MaxOneFigureSize, \* MAX_ONE_FIGURE_SIZE, 4
    Deck,             \* the cards that are dealt: [suit, value]
    NumRounds,        \* rounds in the game file
    Starter,          \* Starter[r]: who leads in round r
    Games             \* the game files: [game_type, player_cards] for each round

Players == 0 .. NumPlayers - 1
Lewas == 1 .. MaxNbrOfLewas

NO_LEWA == 1
NO_HEART == 2
NO_QUEEN == 3
NO_MISTER == 4
NO_KING_HEART == 5
NO_SEVEN_AND_LAST == 6
BANDIT == 7
GameTypes == NO_LEWA .. BANDIT

Hearts == {c \in Deck : c.suit = HEARTS}
Queens == {c \in Deck : c.value = Q}
Misters == {c \in Deck : c.value \in {J, K}}
KingOfHearts == {c \in Deck : c.value = K /\ c.suit = HEARTS}

ASSUME SizesAssumption ==
    /\ NumPlayers \in Nat \ {0}
    /\ MaxNbrOfLewas \in Nat
    /\ NumRounds \in Nat \ {0}

(***************************************************************************)
(* The game file is a sound one: a whole deck dealt in equal hands.        *)
(***************************************************************************)
ASSUME DeckAssumption ==
    /\ Deck \subseteq [suit : Nat \ {NONE_SUIT}, value : Nat]
    /\ IsFiniteSet(Deck)
    /\ Cardinality(Deck) = NumPlayers * MaxNbrOfLewas
    /\ Cardinality(Hearts) = MaxOneColorSize
    /\ \A v \in {J, Q, K} : Cardinality({c \in Deck : c.value = v}) = MaxOneFigureSize
    /\ KingOfHearts # {}
    /\ SeventhLewa \in Lewas \ {MaxNbrOfLewas}

ASSUME GamesAssumption ==
    /\ Starter \in [1 .. NumRounds -> Players]
    /\ \A game \in Games : \A r \in 1 .. NumRounds :
        /\ game[r].game_type \in GameTypes
        /\ UNION {game[r].player_cards[p] : p \in Players} = Deck
        /\ \A p \in Players : Cardinality(game[r].player_cards[p]) = MaxNbrOfLewas

(***************************************************************************)
(* The points of a whole round of the last kind fit the uint8_t they are   *)
(* kept in, short of the 255 that SCORE cannot carry: 13 + 13 + 5 * 4 +    *)
(* 2 * 8 + 18 + 10 * 2 = 100 in the code.                                  *)
(***************************************************************************)
ASSUME PointsAssumption ==
    MaxNbrOfLewas + MaxOneColorSize + 5 * MaxOneFigureSize
        + 2 * (2 * MaxOneFigureSize) + 18 + 10 * 2 <= 254

VARIABLES
    rounds,           \* the game file being played
    round_number,
    first_player,     \* leader of the trick on the table
    curr_lewa,        \* the cards on the table, in order
    lewas_played,     \* finished tricks of the round: cards, taker, and (history) leader
    was_card_played,  \* seat -> cards of the server's copy of the hand marked as played
    curr_game_points, \* seat -> points of the round
    card_counter

vars == <<rounds, round_number, first_player, curr_lewa, lewas_played,
          was_card_played, curr_game_points, card_counter>>

PlayerCards(p) == rounds[round_number].player_cards[p]
GameType == rounds[round_number].game_type
LewaId == Len(lewas_played) + 1
WhoseTurn == (first_player + Len(curr_lewa)) % NumPlayers

(***************************************************************************)
(* CardCounter                                                             *)
(***************************************************************************)
NewGame == [lewas |-> 0, hearts |-> 0, queens |-> 0, misters |-> 0,
            king_of_hearts |-> FALSE, seven_and_last |-> FALSE]

Among(cards, lewa) == Cardinality({i \in DOMAIN lewa : lewa[i] \in cards})

(***************************************************************************)
(* Mutant: a king is counted as a mister and not as a heart (else if).     *)
(***************************************************************************)
CountCards_KingIsNoHeart(lewa) ==
    [lewas |-> card_counter.lewas + 1,
     hearts |-> card_counter.hearts + Among(Hearts \ KingOfHearts, lewa),
     queens |-> card_counter.queens + Among(Queens, lewa),
     misters |-> card_counter.misters + Among(Misters, lewa),
     king_of_hearts |-> card_counter.king_of_hearts \/ Among(KingOfHearts, lewa) > 0,
     seven_and_last |-> card_counter.seven_and_last \/ card_counter.lewas + 1 = MaxNbrOfLewas]

CountCards(lewa) ==
    [lewas |-> card_counter.lewas + 1,
     hearts |-> card_counter.hearts + Among(Hearts, lewa),
     queens |-> card_counter.queens + Among(Queens, lewa),
     misters |-> card_counter.misters + Among(Misters, lewa),
     king_of_hearts |-> card_counter.king_of_hearts \/ Among(KingOfHearts, lewa) > 0,
     seven_and_last |-> card_counter.seven_and_last \/ card_counter.lewas + 1 = MaxNbrOfLewas]

HasGameEnded ==
    \/ GameType \in {NO_LEWA, BANDIT} /\ card_counter.lewas = MaxNbrOfLewas
    \/ GameType = NO_HEART /\ card_counter.hearts = MaxOneColorSize
    \/ GameType = NO_QUEEN /\ card_counter.queens = MaxOneFigureSize
    \/ GameType = NO_MISTER /\ card_counter.misters = 2 * MaxOneFigureSize
    \/ GameType = NO_KING_HEART /\ card_counter.king_of_hearts
    \/ GameType = NO_SEVEN_AND_LAST /\ card_counter.seven_and_last

(***************************************************************************)
(* PointCounter: the points of a trick, by the kind of the round.          *)
(***************************************************************************)
SevenAndLastPoints(id) == IF id \in {SeventhLewa, MaxNbrOfLewas} THEN 10 ELSE 0
KingOfHeartsPoints(lewa) == IF Among(KingOfHearts, lewa) > 0 THEN 18 ELSE 0

CountPoints(lewa, id) ==
    CASE GameType = NO_LEWA -> 1
      [] GameType = NO_HEART -> Among(Hearts, lewa)
      [] GameType = NO_QUEEN -> 5 * Among(Queens, lewa)
      [] GameType = NO_MISTER -> 2 * Among(Misters, lewa)
      [] GameType = NO_KING_HEART -> KingOfHeartsPoints(lewa)
      [] GameType = NO_SEVEN_AND_LAST -> SevenAndLastPoints(id)
      [] GameType = BANDIT ->
            1 + Among(Hearts, lewa) + 5 * Among(Queens, lewa)
              + 2 * Among(Misters, lewa) + KingOfHeartsPoints(lewa)
              + SevenAndLastPoints(id)

(***************************************************************************)
(* Mutant: the highest card takes the trick, whatever its suit.            *)
(***************************************************************************)
WhoWonLewa_AnySuit ==
    LET best[i \in 1 .. NumPlayers] ==
            IF i = 1 THEN 1
            ELSE IF curr_lewa[i].value > curr_lewa[best[i - 1]].value THEN i ELSE best[i - 1]
    IN (first_player + best[NumPlayers] - 1) % NumPlayers

(***************************************************************************)
(* Mutant: the seat is not taken modulo the number of players.             *)
(***************************************************************************)
WhoWonLewa_NoWrap ==
    LET best[i \in 1 .. NumPlayers] ==
            IF i = 1 THEN 1
            ELSE LET b == best[i - 1]
                 IN IF /\ curr_lewa[i].suit = curr_lewa[1].suit
                       /\ curr_lewa[i].value > curr_lewa[b].value
                    THEN i ELSE b
    IN first_player + best[NumPlayers] - 1

(***************************************************************************)
(* check_who_won_lewa: one pass over the trick that keeps the best card of *)
(* the suit that was led.                                                  *)
(***************************************************************************)
WhoWonLewa ==
    LET best[i \in 1 .. NumPlayers] ==
            IF i = 1 THEN 1
            ELSE LET b == best[i - 1]
                 IN IF /\ curr_lewa[i].suit = curr_lewa[1].suit
                       /\ curr_lewa[i].value > curr_lewa[b].value
                    THEN i ELSE b
    IN (first_player + best[NumPlayers] - 1) % NumPlayers

(***************************************************************************)
(* check_card_correctness, with the suit handle_TRICK asks for: the bottom *)
(* card's, or the answer's own on an empty table.                          *)
(***************************************************************************)
CheckCardCorrectness(p, c) ==
    CardCorrect(PlayerCards(p) \ was_card_played[p], c,
                IF curr_lewa = << >> THEN c.suit ELSE curr_lewa[1].suit)

-----------------------------------------------------------------------------
Init ==
    /\ rounds \in Games
    /\ round_number = 1
    /\ first_player = Starter[1]
    /\ curr_lewa = << >>
    /\ lewas_played = << >>
    /\ was_card_played = [p \in Players |-> {}]
    /\ curr_game_points = [p \in Players |-> 0]
    /\ card_counter = NewGame

(***************************************************************************)
(* handle_TRICK accepts a card: it goes on the table and is marked in the  *)
(* server's copy of the hand.  A refused card changes nothing.             *)
(***************************************************************************)
PlayCard(p, c) ==
    /\ ~HasGameEnded
    /\ Len(curr_lewa) < NumPlayers
    /\ p = WhoseTurn
    /\ CheckCardCorrectness(p, c)
    /\ curr_lewa' = Append(curr_lewa, c)
    /\ was_card_played' = [was_card_played EXCEPT ![p] = @ \cup {c}]
    /\ UNCHANGED <<rounds, round_number, first_player, lewas_played,
                   curr_game_points, card_counter>>

(***************************************************************************)
(* Mutant: the points are counted after the trick has been put away, when  *)
(* its id has moved on.                                                    *)
(***************************************************************************)
TakeLewa_LatePoints ==
    /\ Len(curr_lewa) = NumPlayers
    /\ first_player' = WhoWonLewa
    /\ card_counter' = CountCards(curr_lewa)
    /\ curr_game_points' = [curr_game_points EXCEPT ![WhoWonLewa] = @ + CountPoints(curr_lewa, LewaId + 1)]
    /\ lewas_played' = Append(lewas_played, [cards |-> curr_lewa, leader |-> first_player,
                                             taker |-> WhoWonLewa])
    /\ curr_lewa' = << >>
    /\ UNCHANGED <<rounds, round_number, was_card_played>>

(***************************************************************************)
(* The full trick is decided, counted, charged to its taker (handle_TAKEN) *)
(* and put away (prepare_new_lewa).                                        *)
(***************************************************************************)
TakeLewa ==
    /\ Len(curr_lewa) = NumPlayers
    /\ first_player' = WhoWonLewa
    /\ card_counter' = CountCards(curr_lewa)
    /\ curr_game_points' = [curr_game_points EXCEPT ![WhoWonLewa] = @ + CountPoints(curr_lewa, LewaId)]
    /\ lewas_played' = Append(lewas_played, [cards |-> curr_lewa, leader |-> first_player,
                                             taker |-> WhoWonLewa])
    /\ curr_lewa' = << >>
    /\ UNCHANGED <<rounds, round_number, was_card_played>>

(***************************************************************************)
(* prepare_new_round and every seat's handle_DEAL.  After a round of all   *)
(* the tricks get_lewa_id throws and there is no next round.               *)
(***************************************************************************)
NewRound ==
    /\ HasGameEnded
    /\ round_number < NumRounds
    /\ LewaId <= MaxNbrOfLewas
    /\ round_number' = round_number + 1
    /\ first_player' = Starter[round_number + 1]
    /\ curr_lewa' = << >>
    /\ lewas_played' = << >>
    /\ card_counter' = NewGame
    /\ was_card_played' = [p \in Players |-> {}]
    /\ curr_game_points' = [p \in Players |-> 0]
    /\ UNCHANGED rounds

(***************************************************************************)
(* The game is over, or the process ended in prepare_new_round.            *)
(***************************************************************************)
Stopped ==
    /\ HasGameEnded
    /\ round_number = NumRounds \/ LewaId > MaxNbrOfLewas
    /\ UNCHANGED vars

Next ==
    \/ \E p \in Players, c \in Deck : PlayCard(p, c)
    \/ TakeLewa
    \/ NewRound
    \/ Stopped

Spec == Init /\ [][Next]_vars

(***************************************************************************)
(* Mutant: only the card that was led is looked up.                        *)
(***************************************************************************)
SetCardPlayed_LedOnly(hand, lewa) == {lewa[1]} \cap hand

-----------------------------------------------------------------------------
(***************************************************************************)
(* The client.  set_card_played(Lewa) marks the first card of the trick    *)
(* that is in the hand, and a client that takes a seat now learns the      *)
(* round from one DEAL and a TAKEN for each finished trick.                *)
(***************************************************************************)
SetCardPlayed(hand, lewa) ==
    LET mine == {i \in DOMAIN lewa : lewa[i] \in hand}
    IN IF mine = {} THEN {} ELSE {lewa[Min(mine)]}

ClientMarked(p) ==
    UNION {SetCardPlayed(PlayerCards(p), lewas_played[i].cards) : i \in DOMAIN lewas_played}

-----------------------------------------------------------------------------
(***************************************************************************)
(* The rules, as the repository's README states them: what a card and what *)
(* a trick cost the player who takes them.                                 *)
(***************************************************************************)
Cost(holds, points) == IF holds THEN points ELSE 0

CostOfCard(c) ==
    LET counts(type) == GameType \in {type, BANDIT}
    IN   Cost(counts(NO_HEART) /\ c \in Hearts, 1)
       + Cost(counts(NO_QUEEN) /\ c \in Queens, 5)
       + Cost(counts(NO_MISTER) /\ c \in Misters, 2)
       + Cost(counts(NO_KING_HEART) /\ c \in KingOfHearts, 18)

CostOfLewa(id) ==
      Cost(GameType \in {NO_LEWA, BANDIT}, 1)
    + Cost(GameType \in {NO_SEVEN_AND_LAST, BANDIT} /\ id \in {SeventhLewa, MaxNbrOfLewas}, 10)

PointsTaken(p) ==
    LET taken == {i \in DOMAIN lewas_played : lewas_played[i].taker = p}
        laid == UNION {{lewas_played[i].cards[k] : k \in 1 .. NumPlayers} : i \in taken}
    IN MapThenSumSet(CostOfLewa, taken) + MapThenSumSet(CostOfCard, laid)

(***************************************************************************)
(* Every variable keeps its type; the points fit uint8_t, short of the 255 *)
(* that SCORE cannot carry.                                                *)
(***************************************************************************)
TypeOK ==
    /\ round_number \in 1 .. NumRounds
    /\ first_player \in Players
    /\ curr_lewa \in Seq(Deck) /\ Len(curr_lewa) <= NumPlayers
    /\ Len(lewas_played) <= MaxNbrOfLewas
    /\ was_card_played \in [Players -> SUBSET Deck]
    /\ curr_game_points \in [Players -> 0 .. 254]

(***************************************************************************)
(* Nobody ever gets away with not following suit: a card of another suit   *)
(* was laid only by a seat all whose cards of the suit led were gone by    *)
(* then, as the deal and the earlier tricks tell (check_card_correctness   *)
(* decides it from marks instead).                                         *)
(***************************************************************************)
NoRevoke ==
    LET tricks == Append(lewas_played, [cards |-> curr_lewa, leader |-> first_player,
                                        taker |-> NumPlayers])
        gone(i) == UNION {{tricks[j].cards[k] : k \in 1 .. NumPlayers} : j \in 1 .. i - 1}
    IN \A i \in DOMAIN tricks : \A k \in DOMAIN tricks[i].cards :
        LET led == tricks[i].cards[1].suit
            seat == (tricks[i].leader + k - 1) % NumPlayers
        IN tricks[i].cards[k].suit # led =>
            \A c \in PlayerCards(seat) : c.suit = led => c \in gone(i)

(***************************************************************************)
(* The seat noted as taker of a trick was dealt its highest card of the    *)
(* suit led: the pass of check_who_won_lewa over positions names the right *)
(* seat for every leader.                                                  *)
(***************************************************************************)
TakerHighest ==
    \A i \in DOMAIN lewas_played :
        LET cards == {lewas_played[i].cards[k] : k \in 1 .. NumPlayers}
            led == lewas_played[i].cards[1].suit
        IN \E c \in cards \cap PlayerCards(lewas_played[i].taker) :
            /\ c.suit = led
            /\ \A d \in cards : d.suit = led => d.value <= c.value

(***************************************************************************)
(* The points a seat was charged trick by trick are what the rules charge  *)
(* for the tricks it took.                                                 *)
(***************************************************************************)
PointsByRules == \A p \in Players : curr_game_points[p] = PointsTaken(p)

(***************************************************************************)
(* A round is cut short when, and only when, all the points of its kind    *)
(* have been given out: the card counter, which knows no points, and the   *)
(* point counter, which knows no totals, agree.                            *)
(***************************************************************************)
RoundOverWhenDealtOut ==
    LET given[p \in 0 .. NumPlayers] ==
            IF p = 0 THEN 0 ELSE given[p - 1] + curr_game_points[p - 1]
        all == MapThenSumSet(CostOfCard, Deck) + MapThenSumSet(CostOfLewa, Lewas)
    IN HasGameEnded <=> given[NumPlayers] = all

(***************************************************************************)
(* A client that takes a seat in the middle of a round knows the server's  *)
(* copy of the hand from DEAL and the TAKENs, but for the card its seat    *)
(* may have on the table.                                                  *)
(***************************************************************************)
ReplacementKnowsHand ==
    LET on_table == {curr_lewa[k] : k \in DOMAIN curr_lewa}
    IN \A p \in Players : ClientMarked(p) = was_card_played[p] \ on_table

(***************************************************************************)
(* The automatic client always has a card to answer TRICK with, and the    *)
(* server accepts it: the two programs read the rule of following suit in  *)
(* the same way.                                                           *)
(***************************************************************************)
AutoPlayAccepted ==
    ~HasGameEnded /\ Len(curr_lewa) < NumPlayers =>
        LET left == PlayerCards(WhoseTurn) \ ClientMarked(WhoseTurn)
            suit == IF curr_lewa = << >> THEN NONE_SUIT ELSE curr_lewa[1].suit
        IN left # {} /\ CheckCardCorrectness(WhoseTurn, AutoCard(left, suit))
=============================================================================
