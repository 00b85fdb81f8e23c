------------------------------ MODULE Messages ------------------------------
(***************************************************************************)
(* The text of the messages: what each wrapper writes and what it makes of *)
(* the buffer it reads (init_comm_wrappers.cpp, ingame_comm_wrappers.cpp   *)
(* and the conversions of common.cpp and card_classes.cpp).                *)
(*                                                                         *)
(* A character is its ASCII code.  A buffer is what was read after the     *)
(* name of the packet, with the two end characters; Wire has the reading.  *)
(* An exception and an error code are both the value Rejected: what        *)
(* differs between them is left to Wire.                                   *)
(***************************************************************************)
EXTENDS Cards, Sequences, FiniteSets, SequencesExt

CR == 13
LF == 10
EndChars == <<CR, LF>>

NameChars == [IAM   |-> <<73, 65, 77>>,
              BUSY  |-> <<66, 85, 83, 89>>,
              DEAL  |-> <<68, 69, 65, 76>>,
              TRICK |-> <<84, 82, 73, 67, 75>>,
              WRONG |-> <<87, 82, 79, 78, 71>>,
              TAKEN |-> <<84, 65, 75, 69, 78>>,
              SCORE |-> <<83, 67, 79, 82, 69>>,
              TOTAL |-> <<84, 79, 84, 65, 76>>]

MinSize == [BUSY |-> 3, DEAL |-> 30, TRICK |-> 3, WRONG |-> 3, TAKEN |-> 12,
            SCORE |-> 10, TOTAL |-> 10]

(* Mutant: the buffer of TAKEN has no room for the id's second digit.      *)
MaxSize_TakenOneShort ==
    [IAM |-> 6, BUSY |-> 6, DEAL |-> 34, TRICK |-> 13, WRONG |-> 4, TAKEN |-> 16,
     SCORE |-> 18, TOTAL |-> 95]

MaxSize == [IAM |-> 6, BUSY |-> 6, DEAL |-> 34, TRICK |-> 13, WRONG |-> 4, TAKEN |-> 17,
            SCORE |-> 18, TOTAL |-> 95]

(***************************************************************************)
(* Seats are 0 .. 3; suits are their letters already.                      *)
(***************************************************************************)
SeatChar == [seat \in 0 .. 3 |-> <<78, 69, 83, 87>>[seat + 1]]
SeatOf(char) == CHOOSE seat \in DOMAIN SeatChar : SeatChar[seat] = char
SeatChars == {SeatChar[seat] : seat \in DOMAIN SeatChar}
SuitChars == {HEARTS, 68, 67, 83}
FigureChar == [value \in J .. A |-> <<74, 81, 75, 65>>[value - J + 1]]

Digits == 48 .. 57
DigitOf(char) == char - 48

(* std::to_string                                                          *)
Numeral[n \in Nat] ==
    IF n < 10 THEN <<n + 48>> ELSE Append(Numeral[n \div 10], (n % 10) + 48)

(* std::stoi and std::stoul, of digits                                     *)
Number(chars) == FoldLeft(LAMBDA n, char : 10 * n + DigitOf(char), 0, chars)

-----------------------------------------------------------------------------
(* The messages: what the wrappers are built with before they are written. *)

Card == [suit : SuitChars, value : 2 .. A]

IAMs == [name : {"IAM"}, seat : 0 .. 3]
BUSYs == [name : {"BUSY"}, seats : UNION {[1 .. n -> 0 .. 3] : n \in 1 .. 4}]
DEALs == [name : {"DEAL"}, type : 1 .. 7, seat : 0 .. 3,
          hand : {hand \in SUBSET Card : Cardinality(hand) = 13}]
TRICKs == [name : {"TRICK"}, id : 1 .. 13, cards : BoundedSeq(Card, 3)]
WRONGs == [name : {"WRONG"}, id : 1 .. 13]
TAKENs == [name : {"TAKEN"}, id : 1 .. 13, cards : [1 .. 4 -> Card], seat : 0 .. 3]
SCOREs == [name : {"SCORE"}, scores : [0 .. 3 -> 0 .. 254]]

(***************************************************************************)
(* A total is a uint32_t, which has no more than ten digits.               *)
(***************************************************************************)
TOTALs == [name : {"TOTAL"}, scores : [0 .. 3 -> {n \in Nat : Len(Numeral[n]) <= 10}]]

-----------------------------------------------------------------------------
(* Writing.                                                                *)

CardChars(card) ==
    Append(IF card.value \in DOMAIN FigureChar THEN <<FigureChar[card.value]>>
           ELSE Numeral[card.value], card.suit)

CardsChars(cards) == FlattenSeq([i \in DOMAIN cards |-> CardChars(cards[i])])

(***************************************************************************)
(* A hand is a map ordered by operator<.                                   *)
(***************************************************************************)
HandChars(hand) ==
    CardsChars([i \in 1 .. Cardinality(hand) |->
        CHOOSE c \in hand : Cardinality({d \in hand : Before(d, c)}) = i - 1])

IdChars(id) == Numeral[id]

ScoresChars(scores) ==
    FlattenSeq([i \in 1 .. 4 |-> <<SeatChar[i - 1]>> \o Numeral[scores[i - 1]]])

Packet(name, body) == NameChars[name] \o body \o EndChars

WriteIAM(m) == Packet("IAM", <<SeatChar[m.seat]>>)
WriteBUSY(m) == Packet("BUSY", [i \in DOMAIN m.seats |-> SeatChar[m.seats[i]]])
WriteDEAL(m) == Packet("DEAL", <<m.type + 48, SeatChar[m.seat]>> \o HandChars(m.hand))
WriteTRICK(m) == Packet("TRICK", IdChars(m.id) \o CardsChars(m.cards))
WriteWRONG(m) == Packet("WRONG", IdChars(m.id))
WriteTAKEN(m) == Packet("TAKEN", IdChars(m.id) \o CardsChars(m.cards) \o <<SeatChar[m.seat]>>)
WriteSCORE(m) == Packet("SCORE", ScoresChars(m.scores))
WriteTOTAL(m) == Packet("TOTAL", ScoresChars(m.scores))

-----------------------------------------------------------------------------
(* Reading.                                                                *)

Rejected == [name |-> "rejected"]

CharAt(buff, i) == IF i \in DOMAIN buff THEN buff[i] ELSE 0

(***************************************************************************)
(* determine_lewa_id and set_lewa_id: as many characters as the reader's   *)
(* own trick id has, not checked to be digits, in eight bits.              *)
(***************************************************************************)
IdLength(readers_id) == IF readers_id >= 10 THEN 2 ELSE 1

LewaId(buff, readers_id) ==
    (IF IdLength(readers_id) = 2
     THEN 10 * DigitOf(buff[1]) + DigitOf(buff[2])
     ELSE DigitOf(buff[1])) % 256

(* Mutant: any number is taken for a trick's id.                           *)
IdInRange_Any(id) == id \in Nat

IdInRange(id) == id \in 1 .. 13

(***************************************************************************)
(* A card takes three characters if it begins with 1.  determine_value,    *)
(* with 0 for an exception.                                                *)
(***************************************************************************)
CardWidth(buff, i) == IF CharAt(buff, i) = 49 THEN 3 ELSE 2

Value(buff, i) ==
    LET char == CharAt(buff, i)
    IN IF char = 49 THEN (IF CharAt(buff, i + 1) = 48 THEN 10 ELSE 0)
       ELSE IF char \in Digits \ {48} THEN DigitOf(char)
       ELSE IF \E v \in J .. A : FigureChar[v] = char
       THEN CHOOSE v \in J .. A : FigureChar[v] = char
       ELSE 0

CardAt(buff, i) == [suit |-> CharAt(buff, i + CardWidth(buff, i) - 1), value |-> Value(buff, i)]

IsCard(card) == card.suit \in SuitChars /\ card.value # 0

(***************************************************************************)
(* The loop over the cards: from one position up to another, and at most   *)
(* so many; next is where it stops.                                        *)
(***************************************************************************)
CardsIn(buff, first, last, most) ==
    LET start[k \in 1 .. most + 1] ==
            IF k = 1 THEN first ELSE start[k - 1] + CardWidth(buff, start[k - 1])
        count == Cardinality({k \in 1 .. most : start[k] <= last})
    IN [cards |-> [k \in 1 .. count |-> CardAt(buff, start[k])],
        next |-> start[count + 1]]

AllCards(cards) == \A i \in DOMAIN cards : IsCard(cards[i])

ReadIAM(buff) ==
    IF /\ Len(buff) = MaxSize.IAM
       /\ SubSeq(buff, 1, 3) = NameChars.IAM
       /\ buff[4] \in SeatChars
    THEN [name |-> "IAM", seat |-> SeatOf(buff[4])]
    ELSE Rejected

ReadBUSY(buff) ==
    LET chars == SubSeq(buff, 1, Len(buff) - 2)
    IN IF Len(buff) >= MinSize.BUSY /\ \A i \in DOMAIN chars : chars[i] \in SeatChars
       THEN [name |-> "BUSY", seats |-> [i \in DOMAIN chars |-> SeatOf(chars[i])]]
       ELSE Rejected

(***************************************************************************)
(* DeckOfCards::add_card refuses a card twice and a fourteenth card.       *)
(***************************************************************************)
ReadDEAL(buff) ==
    LET cards == CardsIn(buff, 3, Len(buff) - 3, 14).cards
        hand == {cards[i] : i \in DOMAIN cards}
    IN IF /\ Len(buff) >= MinSize.DEAL
          /\ buff[1] \in 49 .. 55 /\ buff[2] \in SeatChars
          /\ AllCards(cards) /\ Len(cards) = 13 /\ Cardinality(hand) = 13
       THEN [name |-> "DEAL", type |-> DigitOf(buff[1]), seat |-> SeatOf(buff[2]), hand |-> hand]
       ELSE Rejected

ReadTRICK(buff, readers_id) ==
    LET id == LewaId(buff, readers_id)
        cards == CardsIn(buff, IdLength(readers_id) + 1, Len(buff) - 2, 5).cards
    IN IF /\ Len(buff) >= MinSize.TRICK
          /\ IdInRange(id) /\ AllCards(cards) /\ Len(cards) <= 4
       THEN [name |-> "TRICK", id |-> id, cards |-> cards]
       ELSE Rejected

ReadWRONG(buff, readers_id) ==
    IF Len(buff) >= MinSize.WRONG /\ IdInRange(LewaId(buff, readers_id))
    THEN [name |-> "WRONG", id |-> LewaId(buff, readers_id)]
    ELSE Rejected

ReadTAKEN(buff, readers_id) ==
    LET id == LewaId(buff, readers_id)
        in == CardsIn(buff, IdLength(readers_id) + 1, Len(buff) - 3, 4)
        last == buff[Len(buff) - 2]
    IN IF /\ Len(buff) >= MinSize.TAKEN
          /\ IdInRange(id) /\ AllCards(in.cards)
          /\ in.next = Len(buff) - 2 /\ last \in SeatChars
       THEN [name |-> "TAKEN", id |-> id, cards |-> in.cards, seat |-> SeatOf(last)]
       ELSE Rejected

(***************************************************************************)
(* get_scores_from_buffer, before the digits are converted: the digits     *)
(* after each seat's letter.  Digits before the first letter are dropped;  *)
(* a seat twice, a seat without digits and any other character throw.      *)
(***************************************************************************)
ScoresIn(buff) ==
    LET chars == SubSeq(buff, 1, Len(buff) - 2)
        letters == {i \in DOMAIN chars : chars[i] \in SeatChars}
        end(i) == Min({j \in letters : j > i} \cup {Len(chars) + 1})
        score(i) == SubSeq(chars, i + 1, end(i) - 1)
    IN IF /\ letters # {}
          /\ \A i \in DOMAIN chars : chars[i] \in SeatChars \cup Digits
          /\ \A i, j \in letters : chars[i] = chars[j] => i = j
          /\ \A i \in letters : score(i) # << >>
       THEN [seat \in {SeatOf(chars[i]) : i \in letters} |->
                score(CHOOSE i \in letters : SeatOf(chars[i]) = seat)]
       ELSE << >>

(***************************************************************************)
(* A score of the round goes through uint16_t into uint8_t, and 255 is     *)
(* refused; a total goes into uint32_t.                                    *)
(***************************************************************************)
ReadSCORE(buff) ==
    LET scores == ScoresIn(buff)
    IN IF /\ Len(buff) >= MinSize.SCORE /\ scores # << >>
          /\ \A seat \in DOMAIN scores : (Number(scores[seat]) % 65536) < 255
       THEN [name |-> "SCORE", scores |-> [seat \in DOMAIN scores |-> (Number(scores[seat]) % 256)]]
       ELSE Rejected

ReadTOTAL(buff) ==
    LET scores == ScoresIn(buff)
    IN IF Len(buff) >= MinSize.TOTAL /\ scores # << >>
       THEN [name |-> "TOTAL", scores |-> [seat \in DOMAIN scores |-> Number(scores[seat])]]
       ELSE Rejected
=============================================================================
