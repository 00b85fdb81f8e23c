---------------------------- MODULE CardsProofs ----------------------------
(***************************************************************************)
(* The automatic client finds a card in every hand, and the server accepts *)
(* it: play_card and check_card_correctness read the rule of following     *)
(* suit in the same way.                                                   *)
(***************************************************************************)
EXTENDS Cards, TLAPS, WellFoundedInduction

(***************************************************************************)
(* A set of naturals that is not empty has a least element.                *)
(***************************************************************************)
LEMMA LeastNat ==
    ASSUME NEW S, S \subseteq Nat, S # {}
    PROVE  \E m \in S : \A k \in S : m <= k
PROOF
<1>1. PICK m \in S : \A k \in S : ~ (<<k, m>> \in OpToRel(<, Nat))
  BY WFMin, NatLessThanWellFounded
<1>2. ASSUME NEW k \in S PROVE m <= k
  <2>1. m \in Nat /\ k \in Nat /\ ~ (k < m)
    BY <1>1 DEF OpToRel
  <2>2. QED
    BY <2>1
<1>3. QED
  BY <1>2

(***************************************************************************)
(* Induction over an interval: what holds of its first number, and of the  *)
(* next one whenever it holds of a number, holds of all.                   *)
(***************************************************************************)
LEMMA UpTo ==
    ASSUME NEW S, NEW a \in Nat, NEW n \in Nat, a \in S,
           \A i \in a .. n - 1 : i \in S => i + 1 \in S
    PROVE  a .. n \subseteq S
PROOF
<1> DEFINE bad == (a .. n) \ S
<1> SUFFICES ASSUME bad # {} PROVE FALSE
  OBVIOUS
<1>1. bad \subseteq Nat
  OBVIOUS
<1>2. PICK k \in bad : \A l \in bad : k <= l
  <2> HIDE DEF bad
  <2>1. QED
    BY <1>1, LeastNat
<1>3. k - 1 \in a .. n - 1 /\ k - 1 + 1 = k /\ ~ (k <= k - 1) /\ k - 1 \in a .. n
  BY <1>2
<1>4. k - 1 \in S
  BY <1>2, <1>3
<1>5. QED
  BY <1>2, <1>3, <1>4

(***************************************************************************)
(* play_card finds a card in every hand that is not empty: the order of    *)
(* the map's keys is total.                                                *)
(***************************************************************************)
LEMMA FirstCard ==
    ASSUME NEW cards, cards \subseteq [suit : Nat, value : Nat], cards # {}
    PROVE  FirstOf(cards) \in cards
PROOF
<1> DEFINE suits == {c.suit : c \in cards}
<1>1. /\ suits # {} /\ suits \subseteq Nat
      /\ \A c \in cards : c.suit \in Nat /\ c.value \in Nat
  OBVIOUS
<1>2. PICK s \in suits : \A k \in suits : s <= k
  <2> HIDE DEF suits
  <2>1. QED
    BY <1>1, LeastNat
<1> DEFINE values == {c.value : c \in {d \in cards : d.suit = s}}
<1>3. values # {} /\ values \subseteq Nat
  BY <1>1
<1>4. PICK v \in values : \A k \in values : v <= k
  <2> HIDE DEF values
  <2>1. QED
    BY <1>3, LeastNat
<1>5. PICK c \in cards : c.suit = s /\ c.value = v
  BY <1>4
<1>6. ASSUME NEW d \in cards \ {c} PROVE Before(c, d)
  <2>1. /\ c = [suit |-> c.suit, value |-> c.value]
        /\ d = [suit |-> d.suit, value |-> d.value]
    OBVIOUS
  <2>2. c.suit # d.suit \/ c.value # d.value
    BY <2>1, <1>6
  <2>3. s <= d.suit
    BY <1>2
  <2>4. d.suit = s => v <= d.value
    BY <1>4
  <2>5. /\ s \in Nat /\ v \in Nat /\ d.suit \in Nat /\ d.value \in Nat
    BY <1>1, <1>3
  <2> HIDE DEF suits, values
  <2>6. QED
    BY <1>5, <2>2, <2>3, <2>4, <2>5 DEF Before
<1>7. QED
  BY <1>6 DEF FirstOf

(***************************************************************************)
(* The automatic client's card is in its hand and would be accepted from   *)
(* that hand.                                                              *)
(***************************************************************************)
LEMMA AutoCardCorrect ==
    ASSUME NEW left, left \subseteq [suit : Nat, value : Nat], left # {}, NEW suit
    PROVE  /\ AutoCard(left, suit) \in left
           /\ CardCorrect(left, AutoCard(left, suit),
                          IF suit = NONE_SUIT THEN AutoCard(left, suit).suit ELSE suit)
PROOF
<1> DEFINE following == {c \in left : c.suit = suit}
<1>1. AutoCard(left, suit) = FirstOf(IF following = {} THEN left ELSE following)
  BY DEF AutoCard
<1>2. CASE following = {}
  <2>1. AutoCard(left, suit) \in left
    BY <1>1, <1>2, FirstCard
  <2>2. \A c \in left : c.suit # suit
    BY <1>2
  <2>3. QED
    BY <2>1, <2>2 DEF CardCorrect
<1>3. CASE following # {}
  <2>1. AutoCard(left, suit) \in following
    BY <1>1, <1>3, FirstCard
  <2>2. QED
    BY <2>1 DEF CardCorrect
<1>4. QED
  BY <1>2, <1>3
=============================================================================
