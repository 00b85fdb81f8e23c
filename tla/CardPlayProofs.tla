--------------------------- MODULE CardPlayProofs ---------------------------
(***************************************************************************)
(* The invariant of CardPlay is kept by every step, and its properties     *)
(* follow from it, for any deck dealt in equal hands, any number of        *)
(* players, tricks and rounds.                                             *)
(***************************************************************************)
EXTENDS CardPlayInv, CardsProofs, FiniteSetTheorems

-----------------------------------------------------------------------------
(* Seats.                                                                  *)

(***************************************************************************)
(* The seats of a trick go once round the table.                           *)
(***************************************************************************)
LEMMA SeatWraps ==
    ASSUME NEW leader \in Players, NEW k \in 1 .. NumPlayers
    PROVE  /\ SeatAt(leader, k) \in Players
           /\ SeatAt(leader, k) = IF leader + k - 1 < NumPlayers THEN leader + k - 1
                                  ELSE leader + k - 1 - NumPlayers
PROOF
<1>1. NumPlayers \in Nat /\ NumPlayers > 0
  BY SizesAssumption
<1>2. leader \in Int /\ 0 <= leader /\ leader < NumPlayers
  BY <1>1 DEF Players
<1>3. \A x \in Nat : x < NumPlayers => x % NumPlayers = x
  BY <1>1
<1>4. \A x \in Nat : NumPlayers <= x /\ x < 2 * NumPlayers => x % NumPlayers = x - NumPlayers
  BY <1>1, Z3
<1>5. CASE leader + k - 1 < NumPlayers
  <2>1. SeatAt(leader, k) = leader + k - 1
    BY <1>1, <1>2, <1>3, <1>5 DEF SeatAt
  <2>2. QED
    BY <1>1, <1>2, <1>5, <2>1 DEF Players
<1>6. CASE ~ (leader + k - 1 < NumPlayers)
  <2>1. SeatAt(leader, k) = leader + k - 1 - NumPlayers
    BY <1>1, <1>2, <1>4, <1>6 DEF SeatAt
  <2>2. QED
    BY <1>1, <1>2, <1>6, <2>1 DEF Players
<1>7. QED
  BY <1>5, <1>6

(***************************************************************************)
(* Two cards of one trick are of two seats.                                *)
(***************************************************************************)
LEMMA SeatsDiffer ==
    ASSUME NEW leader \in Players, NEW k \in 1 .. NumPlayers, NEW l \in 1 .. NumPlayers,
           SeatAt(leader, k) = SeatAt(leader, l)
    PROVE  k = l
PROOF
<1>1. NumPlayers \in Nat /\ leader \in Int /\ k \in Int /\ l \in Int
      /\ 1 <= k /\ k <= NumPlayers /\ 1 <= l /\ l <= NumPlayers
  BY SizesAssumption DEF Players
<1>2. /\ SeatAt(leader, k) = IF leader + k - 1 < NumPlayers THEN leader + k - 1
                             ELSE leader + k - 1 - NumPlayers
      /\ SeatAt(leader, l) = IF leader + l - 1 < NumPlayers THEN leader + l - 1
                             ELSE leader + l - 1 - NumPlayers
  BY SeatWraps
<1> DEFINE a == SeatAt(leader, k)
<1>3. (a = leader + k - 1 \/ a = leader + k - 1 - NumPlayers)
      /\ (a = leader + l - 1 \/ a = leader + l - 1 - NumPlayers)
  BY <1>2
<1> HIDE DEF a
<1>4. QED
  BY <1>1, <1>3

(***************************************************************************)
(* A full trick has a card of every seat.                                  *)
(***************************************************************************)
LEMMA EverySeat ==
    ASSUME NEW leader \in Players, NEW p \in Players
    PROVE  \E k \in 1 .. NumPlayers : p = SeatAt(leader, k)
PROOF
<1>1. NumPlayers \in Nat /\ NumPlayers > 0 /\ leader \in 0 .. NumPlayers - 1
      /\ p \in 0 .. NumPlayers - 1
  BY SizesAssumption DEF Players
<1>2. CASE leader <= p
  <2> DEFINE k == p - leader + 1
  <2>1. k \in 1 .. NumPlayers /\ leader + k - 1 = p
    BY <1>1, <1>2
  <2>2. SeatAt(leader, k) = p
    BY <1>1, <2>1, SeatWraps
  <2>3. QED
    BY <2>1, <2>2
<1>3. CASE p < leader
  <2> DEFINE k == p - leader + 1 + NumPlayers
  <2>1. k \in 1 .. NumPlayers /\ leader + k - 1 = p + NumPlayers
    BY <1>1, <1>3
  <2>2. SeatAt(leader, k) = p + NumPlayers - NumPlayers
    <3> HIDE DEF k
    <3>1. ~ (leader + k - 1 < NumPlayers)
      BY <1>1, <2>1
    <3>2. SeatAt(leader, k) = leader + k - 1 - NumPlayers
      BY <2>1, <3>1, SeatWraps
    <3>3. leader + k - 1 - NumPlayers = p + NumPlayers - NumPlayers
      BY <1>1, <2>1
    <3>4. QED
      BY <3>2, <3>3
  <2>3. p + NumPlayers - NumPlayers = p
    BY <1>1
  <2>4. QED
    BY <2>1, <2>2, <2>3
<1>4. QED
  BY <1>1, <1>2, <1>3

-----------------------------------------------------------------------------
(* Sizes.                                                                  *)

(***************************************************************************)
(* The first n of a row of sets, none of more than m elements, have not    *)
(* more than n * m together.                                               *)
(***************************************************************************)
LEMMA UnionBound ==
    ASSUME NEW hands, NEW m \in Nat, NEW n \in Nat,
           \A p \in 0 .. n - 1 : IsFiniteSet(hands[p]) /\ Cardinality(hands[p]) <= m
    PROVE  LET all == UNION {hands[p] : p \in 0 .. n - 1}
           IN IsFiniteSet(all) /\ Cardinality(all) <= n * m
PROOF
<1> DEFINE First(k) == UNION {hands[p] : p \in 0 .. k - 1}
           Bounded(k) == IsFiniteSet(First(k)) /\ Cardinality(First(k)) <= k * m
           good == {k \in 0 .. n : Bounded(k)}
<1>1. Bounded(0)
  <2>1. First(0) = {}
    OBVIOUS
  <2>2. QED
    BY <2>1, FS_EmptySet
<1>2. ASSUME NEW k \in 0 .. n - 1, Bounded(k) PROVE Bounded(k + 1)
  <2>1. First(k + 1) = First(k) \cup hands[k]
    <3>1. 0 .. k + 1 - 1 = (0 .. k - 1) \cup {k}
      OBVIOUS
    <3>2. QED
      BY <3>1
  <2>2. IsFiniteSet(hands[k]) /\ Cardinality(hands[k]) <= m
    OBVIOUS
  <2> HIDE DEF First
  <2>3. /\ IsFiniteSet(First(k) \cup hands[k])
        /\ Cardinality(First(k) \cup hands[k]) =
             Cardinality(First(k)) + Cardinality(hands[k]) - Cardinality(First(k) \cap hands[k])
    BY <1>2, <2>2, FS_Union
  <2>4. /\ Cardinality(First(k)) \in Nat /\ Cardinality(hands[k]) \in Nat
        /\ Cardinality(First(k) \cap hands[k]) \in Nat
    BY <1>2, <2>2, FS_CardinalityType, FS_Intersection
  <2>5. (k + 1) * m = k * m + m /\ k * m \in Nat
    OBVIOUS
  <2>6. Cardinality(First(k)) <= k * m
    BY <1>2
  <2>7. Cardinality(First(k + 1)) <= (k + 1) * m
    <3> DEFINE a == Cardinality(First(k))
               b == Cardinality(hands[k])
               c == Cardinality(First(k) \cap hands[k])
    <3>1. a \in Nat /\ b \in Nat /\ c \in Nat /\ a <= k * m /\ b <= m
      BY <2>2, <2>4, <2>6
    <3>2. Cardinality(First(k + 1)) = a + b - c
      BY <2>1, <2>3
    <3> HIDE DEF a, b, c
    <3>3. QED
      BY <2>5, <3>1, <3>2
  <2>8. QED
    BY <2>1, <2>3, <2>7
<1>3. 0 .. n \subseteq good
  <2> HIDE DEF Bounded
  <2>1. 0 \in good /\ \A k \in 0 .. n - 1 : k \in good => k + 1 \in good
    BY <1>1, <1>2
  <2> HIDE DEF good
  <2>2. QED
    BY <2>1, UpTo
<1>4. Bounded(n)
  <2>1. n \in good
    BY <1>3
  <2> HIDE DEF Bounded
  <2>2. QED
    BY <2>1
<1>5. QED
  BY <1>4

(***************************************************************************)
(* The deck is finite, and there is one king of hearts.                    *)
(***************************************************************************)
LEMMA DeckFacts ==
    /\ IsFiniteSet(Deck)
    /\ Hearts \subseteq Deck /\ Queens \subseteq Deck /\ Misters \subseteq Deck
    /\ KingOfHearts \subseteq Deck
    /\ Cardinality(Hearts) = MaxOneColorSize
    /\ Cardinality(Queens) = MaxOneFigureSize
    /\ Cardinality(Misters) = 2 * MaxOneFigureSize
    /\ Cardinality(KingOfHearts) = 1
    /\ MaxOneColorSize \in Nat /\ MaxOneFigureSize \in Nat
PROOF
<1>1. /\ IsFiniteSet(Deck)
      /\ Hearts \subseteq Deck /\ Queens \subseteq Deck /\ Misters \subseteq Deck
      /\ KingOfHearts \subseteq Deck
  BY DeckAssumption DEF Hearts, Queens, Misters, KingOfHearts
<1>2. Cardinality(Hearts) = MaxOneColorSize /\ MaxOneColorSize \in Nat
  BY <1>1, DeckAssumption, FS_Subset, FS_CardinalityType
<1>3. Cardinality(Queens) = MaxOneFigureSize /\ MaxOneFigureSize \in Nat
  <2>1. Cardinality(Queens) = MaxOneFigureSize
    BY DeckAssumption DEF Queens
  <2>2. QED
    BY <1>1, <2>1, FS_Subset, FS_CardinalityType
<1>4. Cardinality(Misters) = 2 * MaxOneFigureSize
  <2> DEFINE jacks == {c \in Deck : c.value = J}
             kings == {c \in Deck : c.value = K}
  <2>1. Cardinality(jacks) = MaxOneFigureSize /\ Cardinality(kings) = MaxOneFigureSize
    BY DeckAssumption
  <2>2. Misters = jacks \cup kings /\ jacks \cap kings = {}
    BY DEF Misters, J, K
  <2>3. IsFiniteSet(jacks) /\ IsFiniteSet(kings)
    <3>1. jacks \subseteq Deck /\ kings \subseteq Deck
      OBVIOUS
    <3>2. QED
      BY <1>1, <3>1, FS_Subset
  <2> HIDE DEF jacks, kings
  <2>4. Cardinality(jacks \cup kings) =
          Cardinality(jacks) + Cardinality(kings) - Cardinality(jacks \cap kings)
    BY <2>3, FS_Union
  <2>5. Cardinality(jacks \cap kings) = 0
    BY <2>2, FS_EmptySet
  <2>6. QED
    BY <1>3, <2>1, <2>2, <2>4, <2>5
<1>5. Cardinality(KingOfHearts) = 1
  <2>1. PICK c : c \in KingOfHearts
    BY DeckAssumption
  <2>2. \A d \in KingOfHearts : d = c
    <3>1. \A d \in KingOfHearts : d \in [suit : Nat \ {NONE_SUIT}, value : Nat]
      BY DeckAssumption DEF KingOfHearts
    <3>2. \A d \in KingOfHearts : d.suit = HEARTS /\ d.value = K
      BY DEF KingOfHearts
    <3>3. QED
      BY <2>1, <3>1, <3>2
  <2>3. KingOfHearts = {c}
    BY <2>1, <2>2
  <2>4. QED
    BY <2>3, FS_Singleton
<1>6. QED
  BY <1>1, <1>2, <1>3, <1>4, <1>5

(***************************************************************************)
(* A whole deck in equal hands: no card is in two of them.                 *)
(***************************************************************************)
LEMMA HandsApart ==
    ASSUME NEW hands,
           UNION {hands[p] : p \in Players} = Deck,
           \A p \in Players : Cardinality(hands[p]) = MaxNbrOfLewas,
           NEW p \in Players, NEW q \in Players, p # q
    PROVE  hands[p] \cap hands[q] = {}
PROOF
<1> SUFFICES ASSUME NEW c \in hands[p], c \in hands[q]
             PROVE  FALSE
  OBVIOUS
<1>1. /\ NumPlayers \in Nat /\ NumPlayers > 0 /\ MaxNbrOfLewas \in Nat
      /\ p \in Nat /\ p < NumPlayers
  BY SizesAssumption DEF Players
<1> DEFINE n == NumPlayers - 1
           others == [i \in 0 .. n - 1 |-> IF i < p THEN hands[i] ELSE hands[i + 1]]
           all == UNION {others[i] : i \in 0 .. n - 1}
<1>2. n \in Nat
  BY <1>1
<1>3. \A t \in Players : IsFiniteSet(hands[t])
  BY DeckAssumption, FS_Subset
<1>4. \A i \in 0 .. n - 1 : IsFiniteSet(others[i]) /\ Cardinality(others[i]) <= MaxNbrOfLewas
  <2> SUFFICES ASSUME NEW i \in 0 .. n - 1
               PROVE  IsFiniteSet(others[i]) /\ Cardinality(others[i]) <= MaxNbrOfLewas
    OBVIOUS
  <2>1. i \in Players /\ i + 1 \in Players
    BY <1>1 DEF Players
  <2>2. others[i] = hands[i] \/ others[i] = hands[i + 1]
    OBVIOUS
  <2>3. QED
    BY <1>1, <1>3, <2>1, <2>2
<1>5. IsFiniteSet(all) /\ Cardinality(all) <= n * MaxNbrOfLewas
  <2> HIDE DEF n, others
  <2>1. QED
    BY <1>1, <1>2, <1>4, UnionBound
<1>6. \A t \in Players \ {p} : hands[t] \subseteq all
  <2> SUFFICES ASSUME NEW t \in Players, t # p
               PROVE  \E i \in 0 .. n - 1 : others[i] = hands[t]
    OBVIOUS
  <2>1. CASE t < p
    <3>1. t \in 0 .. n - 1
      BY <1>1, <2>1 DEF Players
    <3>2. QED
      BY <2>1, <3>1
  <2>2. CASE t > p
    <3>1. t - 1 \in 0 .. n - 1 /\ ~ (t - 1 < p) /\ t - 1 + 1 = t
      BY <1>1, <2>2 DEF Players
    <3>2. QED
      BY <3>1
  <2>3. QED
    BY <1>1, <2>1, <2>2 DEF Players
<1>7. Deck = all \cup (hands[p] \ {c})
  <2>1. c \in all
    BY <1>6
  <2>2. all \subseteq Deck
    <3>1. \A i \in 0 .. n - 1 : others[i] \subseteq Deck
      <4>1. \A i \in 0 .. n - 1 : i \in Players /\ i + 1 \in Players
        BY <1>1 DEF Players
      <4>2. QED
        BY <4>1
    <3>2. QED
      BY <3>1
  <2>3. \A d \in Deck : \E t \in Players : d \in hands[t]
    OBVIOUS
  <2> HIDE DEF all
  <2>4. QED
    BY <1>6, <2>1, <2>2, <2>3
<1> HIDE DEF all
<1>8. /\ IsFiniteSet(hands[p] \ {c})
      /\ Cardinality(hands[p] \ {c}) = MaxNbrOfLewas - 1
  BY <1>3, FS_RemoveElement
<1>9. /\ Cardinality(Deck) = Cardinality(all) + Cardinality(hands[p] \ {c})
                             - Cardinality(all \cap (hands[p] \ {c}))
      /\ Cardinality(all \cap (hands[p] \ {c})) \in Nat
      /\ Cardinality(all) \in Nat
  BY <1>5, <1>7, <1>8, FS_Union, FS_Intersection, FS_CardinalityType
<1>10. n * MaxNbrOfLewas = NumPlayers * MaxNbrOfLewas - MaxNbrOfLewas
       /\ NumPlayers * MaxNbrOfLewas \in Nat
  BY <1>1
<1>11. Cardinality(Deck) = NumPlayers * MaxNbrOfLewas
  BY DeckAssumption
<1> DEFINE a == Cardinality(all)
           b == Cardinality(all \cap (hands[p] \ {c}))
           d == Cardinality(Deck)
<1>12. d = a + (MaxNbrOfLewas - 1) - b /\ a \in Nat /\ b \in Nat
       /\ a <= d - MaxNbrOfLewas /\ d \in Nat
  BY <1>5, <1>8, <1>9, <1>10, <1>11
<1> HIDE DEF a, b, d
<1>13. QED
  BY <1>1, <1>12

-----------------------------------------------------------------------------
(* Hands and tricks.                                                       *)

(***************************************************************************)
(* The round on the table is a round of the file: equal hands of one deck. *)
(***************************************************************************)
LEMMA HandsDealt ==
    ASSUME rounds \in Games, round_number \in 1 .. NumRounds
    PROVE  /\ GameType \in GameTypes
           /\ UNION {PlayerCards(p) : p \in Players} = Deck
           /\ \A p \in Players :
                /\ PlayerCards(p) \subseteq Deck
                /\ IsFiniteSet(PlayerCards(p))
                /\ Cardinality(PlayerCards(p)) = MaxNbrOfLewas
           /\ \A p, q \in Players : p # q => PlayerCards(p) \cap PlayerCards(q) = {}
PROOF
<1> DEFINE hands == rounds[round_number].player_cards
<1>1. /\ GameType \in GameTypes
      /\ UNION {hands[p] : p \in Players} = Deck
      /\ \A p \in Players : Cardinality(hands[p]) = MaxNbrOfLewas
  BY GamesAssumption DEF GameType
<1>2. \A p \in Players : PlayerCards(p) = hands[p]
  BY DEF PlayerCards
<1> HIDE DEF hands
<1>3. \A p \in Players : hands[p] \subseteq Deck
  BY <1>1
<1>4. \A p \in Players : IsFiniteSet(hands[p])
  BY <1>3, DeckAssumption, FS_Subset
<1>5. \A p, q \in Players : p # q => hands[p] \cap hands[q] = {}
  BY <1>1, HandsApart
<1>6. UNION {PlayerCards(p) : p \in Players} = UNION {hands[p] : p \in Players}
  BY <1>2
<1>7. QED
  BY <1>1, <1>2, <1>3, <1>4, <1>5, <1>6

(***************************************************************************)
(* The cards of a trick that is laid from the hands in turn are distinct.  *)
(***************************************************************************)
LEMMA TrickDistinct ==
    ASSUME rounds \in Games, round_number \in 1 .. NumRounds,
           NEW leader \in Players, NEW lewa \in Seq(Deck),
           Len(lewa) <= NumPlayers, FromHands(leader, lewa),
           NEW k \in DOMAIN lewa, NEW l \in DOMAIN lewa, lewa[k] = lewa[l]
    PROVE  k = l
PROOF
<1>1. k \in 1 .. NumPlayers /\ l \in 1 .. NumPlayers
  BY SizesAssumption
<1>2. lewa[k] \in PlayerCards(SeatAt(leader, k)) /\ lewa[k] \in PlayerCards(SeatAt(leader, l))
  BY DEF FromHands
<1>3. SeatAt(leader, k) \in Players /\ SeatAt(leader, l) \in Players
  BY <1>1, SeatWraps
<1>4. SeatAt(leader, k) = SeatAt(leader, l)
  BY <1>2, <1>3, HandsDealt
<1>5. QED
  BY <1>1, <1>4, SeatsDiffer

(***************************************************************************)
(* The counters count positions of a trick; as its cards are distinct that *)
(* is as many as there are cards.                                          *)
(***************************************************************************)
LEMMA AmongCounts ==
    ASSUME NEW lewa \in Seq(Deck), NEW cards,
           \A k, l \in DOMAIN lewa : lewa[k] = lewa[l] => k = l
    PROVE  Among(cards, lewa) = Cardinality(cards \cap In(lewa))
PROOF
<1> DEFINE at == {i \in DOMAIN lewa : lewa[i] \in cards}
           found == cards \cap In(lewa)
           f == [i \in at |-> lewa[i]]
<1>1. IsFiniteSet(at)
  <2>1. Len(lewa) \in Nat /\ DOMAIN lewa = 1 .. Len(lewa)
    OBVIOUS
  <2>2. IsFiniteSet(1 .. Len(lewa))
    BY <2>1, FS_Interval
  <2>3. QED
    BY <2>1, <2>2, FS_Subset
<1>2. f \in Bijection(at, found)
  <2>1. f \in [at -> found]
    BY DEF In
  <2>2. f \in Injection(at, found)
    BY <2>1 DEF Injection, IsInjective
  <2>3. f \in Surjection(at, found)
    BY <2>1 DEF Surjection, In
  <2>4. QED
    BY <2>2, <2>3 DEF Bijection
<1> HIDE DEF at, found, f
<1>3. ExistsBijection(at, found)
  BY <1>2 DEF ExistsBijection
<1>4. Cardinality(found) = Cardinality(at)
  BY <1>1, <1>3, FS_Bijection
<1>5. QED
  BY <1>4 DEF Among, at, found

(***************************************************************************)
(* Of two sets with no common card, each kind of card is counted apart.    *)
(***************************************************************************)
LEMMA CountApart ==
    ASSUME NEW cards, NEW some \in SUBSET Deck, NEW more \in SUBSET Deck,
           some \cap more = {}
    PROVE  /\ Cardinality(cards \cap (some \cup more)) =
                Cardinality(cards \cap some) + Cardinality(cards \cap more)
           /\ Cardinality(cards \cap some) \in Nat
           /\ Cardinality(cards \cap more) \in Nat
PROOF
<1> DEFINE a == cards \cap some
           b == cards \cap more
<1>1. a \subseteq Deck /\ b \subseteq Deck /\ a \cap b = {} /\ cards \cap (some \cup more) = a \cup b
  OBVIOUS
<1> HIDE DEF a, b
<1>2. IsFiniteSet(a) /\ IsFiniteSet(b)
  BY <1>1, DeckAssumption, FS_Subset
<1>3. /\ Cardinality(a) \in Nat /\ Cardinality(b) \in Nat
      /\ Cardinality(a \cup b) = Cardinality(a) + Cardinality(b) - Cardinality(a \cap b)
      /\ Cardinality(a \cap b) = 0
  BY <1>1, <1>2, FS_CardinalityType, FS_Union, FS_EmptySet
<1>4. Cardinality(a \cup b) = Cardinality(a) + Cardinality(b)
  BY <1>3
<1>5. QED
  BY <1>1, <1>3, <1>4 DEF a, b

(***************************************************************************)
(* The cards of the tricks are cards of the deck.                          *)
(***************************************************************************)
LEMMA LaidInDeck ==
    ASSUME CardTypes
    PROVE  /\ In(curr_lewa) \subseteq Deck
           /\ Laid \subseteq Deck
           /\ \A i \in DOMAIN lewas_played :
                /\ lewas_played[i].cards \in Seq(Deck)
                /\ lewas_played[i].leader \in Players
                /\ lewas_played[i].taker \in Players
                /\ In(lewas_played[i].cards) \subseteq Laid
PROOF
<1>1. \A lewa \in Seq(Deck) : In(lewa) \subseteq Deck
  BY DEF In
<1>2. \A i \in DOMAIN lewas_played : lewas_played[i] \in Trick
  BY DEF CardTypes
<1>3. QED
  BY <1>1, <1>2 DEF CardTypes, Trick, Laid

(***************************************************************************)
(* When the last trick is finished every card has been laid, so that every *)
(* kind of round is over.                                                  *)
(***************************************************************************)
LEMMA AllLaid ==
    ASSUME rounds \in Games, CardInv, Len(lewas_played) = MaxNbrOfLewas
    PROVE  Laid = Deck /\ HasGameEnded
PROOF
<1>0. CardTypes /\ InTurn /\ LaidOnce /\ Marked /\ Counted
  BY DEF CardInv
<1>1. curr_lewa = << >> /\ MaxNbrOfLewas \in Nat
  BY <1>0, SizesAssumption DEF LaidOnce
<1>2. In(curr_lewa) = {} /\ \A p \in Players : ~ HasLaid(p)
  BY <1>1 DEF In, HasLaid
<1>3. \A p \in Players : PlayerCards(p) \subseteq Laid
  <2> SUFFICES ASSUME NEW p \in Players PROVE PlayerCards(p) \subseteq Laid
    OBVIOUS
  <2>1. was_card_played[p] = PlayerCards(p) \cap Laid
    BY <1>0, <1>2 DEF Marked
  <2>2. Cardinality(was_card_played[p]) = MaxNbrOfLewas
    BY <1>0, <1>1, <1>2 DEF Marked
  <2>3. IsFiniteSet(PlayerCards(p)) /\ Cardinality(PlayerCards(p)) = MaxNbrOfLewas
    BY <1>0, HandsDealt DEF CardTypes
  <2>4. was_card_played[p] = PlayerCards(p)
    BY <2>1, <2>2, <2>3, FS_Subset
  <2>5. QED
    BY <2>1, <2>4
<1>4. Laid = Deck
  <2>1. UNION {PlayerCards(p) : p \in Players} = Deck
    BY <1>0, HandsDealt DEF CardTypes
  <2>2. QED
    BY <1>0, <1>3, <2>1, LaidInDeck
<1>5. /\ card_counter.lewas = MaxNbrOfLewas
      /\ card_counter.hearts = Cardinality(Hearts \cap Deck)
      /\ card_counter.queens = Cardinality(Queens \cap Deck)
      /\ card_counter.misters = Cardinality(Misters \cap Deck)
      /\ card_counter.king_of_hearts = (KingOfHearts \cap Deck # {})
      /\ card_counter.seven_and_last = TRUE
  BY <1>0, <1>4 DEF Counted
<1>6. /\ Hearts \cap Deck = Hearts /\ Queens \cap Deck = Queens
      /\ Misters \cap Deck = Misters /\ KingOfHearts \cap Deck # {}
  BY DeckFacts, DeckAssumption
<1>7. /\ card_counter.hearts = MaxOneColorSize
      /\ card_counter.queens = MaxOneFigureSize
      /\ card_counter.misters = 2 * MaxOneFigureSize
      /\ card_counter.king_of_hearts
  BY <1>5, <1>6, DeckFacts
<1>8. GameType \in GameTypes
  BY <1>0, HandsDealt DEF CardTypes
<1>9. HasGameEnded
  BY <1>5, <1>7, <1>8 DEF HasGameEnded, GameTypes, NO_LEWA, NO_HEART, NO_QUEEN, NO_MISTER,
     NO_KING_HEART, NO_SEVEN_AND_LAST, BANDIT
<1>10. QED
  BY <1>4, <1>9

-----------------------------------------------------------------------------
(* Laying a card.                                                          *)

(***************************************************************************)
(* What handle_TRICK's answer does to the table: one new card, of the seat *)
(* whose turn it is, that was not laid before.                             *)
(***************************************************************************)
LEMMA CardLaid ==
    ASSUME rounds \in Games, CardInv,
           NEW p \in Players, NEW c \in Deck, PlayCard(p, c)
    PROVE  /\ Len(curr_lewa) + 1 \in 1 .. NumPlayers
           /\ p = SeatAt(first_player, Len(curr_lewa) + 1)
           /\ c \in PlayerCards(p) \ (Laid \cup In(curr_lewa))
           /\ c \notin was_card_played[p]
           /\ Len(curr_lewa') = Len(curr_lewa) + 1
           /\ DOMAIN curr_lewa' = DOMAIN curr_lewa \cup {Len(curr_lewa) + 1}
           /\ curr_lewa'[Len(curr_lewa) + 1] = c
           /\ \A k \in DOMAIN curr_lewa : curr_lewa'[k] = curr_lewa[k]
           /\ In(curr_lewa)' = In(curr_lewa) \cup {c}
           /\ UNCHANGED <<Laid, rounds, round_number, first_player, lewas_played>>
PROOF
<1>1. /\ curr_lewa \in Seq(Deck) /\ first_player \in Players
      /\ was_card_played[p] = PlayerCards(p) \cap (Laid \cup In(curr_lewa))
  BY DEF CardInv, CardTypes, Marked
<1>2. /\ Len(curr_lewa) < NumPlayers /\ p = WhoseTurn /\ CheckCardCorrectness(p, c)
      /\ curr_lewa' = Append(curr_lewa, c)
      /\ UNCHANGED <<rounds, round_number, first_player, lewas_played>>
  BY DEF PlayCard
<1>3. Len(curr_lewa) + 1 \in 1 .. NumPlayers
  BY <1>1, <1>2, SizesAssumption
<1>4. p = SeatAt(first_player, Len(curr_lewa) + 1)
  <2>1. first_player + (Len(curr_lewa) + 1) - 1 = first_player + Len(curr_lewa)
    BY <1>1, SizesAssumption DEF Players
  <2>2. QED
    BY <1>2, <2>1 DEF WhoseTurn, SeatAt
<1>5. c \in PlayerCards(p) \ was_card_played[p]
  BY <1>2 DEF CheckCardCorrectness, CardCorrect
<1>6. /\ Len(curr_lewa') = Len(curr_lewa) + 1
      /\ DOMAIN curr_lewa' = DOMAIN curr_lewa \cup {Len(curr_lewa) + 1}
      /\ curr_lewa'[Len(curr_lewa) + 1] = c
      /\ \A k \in DOMAIN curr_lewa : curr_lewa'[k] = curr_lewa[k]
  BY <1>1, <1>2
<1>7. In(curr_lewa)' = In(curr_lewa) \cup {c}
  BY <1>6 DEF In
<1>8. Laid' = Laid
  BY <1>2 DEF Laid, In
<1>9. QED
  BY <1>1, <1>2, <1>3, <1>4, <1>5, <1>6, <1>7, <1>8

(***************************************************************************)
(* The seat whose turn it is has no card on the table; now it has.         *)
(***************************************************************************)
LEMMA LaidBySeat ==
    ASSUME rounds \in Games, CardInv,
           NEW p \in Players, NEW c \in Deck, PlayCard(p, c)
    PROVE  /\ ~ HasLaid(p)
           /\ \A q \in Players : HasLaid(q)' <=> HasLaid(q) \/ q = p
PROOF
<1>1. /\ curr_lewa \in Seq(Deck) /\ Len(curr_lewa) <= NumPlayers
      /\ first_player \in Players
  BY DEF CardInv, CardTypes, InTurn
<1>2. ~ HasLaid(p)
  <2> SUFFICES ASSUME NEW k \in DOMAIN curr_lewa, p = SeatAt(first_player, k)
               PROVE  FALSE
    BY DEF HasLaid
  <2>1. k \in 1 .. NumPlayers /\ k # Len(curr_lewa) + 1
    BY <1>1, SizesAssumption
  <2>2. QED
    BY <1>1, <2>1, CardLaid, SeatsDiffer
<1>3. \A q \in Players : HasLaid(q)' <=> HasLaid(q) \/ q = p
  <2>1. \A k : SeatAt(first_player, k)' = SeatAt(first_player, k)
    BY CardLaid DEF SeatAt
  <2>2. QED
    BY <2>1, CardLaid DEF HasLaid
<1>4. QED
  BY <1>2, <1>3

(***************************************************************************)
(* An accepted card keeps the invariant.                                   *)
(***************************************************************************)
LEMMA PlayKeeps ==
    ASSUME rounds \in Games, CardInv,
           NEW p \in Players, NEW c \in Deck, PlayCard(p, c)
    PROVE  CardInv'
PROOF
<1>0. CardTypes /\ InTurn /\ LaidOnce /\ Marked /\ Counted
  BY DEF CardInv
<1>1. /\ was_card_played' = [was_card_played EXCEPT ![p] = @ \cup {c}]
      /\ curr_lewa' = Append(curr_lewa, c)
      /\ ~ HasGameEnded
      /\ UNCHANGED <<curr_game_points, card_counter>>
  BY DEF PlayCard
<1>2. \A q : PlayerCards(q)' = PlayerCards(q)
  BY CardLaid DEF PlayerCards
<1>3. \A leader, k : SeatAt(leader, k)' = SeatAt(leader, k)
  BY DEF SeatAt
<1>4. CardTypes'
  <2>1. /\ round_number' \in 1 .. NumRounds /\ first_player' \in Players
        /\ lewas_played' \in Seq(Trick)
        /\ curr_game_points' \in [Players -> Nat]
    BY <1>0, <1>1, CardLaid DEF CardTypes
  <2>2. curr_lewa' \in Seq(Deck)
    BY <1>0, <1>1 DEF CardTypes
  <2>3. was_card_played' \in [Players -> SUBSET Deck]
    BY <1>0, <1>1 DEF CardTypes
  <2>4. QED
    BY <2>1, <2>2, <2>3 DEF CardTypes
<1>5. InTurn'
  <2>1. Len(curr_lewa') <= NumPlayers
    BY CardLaid
  <2>2. FromHands(first_player, curr_lewa)'
    <3> SUFFICES ASSUME NEW k \in DOMAIN curr_lewa'
                 PROVE  curr_lewa'[k] \in PlayerCards(SeatAt(first_player, k))
      BY <1>2, <1>3, CardLaid DEF FromHands
    <3>1. CASE k \in DOMAIN curr_lewa
      BY <1>0, <3>1, CardLaid DEF InTurn, FromHands
    <3>2. CASE k = Len(curr_lewa) + 1
      BY <3>2, CardLaid
    <3>3. QED
      BY <3>1, <3>2, CardLaid
  <2>3. \A i \in DOMAIN lewas_played' :
            /\ Len(lewas_played'[i].cards) = NumPlayers
            /\ FromHands(lewas_played[i].leader, lewas_played[i].cards)'
    BY <1>0, <1>2, <1>3, CardLaid DEF InTurn, FromHands
  <2>4. QED
    BY <2>1, <2>2, <2>3 DEF InTurn
<1>6. LaidOnce'
  <2>1. In(curr_lewa)' \cap Laid' = {}
    BY <1>0, CardLaid DEF LaidOnce
  <2>2. \A i \in DOMAIN lewas_played : In(lewas_played[i].cards)' = In(lewas_played[i].cards)
    BY CardLaid DEF In
  <2>3. Len(lewas_played) < MaxNbrOfLewas
    <3>1. Len(lewas_played) # MaxNbrOfLewas
      BY <1>1, AllLaid
    <3>2. Len(lewas_played) \in Nat /\ MaxNbrOfLewas \in Nat
          /\ Len(lewas_played) <= MaxNbrOfLewas
      BY <1>0, SizesAssumption DEF LaidOnce, CardTypes
    <3>3. QED
      BY <3>1, <3>2
  <2>4. lewas_played' = lewas_played /\ Len(lewas_played)' <= MaxNbrOfLewas
    BY <1>0, CardLaid DEF LaidOnce
  <2>5. \A i, j \in DOMAIN lewas_played' : i # j =>
            In(lewas_played[i].cards)' \cap In(lewas_played[j].cards)' = {}
    BY <1>0, <2>2, <2>4 DEF LaidOnce
  <2>6. QED
    BY <2>1, <2>3, <2>4, <2>5 DEF LaidOnce
<1>7. Marked'
  <2> SUFFICES ASSUME NEW q \in Players
               PROVE  /\ was_card_played'[q] = PlayerCards(q) \cap (Laid \cup (In(curr_lewa) \cup {c}))
                      /\ Cardinality(was_card_played'[q]) =
                            Len(lewas_played) + (IF HasLaid(q) \/ q = p THEN 1 ELSE 0)
    BY <1>2, CardLaid, LaidBySeat DEF Marked
  <2>1. /\ was_card_played[q] = PlayerCards(q) \cap (Laid \cup In(curr_lewa))
        /\ Cardinality(was_card_played[q]) =
               Len(lewas_played) + (IF HasLaid(q) THEN 1 ELSE 0)
    BY <1>0 DEF Marked
  <2>2. CASE q = p
    <3>1. was_card_played'[q] = was_card_played[q] \cup {c}
      BY <1>0, <1>1, <2>2 DEF CardTypes
    <3>2. IsFiniteSet(was_card_played[q])
      BY <1>0, DeckAssumption, FS_Subset DEF CardTypes
    <3>3. Cardinality(was_card_played[q] \cup {c}) = Cardinality(was_card_played[q]) + 1
      BY <2>2, <3>2, CardLaid, FS_AddElement
    <3>4. Len(lewas_played) \in Nat
      BY <1>0 DEF CardTypes
    <3>5. c \in PlayerCards(q)
      BY <2>2, CardLaid
    <3>6. was_card_played'[q] = PlayerCards(q) \cap (Laid \cup (In(curr_lewa) \cup {c}))
      BY <2>1, <3>1, <3>5
    <3>7. Cardinality(was_card_played'[q]) = Len(lewas_played) + 1
      <4>1. Cardinality(was_card_played[q]) = Len(lewas_played)
        <5>1. ~ HasLaid(q)
          BY <2>2, LaidBySeat
        <5>2. QED
          BY <2>1, <3>4, <5>1
      <4>2. QED
        BY <3>1, <3>3, <4>1
    <3>8. QED
      BY <2>2, <3>6, <3>7
  <2>3. CASE q # p
    <3>1. was_card_played'[q] = was_card_played[q]
      BY <1>0, <1>1, <2>3 DEF CardTypes
    <3>2. c \notin PlayerCards(q)
      BY <1>0, <2>3, CardLaid, HandsDealt DEF CardTypes
    <3>3. QED
      BY <2>1, <2>3, <3>1, <3>2
  <2>4. QED
    BY <2>2, <2>3
<1>8. Counted'
  <2>1. lewas_played' = lewas_played /\ Laid' = Laid /\ card_counter' = card_counter
    BY <1>1, CardLaid
  <2>2. QED
    BY <1>0, <2>1 DEF Counted
<1>9. QED
  BY <1>4, <1>5, <1>6, <1>7, <1>8 DEF CardInv

-----------------------------------------------------------------------------
(* Taking a trick.                                                         *)

(***************************************************************************)
(* The pass over a full trick in check_who_won_lewa ends at the highest    *)
(* card of the suit that was led.                                          *)
(***************************************************************************)
LEMMA BestCard ==
    ASSUME curr_lewa \in Seq(Deck), Len(curr_lewa) = NumPlayers
    PROVE  \E b \in 1 .. NumPlayers :
             /\ WhoWonLewa = SeatAt(first_player, b)
             /\ curr_lewa[b].suit = curr_lewa[1].suit
             /\ \A k \in 1 .. NumPlayers : curr_lewa[k].suit = curr_lewa[1].suit =>
                    curr_lewa[k].value <= curr_lewa[b].value
PROOF
<1>1. /\ NumPlayers \in Nat /\ NumPlayers > 0
      /\ \A k \in 1 .. NumPlayers : curr_lewa[k].value \in Nat
  <2>1. \A c \in Deck : c.value \in Nat
    BY DeckAssumption
  <2>2. QED
    BY <2>1, SizesAssumption
<1> DEFINE Led(k) == curr_lewa[k].suit = curr_lewa[1].suit
           Value(k) == curr_lewa[k].value
           Next1(i, b) == IF Led(i) /\ Value(i) > Value(b) THEN i ELSE b
           Best(i, b) ==
               /\ b \in 1 .. i /\ Led(b)
               /\ \A k \in 1 .. i : Led(k) => Value(k) <= Value(b)
               /\ \A k \in 1 .. b - 1 : Led(k) => Value(k) < Value(b)
           Pass(f) == f = [i \in 1 .. NumPlayers |->
                               IF i = 1 THEN 1 ELSE Next1(i, f[i - 1])]
           found == [i \in 1 .. NumPlayers |-> CHOOSE b : Best(i, b)]
           best == CHOOSE f : Pass(f)
<1>2. WhoWonLewa = SeatAt(first_player, best[NumPlayers])
  BY DEF WhoWonLewa, SeatAt
<1>3. \A k \in 1 .. NumPlayers : Value(k) \in Nat
  BY <1>1
<1>4. Led(1)
  OBVIOUS
<1> HIDE DEF Led, Value
<1>5. Best(1, 1)
  BY <1>3, <1>4, <1>1
<1>6. \A i \in 1 .. NumPlayers - 1 : \A b : Best(i, b) => Best(i + 1, Next1(i + 1, b))
  <2> SUFFICES ASSUME NEW i \in 1 .. NumPlayers - 1, NEW b, Best(i, b)
               PROVE  Best(i + 1, Next1(i + 1, b))
    OBVIOUS
  <2>1. /\ 1 .. i + 1 = (1 .. i) \cup {i + 1} /\ i + 1 - 1 = i
        /\ 1 .. i + 1 \subseteq 1 .. NumPlayers /\ b \in 1 .. NumPlayers
        /\ 1 .. b - 1 \subseteq 1 .. i
    BY <1>1
  <2>2. /\ Value(b) \in Nat /\ Value(i + 1) \in Nat
        /\ \A k \in 1 .. i : Value(k) \in Nat
    BY <1>3, <2>1
  <2>3. CASE Led(i + 1) /\ Value(i + 1) > Value(b)
    <3>1. \A k \in 1 .. i : Led(k) => Value(k) < Value(i + 1)
      BY <2>2, <2>3
    <3>2. Best(i + 1, i + 1)
      BY <2>1, <2>2, <2>3, <3>1
    <3>3. QED
      BY <2>3, <3>2
  <2>4. CASE ~ (Led(i + 1) /\ Value(i + 1) > Value(b))
    <3>1. \A k \in 1 .. i + 1 : Led(k) => Value(k) <= Value(b)
      BY <2>1, <2>2, <2>4
    <3>2. Best(i + 1, b)
      BY <2>1, <3>1
    <3>3. QED
      BY <2>4, <3>2
  <2>5. QED
    BY <2>3, <2>4
<1>7. \A i \in 1 .. NumPlayers : \A b, d : Best(i, b) /\ Best(i, d) => b = d
  <2> SUFFICES ASSUME NEW i \in 1 .. NumPlayers, NEW b, NEW d, Best(i, b), Best(i, d)
               PROVE  b = d
    OBVIOUS
  <2>1. b \in Nat /\ d \in Nat /\ b \in 1 .. NumPlayers /\ d \in 1 .. NumPlayers
    BY <1>1
  <2>2. Value(b) \in Nat /\ Value(d) \in Nat
    BY <1>3, <2>1
  <2>3. ~ (b < d)
    <3> SUFFICES ASSUME b < d PROVE FALSE
      OBVIOUS
    <3>1. b \in 1 .. d - 1 /\ d \in 1 .. i
      BY <2>1
    <3>2. Value(b) < Value(d) /\ Value(d) <= Value(b)
      BY <3>1
    <3>3. QED
      BY <2>2, <3>2
  <2>4. ~ (d < b)
    <3> SUFFICES ASSUME d < b PROVE FALSE
      OBVIOUS
    <3>1. d \in 1 .. b - 1 /\ b \in 1 .. i
      BY <2>1
    <3>2. Value(d) < Value(b) /\ Value(b) <= Value(d)
      BY <3>1
    <3>3. QED
      BY <2>2, <3>2
  <2>5. QED
    BY <2>1, <2>3, <2>4
<1>8. \A i \in 1 .. NumPlayers : \E b : Best(i, b)
  <2> DEFINE good == {i \in 1 .. NumPlayers : \E b : Best(i, b)}
  <2> HIDE DEF Best, Next1
  <2>1. 1 \in good
    BY <1>1, <1>5
  <2>2. \A i \in 1 .. NumPlayers - 1 : i \in good => i + 1 \in good
    BY <1>1, <1>6
  <2> HIDE DEF good
  <2>3. 1 .. NumPlayers \subseteq good
    BY <1>1, <2>1, <2>2, UpTo
  <2> USE DEF good
  <2>4. QED
    BY <2>3
<1> HIDE DEF Best
<1>9. \A i \in 1 .. NumPlayers : Best(i, found[i])
  <2> SUFFICES ASSUME NEW i \in 1 .. NumPlayers PROVE Best(i, CHOOSE b : Best(i, b))
    OBVIOUS
  <2>1. QED
    BY <1>8
<1> HIDE DEF Next1
<1>10. Pass(found)
  <2>1. ASSUME NEW i \in 1 .. NumPlayers
        PROVE  found[i] = IF i = 1 THEN 1 ELSE Next1(i, found[i - 1])
    <3> HIDE DEF found
    <3>1. CASE i = 1
      BY <1>5, <1>7, <1>9, <3>1
    <3>2. CASE i # 1
      <4>1. i - 1 \in 1 .. NumPlayers - 1 /\ i - 1 \in 1 .. NumPlayers /\ i - 1 + 1 = i
        BY <1>1, <3>2
      <4>2. Best(i, Next1(i, found[i - 1]))
        <5>1. Best(i - 1, found[i - 1])
          BY <1>9, <4>1
        <5>2. Best(i - 1 + 1, Next1(i - 1 + 1, found[i - 1]))
          BY <1>6, <4>1, <5>1
        <5>3. QED
          BY <4>1, <5>2
      <4>3. QED
        BY <1>7, <1>9, <3>2, <4>2
    <3>3. QED
      BY <3>1, <3>2
  <2>2. QED
    BY <2>1
<1>11. Pass(best)
  <2> HIDE DEF Pass, found
  <2>1. QED
    BY <1>10
<1> HIDE DEF best
<1>12. \A i \in 1 .. NumPlayers : Best(i, best[i])
  <2> DEFINE good == {i \in 1 .. NumPlayers : Best(i, best[i])}
  <2>1. 1 \in good
    <3>1. best[1] = 1
      BY <1>1, <1>11
    <3>2. QED
      BY <1>1, <1>5, <3>1
  <2>2. \A i \in 1 .. NumPlayers - 1 : i \in good => i + 1 \in good
    <3> SUFFICES ASSUME NEW i \in 1 .. NumPlayers - 1, Best(i, best[i])
                 PROVE  i + 1 \in 1 .. NumPlayers /\ Best(i + 1, best[i + 1])
      OBVIOUS
    <3>1. i + 1 \in 1 .. NumPlayers /\ i + 1 # 1 /\ i + 1 - 1 = i
      BY <1>1
    <3>2. best[i + 1] = Next1(i + 1, best[i + 1 - 1])
      BY <1>11, <3>1
    <3>3. QED
      BY <1>6, <3>1, <3>2
  <2> HIDE DEF good
  <2>3. 1 .. NumPlayers \subseteq good
    BY <1>1, <2>1, <2>2, UpTo
  <2> USE DEF good
  <2>4. QED
    BY <2>3
<1>13. Best(NumPlayers, best[NumPlayers])
  BY <1>1, <1>12
<1>14. /\ best[NumPlayers] \in 1 .. NumPlayers /\ Led(best[NumPlayers])
       /\ \A k \in 1 .. NumPlayers : Led(k) => Value(k) <= Value(best[NumPlayers])
  BY <1>13 DEF Best
<1>15. QED
  BY <1>2, <1>14 DEF Led, Value

(***************************************************************************)
(* What check_who_won_lewa and prepare_new_lewa do to the table: the trick *)
(* is full, goes behind the finished ones, and leaves the table empty.     *)
(***************************************************************************)
LEMMA LewaTaken ==
    ASSUME rounds \in Games, CardInv, TakeLewa
    PROVE  /\ WhoWonLewa \in Players
           /\ first_player' = WhoWonLewa
           /\ UNCHANGED <<rounds, round_number, was_card_played>>
           /\ curr_lewa' = << >> /\ In(curr_lewa)' = {}
           /\ Len(curr_lewa) = NumPlayers
           /\ \A p \in Players : HasLaid(p)
           /\ Len(lewas_played) \in Nat /\ Len(lewas_played) < MaxNbrOfLewas
           /\ Len(lewas_played') = Len(lewas_played) + 1
           /\ DOMAIN lewas_played = 1 .. Len(lewas_played)
           /\ DOMAIN lewas_played' = DOMAIN lewas_played \cup {Len(lewas_played) + 1}
           /\ lewas_played'[Len(lewas_played) + 1] =
                [cards |-> curr_lewa, leader |-> first_player, taker |-> WhoWonLewa]
           /\ \A i \in DOMAIN lewas_played : lewas_played'[i] = lewas_played[i]
           /\ Laid' = Laid \cup In(curr_lewa)
PROOF
<1>1. /\ curr_lewa \in Seq(Deck) /\ first_player \in Players
      /\ lewas_played \in Seq(Trick)
      /\ curr_lewa # << >> => Len(lewas_played) < MaxNbrOfLewas
  BY DEF CardInv, CardTypes, LaidOnce
<1>2. /\ Len(curr_lewa) = NumPlayers /\ curr_lewa' = << >> /\ first_player' = WhoWonLewa
      /\ lewas_played' = Append(lewas_played, [cards |-> curr_lewa, leader |-> first_player,
                                               taker |-> WhoWonLewa])
      /\ UNCHANGED <<rounds, round_number, was_card_played>>
  BY DEF TakeLewa
<1>3. WhoWonLewa \in Players
  BY <1>1, <1>2, BestCard, SeatWraps
<1>4. \A p \in Players : HasLaid(p)
  <2>1. DOMAIN curr_lewa = 1 .. NumPlayers
    BY <1>1, <1>2
  <2>2. QED
    BY <1>1, <2>1, EverySeat DEF HasLaid
<1>5. In(curr_lewa)' = {}
  BY <1>2 DEF In
<1>6. Len(lewas_played) \in Nat /\ Len(lewas_played) < MaxNbrOfLewas
  <2>1. curr_lewa # << >>
    BY <1>1, <1>2, SizesAssumption
  <2>2. QED
    BY <1>1, <2>1
<1>7. /\ Len(lewas_played') = Len(lewas_played) + 1
      /\ DOMAIN lewas_played = 1 .. Len(lewas_played)
      /\ DOMAIN lewas_played' = DOMAIN lewas_played \cup {Len(lewas_played) + 1}
      /\ lewas_played'[Len(lewas_played) + 1] =
                [cards |-> curr_lewa, leader |-> first_player, taker |-> WhoWonLewa]
      /\ \A i \in DOMAIN lewas_played : lewas_played'[i] = lewas_played[i]
  BY <1>1, <1>2
<1>8. Laid' = Laid \cup In(curr_lewa)
  <2>1. Laid' = UNION {In(lewas_played'[i].cards) : i \in DOMAIN lewas_played'}
    BY DEF Laid, In
  <2>2. \A x : x \in Laid' <=> \E i \in DOMAIN lewas_played' : x \in In(lewas_played'[i].cards)
    BY <2>1
  <2>3. \A x : x \in Laid <=> \E i \in DOMAIN lewas_played : x \in In(lewas_played[i].cards)
    BY DEF Laid
  <2>4. In(lewas_played'[Len(lewas_played) + 1].cards) = In(curr_lewa)
    BY <1>7
  <2>5. \A x : x \in Laid' <=> x \in Laid \/ x \in In(curr_lewa)
    BY <1>7, <2>2, <2>3, <2>4
  <2>6. QED
    BY <2>5
<1>9. QED
  BY <1>2, <1>3, <1>4, <1>5, <1>6, <1>7, <1>8

(***************************************************************************)
(* The counters and the trick that is counted.                             *)
(***************************************************************************)
LEMMA LewaCounted ==
    ASSUME rounds \in Games, CardInv, TakeLewa, NEW cards
    PROVE  /\ Among(cards, curr_lewa) = Cardinality(cards \cap In(curr_lewa))
           /\ Cardinality(cards \cap Laid)
                + Among(cards, curr_lewa) = Cardinality(cards \cap Laid')
           /\ Cardinality(cards \cap Laid) \in Nat
           /\ Among(cards, curr_lewa) \in Nat
PROOF
<1>1. /\ CardTypes /\ LaidOnce
      /\ curr_lewa \in Seq(Deck) /\ Len(curr_lewa) <= NumPlayers
      /\ FromHands(first_player, curr_lewa)
      /\ first_player \in Players /\ round_number \in 1 .. NumRounds
  BY DEF CardInv, CardTypes, InTurn
<1>2. \A k, l \in DOMAIN curr_lewa : curr_lewa[k] = curr_lewa[l] => k = l
  BY <1>1, TrickDistinct
<1>3. Among(cards, curr_lewa) = Cardinality(cards \cap In(curr_lewa))
  BY <1>1, <1>2, AmongCounts
<1>4. Laid \subseteq Deck /\ In(curr_lewa) \subseteq Deck /\ Laid \cap In(curr_lewa) = {}
  BY <1>1, LaidInDeck DEF LaidOnce
<1>5. Laid' = Laid \cup In(curr_lewa)
  BY LewaTaken
<1>6. /\ Cardinality(cards \cap (Laid \cup In(curr_lewa))) =
            Cardinality(cards \cap Laid) + Cardinality(cards \cap In(curr_lewa))
      /\ Cardinality(cards \cap Laid) \in Nat
      /\ Cardinality(cards \cap In(curr_lewa)) \in Nat
  BY <1>4, CountApart
<1>7. QED
  BY <1>3, <1>5, <1>6

(***************************************************************************)
(* Taking a trick keeps the invariant.                                     *)
(***************************************************************************)
LEMMA TakeKeeps ==
    ASSUME rounds \in Games, CardInv, TakeLewa,
           curr_game_points' \in [Players -> Nat]
    PROVE  CardInv'
PROOF
<1>0. CardTypes /\ InTurn /\ LaidOnce /\ Marked /\ Counted
  BY DEF CardInv
<1>1. \A q : PlayerCards(q)' = PlayerCards(q)
  BY LewaTaken DEF PlayerCards
<1>2. \A leader, k : SeatAt(leader, k)' = SeatAt(leader, k)
  BY DEF SeatAt
<1>3. CardTypes'
  <2>1. [cards |-> curr_lewa, leader |-> first_player, taker |-> WhoWonLewa] \in Trick
    BY <1>0, LewaTaken DEF CardTypes, Trick
  <2>2. lewas_played' \in Seq(Trick)
    BY <1>0, <2>1 DEF CardTypes, TakeLewa
  <2>3. curr_lewa' \in Seq(Deck)
    BY LewaTaken
  <2>4. round_number' \in 1 .. NumRounds /\ first_player' \in Players
        /\ was_card_played' \in [Players -> SUBSET Deck]
    BY <1>0, LewaTaken DEF CardTypes
  <2>5. QED
    BY <2>2, <2>3, <2>4 DEF CardTypes
<1> DEFINE last == Len(lewas_played) + 1
<1>4. /\ lewas_played'[last].cards = curr_lewa /\ lewas_played'[last].leader = first_player
      /\ \A i \in DOMAIN lewas_played : lewas_played'[i] = lewas_played[i]
      /\ DOMAIN lewas_played' = DOMAIN lewas_played \cup {last}
  BY LewaTaken
<1>5. InTurn'
  <2>1. Len(curr_lewa') <= NumPlayers /\ FromHands(first_player, curr_lewa)'
    BY LewaTaken, SizesAssumption DEF FromHands
  <2> SUFFICES ASSUME NEW i \in DOMAIN lewas_played'
               PROVE  /\ Len(lewas_played'[i].cards) = NumPlayers
                      /\ FromHands(lewas_played'[i].leader, lewas_played'[i].cards)
    BY <1>1, <1>2, <2>1 DEF InTurn, FromHands
  <2>2. CASE i \in DOMAIN lewas_played
    BY <1>0, <1>4, <2>2 DEF InTurn
  <2>3. CASE i = last
    BY <1>0, <1>4, <2>3, LewaTaken DEF InTurn
  <2>4. QED
    BY <1>4, <2>2, <2>3
<1>6. LaidOnce'
  <2>1. In(curr_lewa)' \cap Laid' = {} /\ curr_lewa' = << >>
    BY LewaTaken
  <2>2. Len(lewas_played') <= MaxNbrOfLewas
    BY LewaTaken, SizesAssumption
  <2>3. \A i \in DOMAIN lewas_played' :
           In(lewas_played[i].cards)' =
              IF i = last THEN In(curr_lewa) ELSE In(lewas_played[i].cards)
    BY <1>4 DEF In
  <2>4. \A i \in DOMAIN lewas_played :
            In(lewas_played[i].cards) \cap In(curr_lewa) = {}
    BY <1>0, LaidInDeck DEF LaidOnce
  <2>5. \A i, j \in DOMAIN lewas_played' : i # j =>
            In(lewas_played[i].cards)' \cap In(lewas_played[j].cards)' = {}
    <3> SUFFICES ASSUME NEW i \in DOMAIN lewas_played', NEW j \in DOMAIN lewas_played', i # j
                 PROVE  In(lewas_played[i].cards)' \cap In(lewas_played[j].cards)' = {}
      OBVIOUS
    <3> HIDE DEF last
    <3>1. CASE i = last
      BY <1>4, <2>3, <2>4, <3>1
    <3>2. CASE j = last
      BY <1>4, <2>3, <2>4, <3>2
    <3>3. CASE i # last /\ j # last
      BY <1>0, <1>4, <2>3, <3>3 DEF LaidOnce
    <3>4. QED
      BY <3>1, <3>2, <3>3
  <2>6. QED
    BY <2>1, <2>2, <2>5 DEF LaidOnce
<1>7. Marked'
  <2> SUFFICES \A q \in Players :
                 /\ was_card_played[q] = PlayerCards(q) \cap (Laid \cup In(curr_lewa))
                 /\ Cardinality(was_card_played[q]) = Len(lewas_played) + 1
    <3>1. /\ \A q : ~ HasLaid(q)'
          /\ Laid' \cup In(curr_lewa)' = Laid \cup In(curr_lewa)
          /\ was_card_played' = was_card_played
      BY LewaTaken DEF HasLaid
    <3>2. Len(lewas_played') + 0 = Len(lewas_played) + 1
      BY LewaTaken
    <3>3. QED
      BY <1>1, <3>1, <3>2 DEF Marked
  <2> TAKE q \in Players
  <2>1. HasLaid(q)
    BY LewaTaken
  <2>2. QED
    BY <1>0, <2>1 DEF Marked
<1>8. Counted'
  <2>1. card_counter' = CountCards(curr_lewa)
    BY DEF TakeLewa
  <2>2. /\ card_counter.lewas + 1 = Len(lewas_played')
        /\ card_counter.hearts + Among(Hearts, curr_lewa) = Cardinality(Hearts \cap Laid')
        /\ card_counter.queens + Among(Queens, curr_lewa) = Cardinality(Queens \cap Laid')
        /\ card_counter.misters + Among(Misters, curr_lewa) = Cardinality(Misters \cap Laid')
    BY <1>0, LewaTaken, LewaCounted DEF Counted
  <2>3. (card_counter.king_of_hearts \/ Among(KingOfHearts, curr_lewa) > 0)
        = (KingOfHearts \cap Laid' # {})
    <3>1. Among(KingOfHearts, curr_lewa) > 0 <=> KingOfHearts \cap In(curr_lewa) # {}
      <4>1. IsFiniteSet(KingOfHearts \cap In(curr_lewa))
        BY DeckFacts, FS_Subset
      <4>2. /\ Cardinality(KingOfHearts \cap In(curr_lewa)) = 0
                 <=> KingOfHearts \cap In(curr_lewa) = {}
            /\ Cardinality(KingOfHearts \cap In(curr_lewa)) \in Nat
        BY <4>1, FS_EmptySet, FS_CardinalityType
      <4>3. Among(KingOfHearts, curr_lewa) = Cardinality(KingOfHearts \cap In(curr_lewa))
        BY LewaCounted
      <4>4. QED
        BY <4>2, <4>3
    <3>2. KingOfHearts \cap Laid' # {} <=>
            KingOfHearts \cap Laid # {} \/ KingOfHearts \cap In(curr_lewa) # {}
      BY LewaTaken
    <3>3. card_counter.king_of_hearts = (KingOfHearts \cap Laid # {})
      BY <1>0 DEF Counted
    <3>4. QED
      BY <3>1, <3>2, <3>3
  <2>4. (card_counter.seven_and_last \/ card_counter.lewas + 1 = MaxNbrOfLewas)
        = (Len(lewas_played') = MaxNbrOfLewas)
    <3>1. card_counter.seven_and_last = (Len(lewas_played) = MaxNbrOfLewas)
          /\ card_counter.lewas = Len(lewas_played)
      BY <1>0 DEF Counted
    <3>2. ~ (Len(lewas_played) = MaxNbrOfLewas)
      <4>1. Len(lewas_played) \in Nat /\ Len(lewas_played) < MaxNbrOfLewas
        BY LewaTaken
      <4>2. QED
        BY <4>1, SizesAssumption
    <3>3. QED
      BY <3>1, <3>2, LewaTaken
  <2>5. QED
    BY <2>1, <2>2, <2>3, <2>4 DEF Counted, CountCards
<1>9. QED
  BY <1>3, <1>5, <1>6, <1>7, <1>8 DEF CardInv

-----------------------------------------------------------------------------
(* What cards and tricks cost.                                             *)

(***************************************************************************)
(* A sum over a set that is taken element by element, in whatever order,   *)
(* and a total that grows by each element's share.                         *)
(***************************************************************************)
TakenInTurn(S, share, iter) ==
    /\ iter[{}] = 0
    /\ \A T \in SUBSET S : T # {} => \E x \in T : iter[T] = share[x] + iter[T \ {x}]

GrowsBy(S, share, total) ==
    /\ total[{}] = 0
    /\ \A T \in SUBSET S : \A x \in T : total[T] = share[x] + total[T \ {x}]

(***************************************************************************)
(* They are the same.                                                      *)
(***************************************************************************)
LEMMA SumIs ==
    ASSUME NEW S, IsFiniteSet(S), NEW share, NEW total, NEW iter,
           TakenInTurn(S, share, iter), GrowsBy(S, share, total)
    PROVE  iter[S] = total[S]
PROOF
<1> DEFINE size == Cardinality(S)
           Good(n) == \A T \in SUBSET S : Cardinality(T) = n => iter[T] = total[T]
           good == {n \in 0 .. size : Good(n)}
<1>1. size \in Nat /\ \A T \in SUBSET S : IsFiniteSet(T) /\ Cardinality(T) \in Nat
  BY FS_CardinalityType, FS_Subset
<1>2. Good(0)
  <2>1. \A T \in SUBSET S : Cardinality(T) = 0 => T = {}
    BY <1>1, FS_EmptySet
  <2>2. QED
    BY <2>1 DEF TakenInTurn, GrowsBy
<1>3. ASSUME NEW n \in 0 .. size - 1, Good(n)
      PROVE  Good(n + 1)
  <2> SUFFICES ASSUME NEW T \in SUBSET S, Cardinality(T) = n + 1
               PROVE  iter[T] = total[T]
    OBVIOUS
  <2>1. T # {}
    <3>1. n + 1 # 0 /\ Cardinality({}) = 0
      BY FS_EmptySet
    <3>2. QED
      BY <3>1
  <2>2. PICK x \in T : iter[T] = share[x] + iter[T \ {x}]
    BY <2>1 DEF TakenInTurn
  <2>3. T \ {x} \in SUBSET S /\ Cardinality(T \ {x}) = n
    <3>1. Cardinality(T \ {x}) = Cardinality(T) - 1
      BY <1>1, FS_RemoveElement
    <3>2. n + 1 - 1 = n
      BY <1>1
    <3>3. QED
      BY <3>1, <3>2
  <2>4. iter[T \ {x}] = total[T \ {x}]
    BY <1>3, <2>3
  <2>5. QED
    BY <2>2, <2>4 DEF GrowsBy
<1> HIDE DEF Good
<1>4. 0 \in good /\ \A n \in 0 .. size - 1 : n \in good => n + 1 \in good
  BY <1>1, <1>2, <1>3
<1> HIDE DEF good
<1>5. 0 .. size \subseteq good
  BY <1>1, <1>4, UpTo
<1>6. Good(size)
  BY <1>1, <1>5 DEF good
<1>7. QED
  BY <1>6 DEF Good

(***************************************************************************)
(* One card more or less among cards of a kind.                            *)
(***************************************************************************)
LEMMA CountOne ==
    ASSUME NEW S, IsFiniteSet(S), NEW kind, NEW x \in S
    PROVE  /\ Cardinality(kind \cap S) =
                 (IF x \in kind THEN 1 ELSE 0) + Cardinality(kind \cap (S \ {x}))
           /\ Cardinality(kind \cap (S \ {x})) \in Nat
           /\ Cardinality(kind \cap S) \in Nat
PROOF
<1>1. IsFiniteSet(kind \cap S)
  BY FS_Intersection
<1>2. kind \cap (S \ {x}) = (kind \cap S) \ {x}
  OBVIOUS
<1>3. /\ Cardinality((kind \cap S) \ {x}) =
           IF x \in kind \cap S THEN Cardinality(kind \cap S) - 1
           ELSE Cardinality(kind \cap S)
      /\ IsFiniteSet((kind \cap S) \ {x})
  BY <1>1, FS_RemoveElement
<1>4. Cardinality(kind \cap S) \in Nat /\ Cardinality((kind \cap S) \ {x}) \in Nat
  BY <1>1, <1>3, FS_CardinalityType
<1> DEFINE a == Cardinality(kind \cap S)
           b == Cardinality((kind \cap S) \ {x})
<1>5. a \in Nat /\ b \in Nat /\ b = IF x \in kind THEN a - 1 ELSE a
  BY <1>3, <1>4
<1> HIDE DEF a, b
<1>6. a = (IF x \in kind THEN 1 ELSE 0) + b
  BY <1>5
<1>7. QED
  BY <1>2, <1>4, <1>6 DEF a, b

(***************************************************************************)
(* The cost of a set of cards, kind by kind, and of a set of tricks.       *)
(***************************************************************************)
PriceOfCards(cards) ==
      Cost(GameType \in {NO_HEART, BANDIT}, Cardinality(Hearts \cap cards))
    + Cost(GameType \in {NO_QUEEN, BANDIT}, 5 * Cardinality(Queens \cap cards))
    + Cost(GameType \in {NO_MISTER, BANDIT}, 2 * Cardinality(Misters \cap cards))
    + Cost(GameType \in {NO_KING_HEART, BANDIT}, 18 * Cardinality(KingOfHearts \cap cards))

PriceOfLewas(ids) ==
      Cost(GameType \in {NO_LEWA, BANDIT}, Cardinality(ids))
    + Cost(GameType \in {NO_SEVEN_AND_LAST, BANDIT},
           10 * Cardinality({SeventhLewa, MaxNbrOfLewas} \cap ids))

(***************************************************************************)
(* The sum of the costs of some cards is counted kind by kind.             *)
(***************************************************************************)
LEMMA CardsPriced ==
    ASSUME NEW S, S \subseteq Deck
    PROVE  MapThenSumSet(CostOfCard, S) = PriceOfCards(S)
PROOF
<1> DEFINE Pass(f) == f = [s \in SUBSET S |->
                             IF s = {} THEN 0
                             ELSE CostOfCard(CHOOSE x \in s : TRUE)
                                    + f[s \ {CHOOSE x \in s : TRUE}]]
           iter == CHOOSE f : Pass(f)
           share == [x \in S |-> CostOfCard(x)]
           total == [s \in SUBSET S |-> PriceOfCards(s)]
<1>1. MapThenSumSet(CostOfCard, S) = iter[S]
  BY DEF MapThenSumSet, MapThenFoldSet
<1>2. IsFiniteSet(S) /\ \A T \in SUBSET S : IsFiniteSet(T)
  BY DeckAssumption, FS_Subset
<1>3. PriceOfCards({}) = 0
  <2>1. \A kind : kind \cap {} = {}
    OBVIOUS
  <2>2. \A kind : Cardinality(kind \cap {}) = 0
    BY <2>1, FS_EmptySet
  <2>3. QED
    BY <2>2 DEF PriceOfCards, Cost
<1>4. \A T \in SUBSET S : \A x \in T : PriceOfCards(T) = CostOfCard(x) + PriceOfCards(T \ {x})
  <2> SUFFICES ASSUME NEW T \in SUBSET S, NEW x \in T
               PROVE  PriceOfCards(T) = CostOfCard(x) + PriceOfCards(T \ {x})
    OBVIOUS
  <2> DEFINE N(kind) == Cardinality(kind \cap (T \ {x}))
             One(kind) == IF x \in kind THEN 1 ELSE 0
  <2>1. \A kind : Cardinality(kind \cap T) = One(kind) + N(kind) /\ N(kind) \in Nat
    <3> SUFFICES ASSUME NEW kind
                 PROVE  Cardinality(kind \cap T) = One(kind) + N(kind) /\ N(kind) \in Nat
      OBVIOUS
    <3>1. IsFiniteSet(T)
      BY <1>2
    <3>2. QED
      BY <3>1, CountOne
  <2>2. PriceOfCards(T \ {x}) =
            Cost(GameType \in {NO_HEART, BANDIT}, N(Hearts))
          + Cost(GameType \in {NO_QUEEN, BANDIT}, 5 * N(Queens))
          + Cost(GameType \in {NO_MISTER, BANDIT}, 2 * N(Misters))
          + Cost(GameType \in {NO_KING_HEART, BANDIT}, 18 * N(KingOfHearts))
    BY DEF PriceOfCards
  <2> HIDE DEF N
  <2>3. PriceOfCards(T) =
            Cost(GameType \in {NO_HEART, BANDIT}, One(Hearts) + N(Hearts))
          + Cost(GameType \in {NO_QUEEN, BANDIT}, 5 * (One(Queens) + N(Queens)))
          + Cost(GameType \in {NO_MISTER, BANDIT}, 2 * (One(Misters) + N(Misters)))
          + Cost(GameType \in {NO_KING_HEART, BANDIT}, 18 * (One(KingOfHearts) + N(KingOfHearts)))
    BY <2>1 DEF PriceOfCards
  <2>4. CostOfCard(x) =
            Cost(GameType \in {NO_HEART, BANDIT}, One(Hearts))
          + Cost(GameType \in {NO_QUEEN, BANDIT}, 5 * One(Queens))
          + Cost(GameType \in {NO_MISTER, BANDIT}, 2 * One(Misters))
          + Cost(GameType \in {NO_KING_HEART, BANDIT}, 18 * One(KingOfHearts))
    BY DEF CostOfCard, Cost
  <2>5. \A kind : One(kind) \in Nat /\ N(kind) \in Nat
    BY <2>1
  <2> HIDE DEF One
  <2>6. QED
    BY <2>2, <2>3, <2>4, <2>5 DEF Cost
<1>5. Pass(total)
  <2>1. ASSUME NEW s \in SUBSET S, s # {}
        PROVE  total[s] = CostOfCard(CHOOSE x \in s : TRUE)
                            + total[s \ {CHOOSE x \in s : TRUE}]
    <3> DEFINE y == CHOOSE x \in s : TRUE
    <3>1. y \in s
      BY <2>1
    <3> HIDE DEF y
    <3>2. total[s] = CostOfCard(y) + total[s \ {y}]
      BY <1>4, <3>1
    <3>3. QED
      BY <3>2 DEF y
  <2>2. QED
    BY <1>3, <2>1
<1>6. Pass(iter)
  <2> HIDE DEF Pass, total
  <2>1. QED
    BY <1>5
<1> HIDE DEF iter
<1>7. TakenInTurn(S, share, iter)
  <2>1. iter[{}] = 0
    BY <1>6
  <2>2. ASSUME NEW T \in SUBSET S, T # {}
        PROVE  \E x \in T : iter[T] = share[x] + iter[T \ {x}]
    <3> DEFINE y == CHOOSE x \in T : TRUE
    <3>1. iter[T] = CostOfCard(y) + iter[T \ {y}]
      BY <1>6, <2>2
    <3>2. y \in T
      BY <2>2
    <3> HIDE DEF y
    <3>3. share[y] = CostOfCard(y)
      BY <3>2
    <3>4. QED
      BY <3>1, <3>2, <3>3
  <2>3. QED
    BY <2>1, <2>2 DEF TakenInTurn
<1>8. GrowsBy(S, share, total)
  BY <1>3, <1>4 DEF GrowsBy
<1>9. total[S] = PriceOfCards(S)
  OBVIOUS
<1> HIDE DEF Pass, share, total
<1>10. iter[S] = total[S]
  BY <1>2, <1>7, <1>8, SumIs
<1>11. QED
  BY <1>1, <1>9, <1>10

(***************************************************************************)
(* Likewise the tricks: one point each, and ten for two of them.           *)
(***************************************************************************)
LEMMA LewasPriced ==
    ASSUME NEW S, IsFiniteSet(S)
    PROVE  MapThenSumSet(CostOfLewa, S) = PriceOfLewas(S)
PROOF
<1> DEFINE Pass(f) == f = [s \in SUBSET S |->
                             IF s = {} THEN 0
                             ELSE CostOfLewa(CHOOSE x \in s : TRUE)
                                    + f[s \ {CHOOSE x \in s : TRUE}]]
           iter == CHOOSE f : Pass(f)
           share == [x \in S |-> CostOfLewa(x)]
           total == [s \in SUBSET S |-> PriceOfLewas(s)]
           special == {SeventhLewa, MaxNbrOfLewas}
<1>1. MapThenSumSet(CostOfLewa, S) = iter[S]
  BY DEF MapThenSumSet, MapThenFoldSet
<1>2. \A T \in SUBSET S : IsFiniteSet(T)
  BY FS_Subset
<1>3. PriceOfLewas({}) = 0
  <2>1. special \cap {} = {}
    OBVIOUS
  <2>2. Cardinality(special \cap {}) = 0 /\ Cardinality({}) = 0
    BY <2>1, FS_EmptySet
  <2>3. QED
    BY <2>2 DEF PriceOfLewas, Cost
<1>4. \A T \in SUBSET S : \A x \in T : PriceOfLewas(T) = CostOfLewa(x) + PriceOfLewas(T \ {x})
  <2> SUFFICES ASSUME NEW T \in SUBSET S, NEW x \in T
               PROVE  PriceOfLewas(T) = CostOfLewa(x) + PriceOfLewas(T \ {x})
    OBVIOUS
  <2> DEFINE n == Cardinality(T \ {x})
             m == Cardinality(special \cap (T \ {x}))
             one == IF x \in special THEN 1 ELSE 0
  <2>1. /\ Cardinality(T) = 1 + n /\ n \in Nat
        /\ Cardinality(special \cap T) = one + m /\ m \in Nat /\ one \in Nat
    <3>1. IsFiniteSet(T) /\ IsFiniteSet(T \ {x})
      BY <1>2, FS_RemoveElement
    <3>2. n \in Nat /\ Cardinality(T) \in Nat /\ Cardinality(T \ {x}) = Cardinality(T) - 1
      BY <3>1, FS_RemoveElement, FS_CardinalityType
    <3>3. Cardinality(T) = 1 + n
      BY <3>2
    <3>4. Cardinality(special \cap T) = one + m /\ m \in Nat
      <4> HIDE DEF special
      <4>1. QED
        BY <3>1, CountOne
    <3>5. QED
      BY <3>2, <3>3, <3>4
  <2>2. PriceOfLewas(T \ {x}) =
            Cost(GameType \in {NO_LEWA, BANDIT}, n)
          + Cost(GameType \in {NO_SEVEN_AND_LAST, BANDIT}, 10 * m)
    BY DEF PriceOfLewas
  <2>3. CostOfLewa(x) =
            Cost(GameType \in {NO_LEWA, BANDIT}, 1)
          + Cost(GameType \in {NO_SEVEN_AND_LAST, BANDIT}, 10 * one)
    BY DEF CostOfLewa, Cost
  <2> HIDE DEF n, m, one
  <2>4. PriceOfLewas(T) =
            Cost(GameType \in {NO_LEWA, BANDIT}, 1 + n)
          + Cost(GameType \in {NO_SEVEN_AND_LAST, BANDIT}, 10 * (one + m))
    BY <2>1 DEF PriceOfLewas
  <2>5. QED
    BY <2>1, <2>2, <2>3, <2>4 DEF Cost
<1>5. Pass(total)
  <2>1. ASSUME NEW s \in SUBSET S, s # {}
        PROVE  total[s] = CostOfLewa(CHOOSE x \in s : TRUE)
                            + total[s \ {CHOOSE x \in s : TRUE}]
    <3> DEFINE y == CHOOSE x \in s : TRUE
    <3>1. y \in s
      BY <2>1
    <3> HIDE DEF y
    <3>2. total[s] = CostOfLewa(y) + total[s \ {y}]
      BY <1>4, <3>1
    <3>3. QED
      BY <3>2 DEF y
  <2>2. QED
    BY <1>3, <2>1
<1>6. Pass(iter)
  <2> HIDE DEF Pass, total
  <2>1. QED
    BY <1>5
<1> HIDE DEF iter
<1>7. TakenInTurn(S, share, iter)
  <2>1. iter[{}] = 0
    BY <1>6
  <2>2. ASSUME NEW T \in SUBSET S, T # {}
        PROVE  \E x \in T : iter[T] = share[x] + iter[T \ {x}]
    <3> DEFINE y == CHOOSE x \in T : TRUE
    <3>1. iter[T] = CostOfLewa(y) + iter[T \ {y}]
      BY <1>6, <2>2
    <3>2. y \in T
      BY <2>2
    <3> HIDE DEF y
    <3>3. share[y] = CostOfLewa(y)
      BY <3>2
    <3>4. QED
      BY <3>1, <3>2, <3>3
  <2>3. QED
    BY <2>1, <2>2 DEF TakenInTurn
<1>8. GrowsBy(S, share, total)
  BY <1>3, <1>4 DEF GrowsBy
<1>9. total[S] = PriceOfLewas(S)
  OBVIOUS
<1> HIDE DEF Pass, share, total
<1>10. iter[S] = total[S]
  BY <1>7, <1>8, SumIs
<1>11. QED
  BY <1>1, <1>9, <1>10

(***************************************************************************)
(* Cards laid apart cost apart what they cost together.                    *)
(***************************************************************************)
LEMMA PricesAdd ==
    ASSUME NEW some \in SUBSET Deck, NEW more \in SUBSET Deck, some \cap more = {}
    PROVE  /\ PriceOfCards(some \cup more) = PriceOfCards(some) + PriceOfCards(more)
           /\ PriceOfCards(some) \in Nat
           /\ PriceOfCards(more) \in Nat
PROOF
<1> DEFINE N(kind) == Cardinality(kind \cap some)
           M(kind) == Cardinality(kind \cap more)
<1>1. \A kind : /\ Cardinality(kind \cap (some \cup more)) = N(kind) + M(kind)
                /\ N(kind) \in Nat /\ M(kind) \in Nat
  BY CountApart
<1>2. PriceOfCards(some) =
          Cost(GameType \in {NO_HEART, BANDIT}, N(Hearts))
        + Cost(GameType \in {NO_QUEEN, BANDIT}, 5 * N(Queens))
        + Cost(GameType \in {NO_MISTER, BANDIT}, 2 * N(Misters))
        + Cost(GameType \in {NO_KING_HEART, BANDIT}, 18 * N(KingOfHearts))
  BY DEF PriceOfCards
<1>3. PriceOfCards(more) =
          Cost(GameType \in {NO_HEART, BANDIT}, M(Hearts))
        + Cost(GameType \in {NO_QUEEN, BANDIT}, 5 * M(Queens))
        + Cost(GameType \in {NO_MISTER, BANDIT}, 2 * M(Misters))
        + Cost(GameType \in {NO_KING_HEART, BANDIT}, 18 * M(KingOfHearts))
  BY DEF PriceOfCards
<1> HIDE DEF N, M
<1>4. PriceOfCards(some \cup more) =
          Cost(GameType \in {NO_HEART, BANDIT}, N(Hearts) + M(Hearts))
        + Cost(GameType \in {NO_QUEEN, BANDIT}, 5 * (N(Queens) + M(Queens)))
        + Cost(GameType \in {NO_MISTER, BANDIT}, 2 * (N(Misters) + M(Misters)))
        + Cost(GameType \in {NO_KING_HEART, BANDIT}, 18 * (N(KingOfHearts) + M(KingOfHearts)))
  BY <1>1 DEF PriceOfCards
<1>5. /\ N(Hearts) \in Nat /\ N(Queens) \in Nat /\ N(Misters) \in Nat /\ N(KingOfHearts) \in Nat
      /\ M(Hearts) \in Nat /\ M(Queens) \in Nat /\ M(Misters) \in Nat /\ M(KingOfHearts) \in Nat
  BY <1>1
<1> DEFINE a1 == Cost(GameType \in {NO_HEART, BANDIT}, N(Hearts))
           a2 == Cost(GameType \in {NO_QUEEN, BANDIT}, 5 * N(Queens))
           a3 == Cost(GameType \in {NO_MISTER, BANDIT}, 2 * N(Misters))
           a4 == Cost(GameType \in {NO_KING_HEART, BANDIT}, 18 * N(KingOfHearts))
           b1 == Cost(GameType \in {NO_HEART, BANDIT}, M(Hearts))
           b2 == Cost(GameType \in {NO_QUEEN, BANDIT}, 5 * M(Queens))
           b3 == Cost(GameType \in {NO_MISTER, BANDIT}, 2 * M(Misters))
           b4 == Cost(GameType \in {NO_KING_HEART, BANDIT}, 18 * M(KingOfHearts))
<1>6. a1 \in Nat /\ b1 \in Nat
      /\ Cost(GameType \in {NO_HEART, BANDIT}, N(Hearts) + M(Hearts)) = a1 + b1
  BY <1>5 DEF Cost
<1>7. a2 \in Nat /\ b2 \in Nat
      /\ Cost(GameType \in {NO_QUEEN, BANDIT}, 5 * (N(Queens) + M(Queens))) = a2 + b2
  BY <1>5 DEF Cost
<1>8. a3 \in Nat /\ b3 \in Nat
      /\ Cost(GameType \in {NO_MISTER, BANDIT}, 2 * (N(Misters) + M(Misters))) = a3 + b3
  BY <1>5 DEF Cost
<1>9. a4 \in Nat /\ b4 \in Nat
      /\ Cost(GameType \in {NO_KING_HEART, BANDIT}, 18 * (N(KingOfHearts) + M(KingOfHearts)))
            = a4 + b4
  BY <1>5 DEF Cost
<1>10. /\ PriceOfCards(some) = a1 + a2 + a3 + a4
       /\ PriceOfCards(more) = b1 + b2 + b3 + b4
  BY <1>2, <1>3
<1> HIDE DEF a1, a2, a3, a4, b1, b2, b3, b4
<1>11. PriceOfCards(some \cup more) = (a1 + b1) + (a2 + b2) + (a3 + b3) + (a4 + b4)
  BY <1>4, <1>6, <1>7, <1>8, <1>9
<1>12. QED
  BY <1>6, <1>7, <1>8, <1>9, <1>10, <1>11

(***************************************************************************)
(* The same of sets of tricks.                                             *)
(***************************************************************************)
LEMMA LewaPricesAdd ==
    ASSUME NEW some, NEW more, IsFiniteSet(some), IsFiniteSet(more), some \cap more = {}
    PROVE  /\ PriceOfLewas(some \cup more) = PriceOfLewas(some) + PriceOfLewas(more)
           /\ PriceOfLewas(some) \in Nat
           /\ PriceOfLewas(more) \in Nat
PROOF
<1> DEFINE special == {SeventhLewa, MaxNbrOfLewas}
           n == Cardinality(some)
           m == Cardinality(more)
           sn == Cardinality(special \cap some)
           sm == Cardinality(special \cap more)
<1>1. n \in Nat /\ m \in Nat /\ Cardinality(some \cup more) = n + m
  <2>1. Cardinality(some \cap more) = 0
    BY FS_EmptySet
  <2>2. /\ n \in Nat /\ m \in Nat
        /\ Cardinality(some \cup more) = n + m - Cardinality(some \cap more)
    BY FS_CardinalityType, FS_Union
  <2>3. n + m - 0 = n + m
    BY <2>2
  <2>4. QED
    BY <2>1, <2>2, <2>3
<1>2. sn \in Nat /\ sm \in Nat /\ Cardinality(special \cap (some \cup more)) = sn + sm
  <2>1. /\ special \cap (some \cup more) = (special \cap some) \cup (special \cap more)
        /\ (special \cap some) \cap (special \cap more) = {}
    OBVIOUS
  <2>2. IsFiniteSet(special \cap some) /\ IsFiniteSet(special \cap more)
    BY FS_Intersection
  <2>3. Cardinality((special \cap some) \cap (special \cap more)) = 0
    BY <2>1, FS_EmptySet
  <2>4. /\ sn \in Nat /\ sm \in Nat
        /\ Cardinality((special \cap some) \cup (special \cap more)) =
             sn + sm - Cardinality((special \cap some) \cap (special \cap more))
    BY <2>2, FS_CardinalityType, FS_Union
  <2>5. sn + sm - 0 = sn + sm
    BY <2>4
  <2>6. QED
    BY <2>1, <2>3, <2>4, <2>5
<1>3. /\ PriceOfLewas(some) = Cost(GameType \in {NO_LEWA, BANDIT}, n)
                              + Cost(GameType \in {NO_SEVEN_AND_LAST, BANDIT}, 10 * sn)
      /\ PriceOfLewas(more) = Cost(GameType \in {NO_LEWA, BANDIT}, m)
                              + Cost(GameType \in {NO_SEVEN_AND_LAST, BANDIT}, 10 * sm)
  BY DEF PriceOfLewas
<1> HIDE DEF n, m, sn, sm
<1>4. PriceOfLewas(some \cup more) =
          Cost(GameType \in {NO_LEWA, BANDIT}, n + m)
        + Cost(GameType \in {NO_SEVEN_AND_LAST, BANDIT}, 10 * (sn + sm))
  BY <1>1, <1>2 DEF PriceOfLewas
<1>5. QED
  BY <1>1, <1>2, <1>3, <1>4 DEF Cost

-----------------------------------------------------------------------------
(* What a trick is charged.                                                *)

(***************************************************************************)
(* PointCounter's sum for the full trick is the price of its cards and of  *)
(* the trick itself.                                                       *)
(***************************************************************************)
LEMMA LewaCharged ==
    ASSUME rounds \in Games, CardInv, TakeLewa
    PROVE  /\ CountPoints(curr_lewa, LewaId) = PriceOfCards(In(curr_lewa)) + CostOfLewa(LewaId)
           /\ CountPoints(curr_lewa, LewaId) \in Nat
PROOF
<1> DEFINE h == Among(Hearts, curr_lewa)
           q == Among(Queens, curr_lewa)
           m == Among(Misters, curr_lewa)
           g == Among(KingOfHearts, curr_lewa)
           s == SevenAndLastPoints(LewaId)
<1>1. /\ h = Cardinality(Hearts \cap In(curr_lewa)) /\ h \in Nat
      /\ q = Cardinality(Queens \cap In(curr_lewa)) /\ q \in Nat
      /\ m = Cardinality(Misters \cap In(curr_lewa)) /\ m \in Nat
      /\ g = Cardinality(KingOfHearts \cap In(curr_lewa)) /\ g \in Nat
  BY LewaCounted
<1>2. g \in {0, 1}
  <2>1. IsFiniteSet(KingOfHearts) /\ Cardinality(KingOfHearts) = 1
    BY DeckFacts, FS_Subset
  <2>2. Cardinality(KingOfHearts \cap In(curr_lewa)) <= Cardinality(KingOfHearts)
    BY <2>1, FS_Subset
  <2>3. QED
    BY <1>1, <2>1, <2>2
<1>3. /\ KingOfHeartsPoints(curr_lewa) = 18 * g
      /\ s \in Nat
  BY <1>2 DEF KingOfHeartsPoints, SevenAndLastPoints
<1>4. GameType \in GameTypes
  BY HandsDealt DEF CardInv, CardTypes
<1>5. CountPoints(curr_lewa, LewaId) =
        CASE GameType = NO_LEWA -> 1
          [] GameType = NO_HEART -> h
          [] GameType = NO_QUEEN -> 5 * q
          [] GameType = NO_MISTER -> 2 * m
          [] GameType = NO_KING_HEART -> 18 * g
          [] GameType = NO_SEVEN_AND_LAST -> s
          [] GameType = BANDIT -> 1 + h + 5 * q + 2 * m + 18 * g + s
  BY <1>3 DEF CountPoints
<1>6. PriceOfCards(In(curr_lewa)) =
          Cost(GameType \in {NO_HEART, BANDIT}, h)
        + Cost(GameType \in {NO_QUEEN, BANDIT}, 5 * q)
        + Cost(GameType \in {NO_MISTER, BANDIT}, 2 * m)
        + Cost(GameType \in {NO_KING_HEART, BANDIT}, 18 * g)
  BY <1>1 DEF PriceOfCards
<1>7. CostOfLewa(LewaId) = Cost(GameType \in {NO_LEWA, BANDIT}, 1)
                         + Cost(GameType \in {NO_SEVEN_AND_LAST, BANDIT}, s)
  BY DEF CostOfLewa, SevenAndLastPoints, Cost
<1>8. h \in Nat /\ q \in Nat /\ m \in Nat /\ g \in Nat /\ s \in Nat
  BY <1>1, <1>3
<1> HIDE DEF h, q, m, g, s
<1> USE DEF Cost, NO_LEWA, NO_HEART, NO_QUEEN, NO_MISTER, NO_KING_HEART,
            NO_SEVEN_AND_LAST, BANDIT
<1>9. CASE GameType = NO_LEWA
  BY <1>5, <1>6, <1>7, <1>8, <1>9
<1>10. CASE GameType = NO_HEART
  BY <1>5, <1>6, <1>7, <1>8, <1>10
<1>11. CASE GameType = NO_QUEEN
  BY <1>5, <1>6, <1>7, <1>8, <1>11
<1>12. CASE GameType = NO_MISTER
  BY <1>5, <1>6, <1>7, <1>8, <1>12
<1>13. CASE GameType = NO_KING_HEART
  BY <1>5, <1>6, <1>7, <1>8, <1>13
<1>14. CASE GameType = NO_SEVEN_AND_LAST
  BY <1>5, <1>6, <1>7, <1>8, <1>14
<1>15. CASE GameType = BANDIT
  BY <1>5, <1>6, <1>7, <1>8, <1>15
<1>16. QED
  BY <1>4, <1>9, <1>10, <1>11, <1>12, <1>13, <1>14, <1>15 DEF GameTypes

(***************************************************************************)
(* Nothing costs nothing, and one trick costs what CostOfLewa says.        *)
(***************************************************************************)
LEMMA PricesOfNone ==
    PriceOfCards({}) = 0 /\ PriceOfLewas({}) = 0
PROOF
<1>1. /\ \A kind : Cardinality(kind \cap {}) = 0
      /\ Cardinality({}) = 0
  <2>1. \A kind : kind \cap {} = {}
    OBVIOUS
  <2>2. QED
    BY <2>1, FS_EmptySet
<1>2. \A holds : Cost(holds, 0) = 0 /\ Cost(holds, 5 * 0) = 0 /\ Cost(holds, 2 * 0) = 0
                 /\ Cost(holds, 18 * 0) = 0 /\ Cost(holds, 10 * 0) = 0
  BY DEF Cost
<1>3. PriceOfCards({}) = 0
  BY <1>1, <1>2 DEF PriceOfCards
<1>4. PriceOfLewas({}) = 0
  BY <1>1, <1>2 DEF PriceOfLewas
<1>5. QED
  BY <1>3, <1>4

(***************************************************************************)
(* The price of one trick is what CostOfLewa says.                         *)
(***************************************************************************)
LEMMA PriceOfOne ==
    ASSUME NEW id
    PROVE  PriceOfLewas({id}) = CostOfLewa(id)
PROOF
<1> DEFINE special == {SeventhLewa, MaxNbrOfLewas}
<1>1. Cardinality({id}) = 1
  BY FS_Singleton
<1>2. Cardinality(special \cap {id}) = IF id \in special THEN 1 ELSE 0
  <2>1. special \cap {id} = IF id \in special THEN {id} ELSE {}
    OBVIOUS
  <2>2. QED
    BY <1>1, <2>1, FS_EmptySet
<1>3. QED
  BY <1>1, <1>2 DEF PriceOfLewas, CostOfLewa, Cost

(***************************************************************************)
(* What a seat has taken, and what that costs.                             *)
(***************************************************************************)
TakenBy(p) == {i \in DOMAIN lewas_played : lewas_played[i].taker = p}
CardsTakenBy(p) == UNION {In(lewas_played[i].cards) : i \in TakenBy(p)}
Price(p) == PriceOfLewas(TakenBy(p)) + PriceOfCards(CardsTakenBy(p))

(***************************************************************************)
(* The rules charge a seat that price.                                     *)
(***************************************************************************)
LEMMA PointsPriced ==
    CardTypes /\ InTurn => \A p \in Players : PointsTaken(p) = Price(p)
PROOF
<1> SUFFICES ASSUME CardTypes, InTurn, NEW p \in Players
             PROVE  PointsTaken(p) = Price(p)
  OBVIOUS
<1> DEFINE laid == UNION {{lewas_played[i].cards[k] : k \in 1 .. NumPlayers} : i \in TakenBy(p)}
<1>1. PointsTaken(p) = MapThenSumSet(CostOfLewa, TakenBy(p)) + MapThenSumSet(CostOfCard, laid)
  BY DEF PointsTaken, TakenBy
<1>2. \A i \in DOMAIN lewas_played : DOMAIN lewas_played[i].cards = 1 .. NumPlayers
  <2> SUFFICES ASSUME NEW i \in DOMAIN lewas_played
               PROVE  DOMAIN lewas_played[i].cards = 1 .. NumPlayers
    OBVIOUS
  <2>1. lewas_played[i].cards \in Seq(Deck) /\ Len(lewas_played[i].cards) = NumPlayers
    BY LaidInDeck DEF InTurn
  <2>2. QED
    BY <2>1
<1>3. laid = CardsTakenBy(p)
  <2>1. \A i \in TakenBy(p) :
          {lewas_played[i].cards[k] : k \in 1 .. NumPlayers} = In(lewas_played[i].cards)
    BY <1>2 DEF In, TakenBy
  <2>2. \A x : x \in laid <=> \E i \in TakenBy(p) :
                 x \in {lewas_played[i].cards[k] : k \in 1 .. NumPlayers}
    OBVIOUS
  <2>3. \A x : x \in CardsTakenBy(p) <=> \E i \in TakenBy(p) : x \in In(lewas_played[i].cards)
    BY DEF CardsTakenBy
  <2> HIDE DEF laid
  <2>4. ASSUME NEW x \in laid PROVE x \in CardsTakenBy(p)
    <3>1. PICK i \in TakenBy(p) : x \in {lewas_played[i].cards[k] : k \in 1 .. NumPlayers}
      BY <2>2
    <3>2. x \in In(lewas_played[i].cards)
      BY <2>1, <3>1
    <3>3. QED
      BY <2>3, <3>2
  <2>5. ASSUME NEW x \in CardsTakenBy(p) PROVE x \in laid
    <3>1. PICK i \in TakenBy(p) : x \in In(lewas_played[i].cards)
      BY <2>3
    <3>2. x \in {lewas_played[i].cards[k] : k \in 1 .. NumPlayers}
      BY <2>1, <3>1
    <3>3. QED
      BY <2>2, <3>2
  <2>6. QED
    BY <2>4, <2>5
<1>4. CardsTakenBy(p) \subseteq Deck
  BY LaidInDeck DEF CardsTakenBy, TakenBy
<1>5. IsFiniteSet(TakenBy(p))
  <2>1. DOMAIN lewas_played = 1 .. Len(lewas_played) /\ Len(lewas_played) \in Nat
    BY DEF CardTypes
  <2>2. IsFiniteSet(1 .. Len(lewas_played))
    BY <2>1, FS_Interval
  <2>3. QED
    BY <2>1, <2>2, FS_Subset DEF TakenBy
<1> HIDE DEF laid
<1>6. QED
  BY <1>1, <1>3, <1>4, <1>5, CardsPriced, LewasPriced DEF Price

(***************************************************************************)
(* What a trick adds to what its taker has taken.                          *)
(***************************************************************************)
LEMMA PricesGrow ==
    ASSUME rounds \in Games, CardInv, TakeLewa, NEW p \in Players
    PROVE  /\ Price(p)' = Price(p) + (IF p = WhoWonLewa THEN CountPoints(curr_lewa, LewaId) ELSE 0)
           /\ Price(p) \in Nat
PROOF
<1> DEFINE last == Len(lewas_played) + 1
<1>1. CardTypes /\ InTurn /\ LaidOnce
  BY DEF CardInv
<1>2. /\ \A S : PriceOfLewas(S)' = PriceOfLewas(S)
      /\ \A S : PriceOfCards(S)' = PriceOfCards(S)
  BY LewaTaken DEF PriceOfLewas, PriceOfCards, GameType, Hearts, Queens, Misters, KingOfHearts
<1>3. /\ DOMAIN lewas_played' = DOMAIN lewas_played \cup {last}
      /\ lewas_played'[last].taker = WhoWonLewa /\ lewas_played'[last].cards = curr_lewa
      /\ \A i \in DOMAIN lewas_played : lewas_played'[i] = lewas_played[i]
      /\ last \notin DOMAIN lewas_played
  BY LewaTaken
<1> HIDE DEF last
<1>4. TakenBy(p)' = TakenBy(p) \cup (IF p = WhoWonLewa THEN {last} ELSE {})
  BY <1>3 DEF TakenBy
<1>5. CardsTakenBy(p)' = CardsTakenBy(p) \cup (IF p = WhoWonLewa THEN In(curr_lewa) ELSE {})
  <2>1. \A i \in TakenBy(p) : In(lewas_played[i].cards)' = In(lewas_played[i].cards)
    BY <1>3 DEF In, TakenBy
  <2>2. In(lewas_played'[last].cards) = In(curr_lewa)
    BY <1>3
  <2>3. CardsTakenBy(p)' = UNION {In(lewas_played'[i].cards) : i \in TakenBy(p)'}
    BY DEF CardsTakenBy, In
  <2>4. \A i \in TakenBy(p) : In(lewas_played'[i].cards) = In(lewas_played[i].cards)
    BY <1>3 DEF TakenBy
  <2>5. \A x : x \in CardsTakenBy(p)' <=> \E i \in TakenBy(p)' : x \in In(lewas_played'[i].cards)
    BY <2>3
  <2>6. \A x : x \in CardsTakenBy(p) <=> \E i \in TakenBy(p) : x \in In(lewas_played[i].cards)
    BY DEF CardsTakenBy
  <2>7. CASE p = WhoWonLewa
    BY <1>4, <2>2, <2>4, <2>5, <2>6, <2>7
  <2>8. CASE p # WhoWonLewa
    BY <1>4, <2>2, <2>4, <2>5, <2>6, <2>8
  <2>9. QED
    BY <2>7, <2>8
<1>6. /\ CardsTakenBy(p) \in SUBSET Deck /\ In(curr_lewa) \in SUBSET Deck
      /\ CardsTakenBy(p) \cap In(curr_lewa) = {}
  BY <1>1, LaidInDeck DEF CardsTakenBy, TakenBy, LaidOnce
<1>7. IsFiniteSet(TakenBy(p)) /\ IsFiniteSet({last}) /\ TakenBy(p) \cap {last} = {}
  <2>1. DOMAIN lewas_played = 1 .. Len(lewas_played) /\ Len(lewas_played) \in Nat
    BY LewaTaken
  <2>2. IsFiniteSet(1 .. Len(lewas_played))
    BY <2>1, FS_Interval
  <2>3. QED
    <3>1. TakenBy(p) \subseteq 1 .. Len(lewas_played)
      BY <2>1 DEF TakenBy
    <3>2. IsFiniteSet(TakenBy(p))
      BY <2>2, <3>1, FS_Subset
    <3>3. IsFiniteSet({last})
      BY FS_Singleton
    <3>4. TakenBy(p) \cap {last} = {}
      BY <1>3, <2>1, <3>1
    <3>5. QED
      BY <3>2, <3>3, <3>4
<1>8. /\ PriceOfCards(CardsTakenBy(p) \cup In(curr_lewa)) =
            PriceOfCards(CardsTakenBy(p)) + PriceOfCards(In(curr_lewa))
      /\ PriceOfCards(CardsTakenBy(p)) \in Nat
      /\ PriceOfCards(In(curr_lewa)) \in Nat
  BY <1>6, PricesAdd
<1>9. /\ PriceOfLewas(TakenBy(p) \cup {last}) = PriceOfLewas(TakenBy(p)) + CostOfLewa(last)
      /\ PriceOfLewas(TakenBy(p)) \in Nat
      /\ CostOfLewa(last) \in Nat
  BY <1>7, LewaPricesAdd, PriceOfOne
<1>10. /\ Price(p)' = PriceOfLewas(TakenBy(p)') + PriceOfCards(CardsTakenBy(p)')
  BY <1>2 DEF Price
<1>11. CASE p = WhoWonLewa
  <2>1. Price(p)' = PriceOfLewas(TakenBy(p) \cup {last})
                      + PriceOfCards(CardsTakenBy(p) \cup In(curr_lewa))
    BY <1>4, <1>5, <1>10, <1>11
  <2>2. CountPoints(curr_lewa, LewaId) = PriceOfCards(In(curr_lewa)) + CostOfLewa(last)
    BY LewaCharged DEF LewaId, last
  <2>3. QED
    BY <1>8, <1>9, <1>11, <2>1, <2>2 DEF Price
<1>12. CASE p # WhoWonLewa
  <2>1. Price(p)' = PriceOfLewas(TakenBy(p)) + PriceOfCards(CardsTakenBy(p))
    BY <1>4, <1>5, <1>10, <1>12
  <2>2. QED
    BY <1>8, <1>9, <1>12, <2>1 DEF Price
<1>13. QED
  BY <1>11, <1>12

-----------------------------------------------------------------------------
(* The invariant.                                                          *)

(***************************************************************************)
(* A seat that answers has no card on the table, so that a suit it does    *)
(* not follow was gone from its hand with the finished tricks.             *)
(***************************************************************************)
LEMMA PlayFollows ==
    ASSUME rounds \in Games, CardInv, Followed,
           NEW p \in Players, NEW c \in Deck, PlayCard(p, c)
    PROVE  Followed'
PROOF
<1>0. CardTypes /\ InTurn /\ Marked
  BY DEF CardInv
<1>1. \A q : PlayerCards(q)' = PlayerCards(q)
  BY CardLaid DEF PlayerCards
<1>2. \A leader, k : SeatAt(leader, k)' = SeatAt(leader, k)
  BY DEF SeatAt
<1> DEFINE new == Len(curr_lewa) + 1
<1>3. /\ curr_lewa \in Seq(Deck) /\ Len(curr_lewa) \in Nat /\ DOMAIN curr_lewa = 1 .. Len(curr_lewa)
      /\ p = SeatAt(first_player, new)
      /\ curr_lewa'[new] = c
      /\ \A k \in DOMAIN curr_lewa : curr_lewa'[k] = curr_lewa[k]
      /\ DOMAIN curr_lewa' = DOMAIN curr_lewa \cup {new}
  <2>1. curr_lewa \in Seq(Deck) /\ Len(curr_lewa) \in Nat /\ DOMAIN curr_lewa = 1 .. Len(curr_lewa)
    BY <1>0 DEF CardTypes
  <2>2. QED
    BY <2>1, CardLaid
<1>4. /\ curr_lewa = << >> => new = 1
      /\ curr_lewa # << >> => curr_lewa'[1] = curr_lewa[1]
  BY <1>3
<1>5. ASSUME NEW d \in PlayerCards(p), c.suit # curr_lewa'[1].suit, d.suit = curr_lewa'[1].suit
      PROVE  d \in Laid
  <2>1. curr_lewa # << >> /\ curr_lewa'[1] = curr_lewa[1]
    BY <1>3, <1>4, <1>5
  <2>2. \A e \in PlayerCards(p) \ was_card_played[p] : e.suit # curr_lewa[1].suit
    BY <1>5, <2>1 DEF PlayCard, CheckCardCorrectness, CardCorrect
  <2>3. d \in was_card_played[p]
    BY <1>5, <2>1, <2>2
  <2>4. d \in Laid \cup In(curr_lewa)
    BY <1>0, <2>3 DEF Marked
  <2>5. d \notin In(curr_lewa)
    <3> SUFFICES ASSUME NEW k \in DOMAIN curr_lewa, d = curr_lewa[k]
                 PROVE  FALSE
      BY DEF In
    <3>1. d \in PlayerCards(SeatAt(first_player, k))
      BY <1>0 DEF InTurn, FromHands
    <3>2. SeatAt(first_player, k) \in Players
      <4>1. k \in 1 .. NumPlayers
        BY <1>0, <1>3, SizesAssumption DEF InTurn
      <4>2. QED
        BY <1>0, <4>1, SeatWraps DEF CardTypes
    <3>3. p = SeatAt(first_player, k)
      BY <1>0, <1>5, <3>1, <3>2, HandsDealt DEF CardTypes
    <3>4. QED
      BY <3>3, LaidBySeat DEF HasLaid
  <2>6. QED
    BY <2>4, <2>5
<1>6. Follows(first_player, curr_lewa, Laid)'
  <2> SUFFICES ASSUME NEW k \in DOMAIN curr_lewa', curr_lewa'[k].suit # curr_lewa'[1].suit,
                      NEW d \in PlayerCards(SeatAt(first_player, k)),
                      d.suit = curr_lewa'[1].suit
               PROVE  d \in Laid
    BY <1>1, <1>2, CardLaid DEF Follows
  <2>1. CASE k \in DOMAIN curr_lewa
    <3>1. curr_lewa # << >>
      BY <2>1
    <3>2. curr_lewa'[1] = curr_lewa[1] /\ curr_lewa'[k] = curr_lewa[k]
      BY <1>3, <1>4, <2>1, <3>1
    <3>3. QED
      BY <2>1, <3>2 DEF Followed, Follows
  <2>2. CASE k = new
    BY <1>3, <1>5, <2>2
  <2>3. QED
    BY <1>3, <2>1, <2>2
<1>7. \A i \in DOMAIN lewas_played' :
        Follows(lewas_played[i].leader, lewas_played[i].cards, LaidBefore(i))'
  <2>1. \A i : LaidBefore(i)' = LaidBefore(i)
    BY CardLaid DEF LaidBefore, In
  <2>2. QED
    BY <1>1, <1>2, <2>1, CardLaid DEF Followed, Follows
<1>8. QED
  BY <1>6, <1>7 DEF Followed

(***************************************************************************)
(* The cards before the i-th trick do not change when one more is put away.*)
(***************************************************************************)
LEMMA BeforeKept ==
    ASSUME rounds \in Games, CardInv, TakeLewa
    PROVE  /\ \A i \in DOMAIN lewas_played' : LaidBefore(i)' = LaidBefore(i)
           /\ LaidBefore(Len(lewas_played) + 1) = Laid
PROOF
<1>1. /\ DOMAIN lewas_played = 1 .. Len(lewas_played) /\ Len(lewas_played) \in Nat
      /\ \A i \in DOMAIN lewas_played : lewas_played'[i] = lewas_played[i]
  BY LewaTaken
<1>2. \A i \in 1 .. Len(lewas_played) + 1 : \A j \in 1 .. i - 1 :
        j \in DOMAIN lewas_played /\ lewas_played'[j] = lewas_played[j]
  BY <1>1
<1>3. \A i \in 1 .. Len(lewas_played) + 1 : LaidBefore(i)' = LaidBefore(i)
  BY <1>2 DEF LaidBefore, In
<1>4. LaidBefore(Len(lewas_played) + 1) = Laid
  <2>1. 1 .. (Len(lewas_played) + 1) - 1 = DOMAIN lewas_played
    BY <1>1
  <2>2. QED
    BY <2>1 DEF LaidBefore, Laid
<1>5. DOMAIN lewas_played' = 1 .. Len(lewas_played) + 1
  BY <1>1, LewaTaken
<1>6. QED
  BY <1>3, <1>4, <1>5

(***************************************************************************)
(* A trick that is put away was laid when its predecessors were gone.      *)
(***************************************************************************)
LEMMA TakeFollows ==
    ASSUME rounds \in Games, CardInv, Followed, TakeLewa
    PROVE  Followed'
PROOF
<1>1. \A q : PlayerCards(q)' = PlayerCards(q)
  BY LewaTaken DEF PlayerCards
<1>2. \A leader, k : SeatAt(leader, k)' = SeatAt(leader, k)
  BY DEF SeatAt
<1> DEFINE last == Len(lewas_played) + 1
<1>3. /\ lewas_played'[last].cards = curr_lewa /\ lewas_played'[last].leader = first_player
      /\ \A i \in DOMAIN lewas_played : lewas_played'[i] = lewas_played[i]
      /\ DOMAIN lewas_played' = DOMAIN lewas_played \cup {last}
  BY LewaTaken
<1>4. Follows(first_player, curr_lewa, Laid)'
  BY LewaTaken DEF Follows
<1>5. ASSUME NEW i \in DOMAIN lewas_played'
      PROVE  Follows(lewas_played[i].leader, lewas_played[i].cards, LaidBefore(i))'
  <2>1. CASE i \in DOMAIN lewas_played
    BY <1>1, <1>2, <1>3, <2>1, BeforeKept DEF Followed, Follows
  <2>2. CASE i = last
    <3>1. LaidBefore(i)' = Laid
      BY <2>2, BeforeKept
    <3>2. lewas_played'[i].cards = curr_lewa /\ lewas_played'[i].leader = first_player
      BY <1>3, <2>2
    <3>3. Follows(first_player, curr_lewa, Laid)
      BY DEF Followed
    <3>4. QED
      BY <1>1, <1>2, <3>1, <3>2, <3>3 DEF Follows
  <2>3. QED
    BY <1>3, <2>1, <2>2
<1>6. QED
  BY <1>4, <1>5 DEF Followed

(***************************************************************************)
(* The taker of the trick is the seat of the best card.                    *)
(***************************************************************************)
LEMMA TakesHighest ==
    ASSUME rounds \in Games, CardInv, TakerHighest, TakeLewa
    PROVE  TakerHighest'
PROOF
<1>1. \A q : PlayerCards(q)' = PlayerCards(q)
  BY LewaTaken DEF PlayerCards
<1> DEFINE last == Len(lewas_played) + 1
<1>2. /\ lewas_played'[last].cards = curr_lewa /\ lewas_played'[last].taker = WhoWonLewa
      /\ \A i \in DOMAIN lewas_played : lewas_played'[i] = lewas_played[i]
      /\ DOMAIN lewas_played' = DOMAIN lewas_played \cup {last}
  BY LewaTaken
<1> DEFINE Best(lewa, seat) ==
             \E c \in {lewa[k] : k \in 1 .. NumPlayers} \cap PlayerCards(seat) :
                /\ c.suit = lewa[1].suit
                /\ \A d \in {lewa[k] : k \in 1 .. NumPlayers} :
                       d.suit = lewa[1].suit => d.value <= c.value
<1>3. TakerHighest = \A i \in DOMAIN lewas_played : Best(lewas_played[i].cards, lewas_played[i].taker)
  BY DEF TakerHighest
<1>4. TakerHighest' = \A i \in DOMAIN lewas_played' :
                         Best(lewas_played'[i].cards, lewas_played'[i].taker)
  BY <1>1 DEF TakerHighest
<1>5. Best(curr_lewa, WhoWonLewa)
  <2>1. curr_lewa \in Seq(Deck) /\ Len(curr_lewa) = NumPlayers /\ FromHands(first_player, curr_lewa)
    BY LewaTaken DEF CardInv, CardTypes, InTurn
  <2>2. PICK b \in 1 .. NumPlayers :
             /\ WhoWonLewa = SeatAt(first_player, b)
             /\ curr_lewa[b].suit = curr_lewa[1].suit
             /\ \A k \in 1 .. NumPlayers : curr_lewa[k].suit = curr_lewa[1].suit =>
                    curr_lewa[k].value <= curr_lewa[b].value
    BY <2>1, BestCard
  <2>3. curr_lewa[b] \in PlayerCards(WhoWonLewa)
    BY <2>1, <2>2 DEF FromHands
  <2>4. QED
    BY <2>2, <2>3
<1> HIDE DEF Best, last
<1>6. \A i \in DOMAIN lewas_played' : Best(lewas_played'[i].cards, lewas_played'[i].taker)
  BY <1>2, <1>3, <1>5
<1>7. QED
  BY <1>4, <1>6

(***************************************************************************)
(* A round that begins: nothing is laid, marked, counted or charged.       *)
(***************************************************************************)
Fresh ==
    /\ round_number \in 1 .. NumRounds
    /\ first_player \in Players
    /\ curr_lewa = << >>
    /\ lewas_played = << >>
    /\ was_card_played = [p \in Players |-> {}]
    /\ curr_game_points = [p \in Players |-> 0]
    /\ card_counter = NewGame

Priced == \A p \in Players : curr_game_points[p] = Price(p)

(***************************************************************************)
(* With it every part of the invariant holds.                              *)
(***************************************************************************)
LEMMA FreshInv == Fresh => CardInv /\ Followed /\ TakerHighest /\ Priced
PROOF
<1> SUFFICES ASSUME Fresh PROVE CardInv /\ Followed /\ TakerHighest /\ Priced
  OBVIOUS
<1> USE DEF Fresh
<1>1. CardTypes
  BY DEF CardTypes
<1>2. Laid = {} /\ In(curr_lewa) = {} /\ \A p : ~ HasLaid(p)
  BY DEF Laid, In, HasLaid
<1>3. InTurn
  BY SizesAssumption DEF InTurn, FromHands
<1>4. LaidOnce
  BY <1>2, SizesAssumption DEF LaidOnce
<1>5. Marked
  <2>1. Cardinality({}) = 0
    BY FS_EmptySet
  <2>2. QED
    BY <1>2, <2>1 DEF Marked
<1>6. Counted
  <2>1. \A kind : kind \cap {} = {}
    OBVIOUS
  <2>2. \A kind : Cardinality(kind \cap Laid) = 0
    BY <1>2, <2>1, FS_EmptySet
  <2>3. (KingOfHearts \cap Laid # {}) = FALSE
    BY <1>2
  <2>4. (Len(lewas_played) = MaxNbrOfLewas) = FALSE /\ Len(lewas_played) = 0
    BY DeckAssumption, SizesAssumption DEF Lewas
  <2>5. QED
    BY <2>2, <2>3, <2>4 DEF Counted, NewGame
<1>7. Followed
  BY DEF Followed, Follows
<1>8. TakerHighest
  BY DEF TakerHighest
<1>9. Priced
  <2>1. \A p : TakenBy(p) = {} /\ CardsTakenBy(p) = {}
    BY DEF TakenBy, CardsTakenBy
  <2>2. PriceOfLewas({}) + PriceOfCards({}) = 0
    BY PricesOfNone
  <2>3. \A p : Price(p) = 0
    BY <2>1, <2>2 DEF Price
  <2>4. QED
    BY <2>3 DEF Priced
<1>10. QED
  BY <1>1, <1>3, <1>4, <1>5, <1>6, <1>7, <1>8, <1>9 DEF CardInv

(***************************************************************************)
(* The invariant proper: the points as the price of what was taken.        *)
(***************************************************************************)
RoundInv == rounds \in Games /\ CardInv /\ Followed /\ TakerHighest /\ Priced

(***************************************************************************)
(* It holds when the first round begins.                                   *)
(***************************************************************************)
LEMMA RoundInit == Init => RoundInv
PROOF
<1> SUFFICES ASSUME Init PROVE RoundInv
  OBVIOUS
<1>1. Fresh
  BY SizesAssumption, GamesAssumption DEF Init, Fresh
<1>2. QED
  BY <1>1, FreshInv DEF Init, RoundInv

(***************************************************************************)
(* A card that is laid keeps it, and costs nothing yet.                    *)
(***************************************************************************)
LEMMA RoundPlay ==
    ASSUME RoundInv, NEW p \in Players, NEW c \in Deck, PlayCard(p, c)
    PROVE  RoundInv'
PROOF
<1>1. rounds \in Games /\ CardInv /\ Followed /\ TakerHighest /\ Priced
  BY DEF RoundInv
<1>2. UNCHANGED <<rounds, round_number, lewas_played, curr_game_points>>
  BY DEF PlayCard
<1>3. CardInv' /\ Followed'
  BY <1>1, PlayKeeps, PlayFollows
<1>4. TakerHighest'
  BY <1>1, <1>2 DEF TakerHighest, PlayerCards
<1>5. Priced'
  <2>1. \A q : Price(q)' = Price(q)
    BY <1>2 DEF Price, PriceOfLewas, PriceOfCards, TakenBy, CardsTakenBy, In, GameType,
       Hearts, Queens, Misters, KingOfHearts
  <2>2. QED
    BY <1>1, <1>2, <2>1 DEF Priced
<1>6. QED
  BY <1>1, <1>2, <1>3, <1>4, <1>5 DEF RoundInv

(***************************************************************************)
(* So does a trick that is taken, counted and charged.                     *)
(***************************************************************************)
LEMMA RoundTake ==
    ASSUME RoundInv, TakeLewa
    PROVE  RoundInv'
PROOF
<1>1. rounds \in Games /\ CardInv /\ Followed /\ TakerHighest /\ Priced
  BY DEF RoundInv
<1>2. /\ curr_game_points' =
            [curr_game_points EXCEPT ![WhoWonLewa] = @ + CountPoints(curr_lewa, LewaId)]
      /\ UNCHANGED rounds
  BY DEF TakeLewa
<1>3. /\ curr_game_points \in [Players -> Nat] /\ WhoWonLewa \in Players
      /\ CountPoints(curr_lewa, LewaId) \in Nat
  BY <1>1, LewaTaken, LewaCharged DEF CardInv, CardTypes
<1>4. curr_game_points' \in [Players -> Nat]
  BY <1>2, <1>3
<1>5. CardInv' /\ Followed' /\ TakerHighest'
  BY <1>1, <1>4, TakeKeeps, TakeFollows, TakesHighest
<1>6. Priced'
  <2> SUFFICES ASSUME NEW q \in Players PROVE curr_game_points'[q] = Price(q)'
    BY DEF Priced
  <2>1. curr_game_points[q] = Price(q)
    BY <1>1 DEF Priced
  <2>2. /\ Price(q)' = Price(q) + (IF q = WhoWonLewa THEN CountPoints(curr_lewa, LewaId) ELSE 0)
        /\ Price(q) \in Nat
    BY <1>1, PricesGrow
  <2>3. QED
    BY <1>2, <1>3, <2>1, <2>2
<1>7. QED
  BY <1>1, <1>2, <1>5, <1>6 DEF RoundInv

(***************************************************************************)
(* Every step keeps it; a new round begins afresh.                         *)
(***************************************************************************)
LEMMA RoundNext == RoundInv /\ [Next]_vars => RoundInv'
PROOF
<1> SUFFICES ASSUME RoundInv, [Next]_vars PROVE RoundInv'
  OBVIOUS
<1>1. ASSUME NEW p \in Players, NEW c \in Deck, PlayCard(p, c) PROVE RoundInv'
  BY <1>1, RoundPlay
<1>2. CASE TakeLewa
  BY <1>2, RoundTake
<1>3. CASE NewRound
  <2>1. Fresh'
    <3>1. round_number + 1 \in 1 .. NumRounds
      BY <1>3, SizesAssumption DEF NewRound, RoundInv, CardInv, CardTypes
    <3>2. QED
      BY <1>3, <3>1, GamesAssumption DEF NewRound, Fresh
  <2>2. CardInv' /\ Followed' /\ TakerHighest' /\ Priced'
    BY <2>1, FreshInv, PTL
  <2>3. QED
    BY <1>3, <2>2 DEF NewRound, RoundInv
<1>4. ASSUME UNCHANGED vars PROVE RoundInv'
  <2> USE <1>4 DEF RoundInv, vars
  <2>1. /\ \A q : PlayerCards(q)' = PlayerCards(q)
        /\ Laid' = Laid /\ In(curr_lewa)' = In(curr_lewa)
        /\ \A i : In(lewas_played[i].cards)' = In(lewas_played[i].cards)
        /\ \A i : LaidBefore(i)' = LaidBefore(i)
        /\ \A q : HasLaid(q)' = HasLaid(q)
        /\ \A leader, k : SeatAt(leader, k)' = SeatAt(leader, k)
    BY DEF PlayerCards, Laid, In, LaidBefore, HasLaid, SeatAt
  <2>2. CardTypes'
    BY DEF CardInv, CardTypes
  <2>3. InTurn'
    BY <2>1 DEF CardInv, InTurn, FromHands
  <2>4. LaidOnce'
    BY <2>1 DEF CardInv, LaidOnce
  <2>5. Marked'
    BY <2>1 DEF CardInv, Marked
  <2>6. Counted'
    BY <2>1 DEF CardInv, Counted
  <2>7. Followed'
    BY <2>1 DEF Followed, Follows
  <2>8. TakerHighest'
    BY <2>1 DEF TakerHighest
  <2>9. Priced'
    <3>1. \A q : Price(q)' = Price(q)
      BY DEF Price, PriceOfLewas, PriceOfCards, TakenBy, CardsTakenBy, In, GameType,
         Hearts, Queens, Misters, KingOfHearts
    <3>2. QED
      BY <3>1 DEF Priced
  <2>10. QED
    BY <2>2, <2>3, <2>4, <2>5, <2>6, <2>7, <2>8, <2>9 DEF CardInv
<1>5. CASE Stopped
  BY <1>4, <1>5 DEF Stopped
<1>6. QED
  BY <1>1, <1>2, <1>3, <1>4, <1>5 DEF Next

(***************************************************************************)
(* The points are what the rules charge.                                   *)
(***************************************************************************)
LEMMA RoundPlayInv == RoundInv => PlayInv
PROOF
<1> SUFFICES ASSUME RoundInv PROVE PlayInv
  OBVIOUS
<1>1. CardTypes /\ InTurn
  BY DEF RoundInv, CardInv
<1>2. \A p \in Players : PointsTaken(p) = Price(p)
  BY <1>1, PointsPriced
<1>3. PointsByRules
  BY <1>2 DEF RoundInv, Priced, PointsByRules
<1>4. QED
  BY <1>3 DEF RoundInv, PlayInv

(***************************************************************************)
(* The hands, the marks, the tricks, the counters and the points tell one  *)
(* story in every state: the invariant of the cards is inductive.          *)
(***************************************************************************)
THEOREM RoundInvariance == Spec => []RoundInv
PROOF
  BY RoundInit, RoundNext, PTL DEF Spec

(***************************************************************************)
(* And with it the invariant that TLC checks on the runs.                  *)
(***************************************************************************)
THEOREM PlayInvariance == Spec => []PlayInv
PROOF
  BY RoundInvariance, RoundPlayInv, PTL

-----------------------------------------------------------------------------
(* What the invariant says of the tricks.                                  *)

(***************************************************************************)
(* The points a seat is charged are the price of the tricks it took        *)
(* (handle_TAKEN).                                                         *)
(***************************************************************************)
THEOREM PointsRight == Spec => []PointsByRules
PROOF
<1>1. PlayInv => PointsByRules
  BY DEF PlayInv
<1>2. QED
  BY <1>1, PlayInvariance, PTL

(***************************************************************************)
(* check_who_won_lewa names the seat that was dealt the highest card of    *)
(* the suit led.                                                           *)
(***************************************************************************)
THEOREM TakerRight == Spec => []TakerHighest
PROOF
<1>1. PlayInv => TakerHighest
  BY DEF PlayInv
<1>2. QED
  BY <1>1, PlayInvariance, PTL

(***************************************************************************)
(* Who did not follow suit had no card of it left, on the table and in the *)
(* finished tricks.                                                        *)
(***************************************************************************)
LEMMA FollowedNoRevoke == CardTypes /\ InTurn /\ Followed => NoRevoke
PROOF
<1> SUFFICES ASSUME CardTypes, InTurn, Followed PROVE NoRevoke
  OBVIOUS
<1> DEFINE table == [cards |-> curr_lewa, leader |-> first_player, taker |-> NumPlayers]
           tricks == Append(lewas_played, table)
           gone(i) == UNION {{tricks[j].cards[k] : k \in 1 .. NumPlayers} : j \in 1 .. i - 1}
           last == Len(lewas_played) + 1
<1>1. /\ Len(lewas_played) \in Nat /\ DOMAIN lewas_played = 1 .. Len(lewas_played)
      /\ DOMAIN tricks = DOMAIN lewas_played \cup {last}
      /\ tricks[last] = table
      /\ \A i \in DOMAIN lewas_played : tricks[i] = lewas_played[i]
  BY DEF CardTypes
<1> HIDE DEF tricks
<1>2. \A i \in DOMAIN lewas_played :
        {lewas_played[i].cards[k] : k \in 1 .. NumPlayers} = In(lewas_played[i].cards)
  <2> SUFFICES ASSUME NEW i \in DOMAIN lewas_played
               PROVE  {lewas_played[i].cards[k] : k \in 1 .. NumPlayers} = In(lewas_played[i].cards)
    OBVIOUS
  <2>1. lewas_played[i].cards \in Seq(Deck) /\ Len(lewas_played[i].cards) = NumPlayers
    BY LaidInDeck DEF InTurn
  <2>2. DOMAIN lewas_played[i].cards = 1 .. NumPlayers
    BY <2>1
  <2>3. QED
    BY <2>2 DEF In
<1>3. \A i \in DOMAIN tricks : gone(i) = LaidBefore(i)
  <2> SUFFICES ASSUME NEW i \in DOMAIN tricks PROVE gone(i) = LaidBefore(i)
    OBVIOUS
  <2>1. \A j \in 1 .. i - 1 : j \in DOMAIN lewas_played
    BY <1>1
  <2>2. \A j \in 1 .. i - 1 :
          {tricks[j].cards[k] : k \in 1 .. NumPlayers} = In(lewas_played[j].cards)
    <3> SUFFICES ASSUME NEW j \in 1 .. i - 1
                 PROVE  {tricks[j].cards[k] : k \in 1 .. NumPlayers} = In(lewas_played[j].cards)
      OBVIOUS
    <3>1. j \in DOMAIN lewas_played
      BY <2>1
    <3>2. tricks[j] = lewas_played[j]
      BY <1>1, <3>1
    <3>3. QED
      BY <1>2, <3>1, <3>2
  <2>3. ASSUME NEW x \in gone(i) PROVE x \in LaidBefore(i)
    <3>1. PICK j \in 1 .. i - 1 : x \in {tricks[j].cards[k] : k \in 1 .. NumPlayers}
      OBVIOUS
    <3>2. x \in In(lewas_played[j].cards)
      BY <2>2, <3>1
    <3>3. QED
      BY <3>2 DEF LaidBefore
  <2>4. ASSUME NEW x \in LaidBefore(i) PROVE x \in gone(i)
    <3>1. PICK j \in 1 .. i - 1 : x \in In(lewas_played[j].cards)
      BY DEF LaidBefore
    <3>2. x \in {tricks[j].cards[k] : k \in 1 .. NumPlayers}
      BY <2>2, <3>1
    <3>3. QED
      BY <3>2
  <2> HIDE DEF gone
  <2>5. QED
    BY <2>3, <2>4
<1>4. LaidBefore(last) = Laid
  <2>1. 1 .. last - 1 = DOMAIN lewas_played
    BY <1>1
  <2>2. QED
    BY <2>1 DEF LaidBefore, Laid
<1>5. ASSUME NEW i \in DOMAIN tricks
      PROVE  Follows(tricks[i].leader, tricks[i].cards, gone(i))
  <2>1. CASE i \in DOMAIN lewas_played
    BY <1>1, <1>3, <2>1 DEF Followed
  <2>2. CASE i = last
    <3>1. gone(i) = Laid
      BY <1>3, <1>4, <2>2
    <3>2. tricks[i].leader = first_player /\ tricks[i].cards = curr_lewa
      BY <1>1, <2>2
    <3>3. QED
      BY <3>1, <3>2 DEF Followed
  <2>3. QED
    BY <1>1, <2>1, <2>2
<1>6. \A i \in DOMAIN tricks : \A k \in DOMAIN tricks[i].cards :
        tricks[i].cards[k].suit # tricks[i].cards[1].suit =>
          \A c \in PlayerCards((tricks[i].leader + k - 1) % NumPlayers) :
             c.suit = tricks[i].cards[1].suit => c \in gone(i)
  <2> HIDE DEF gone
  <2>1. QED
    BY <1>5 DEF Follows, SeatAt
<1>7. QED
  BY <1>6 DEF NoRevoke, tricks

(***************************************************************************)
(* Nobody ever gets away with not following suit (check_card_correctness). *)
(***************************************************************************)
THEOREM SuitsFollowed == Spec => []NoRevoke
PROOF
<1>1. PlayInv => NoRevoke
  BY FollowedNoRevoke DEF PlayInv, CardInv
<1>2. QED
  BY <1>1, PlayInvariance, PTL

(***************************************************************************)
(* Each kind of card, and of trick, is laid at most as often as it exists. *)
(***************************************************************************)
LEMMA CountBounds ==
    ASSUME NEW S, S \subseteq Deck
    PROVE  /\ Cardinality(Hearts \cap S) \in 0 .. MaxOneColorSize
           /\ Cardinality(Queens \cap S) \in 0 .. MaxOneFigureSize
           /\ Cardinality(Misters \cap S) \in 0 .. 2 * MaxOneFigureSize
           /\ Cardinality(KingOfHearts \cap S) \in 0 .. 1
PROOF
<1>1. ASSUME NEW kind, kind \subseteq Deck
      PROVE  /\ Cardinality(kind \cap S) \in Nat
             /\ Cardinality(kind \cap S) <= Cardinality(kind)
  <2>1. IsFiniteSet(kind) /\ IsFiniteSet(kind \cap S)
    BY <1>1, DeckAssumption, FS_Subset
  <2>2. QED
    BY <2>1, FS_Subset, FS_CardinalityType
<1>2. QED
  BY <1>1, DeckFacts

(***************************************************************************)
(* There are so many tricks, and two that count ten; the last one only     *)
(* when all are finished.                                                  *)
(***************************************************************************)
LEMMA LewaBounds ==
    ASSUME NEW n \in 0 .. MaxNbrOfLewas, NEW ids, ids \subseteq 1 .. n
    PROVE  /\ IsFiniteSet(ids) /\ Cardinality(ids) \in 0 .. n
           /\ Cardinality({SeventhLewa, MaxNbrOfLewas} \cap ids)
                \in 0 .. (IF n = MaxNbrOfLewas THEN 2 ELSE 1)
PROOF
<1> DEFINE special == {SeventhLewa, MaxNbrOfLewas}
<1>1. n \in Nat /\ MaxNbrOfLewas \in Nat /\ SeventhLewa \in Nat
  BY SizesAssumption, DeckAssumption DEF Lewas
<1>2. IsFiniteSet(1 .. n) /\ Cardinality(1 .. n) = n
  BY <1>1, FS_Interval
<1>3. IsFiniteSet(ids) /\ Cardinality(ids) \in 0 .. n
  <2>1. IsFiniteSet(ids) /\ Cardinality(ids) <= Cardinality(1 .. n)
    BY <1>2, FS_Subset
  <2>2. Cardinality(ids) \in Nat
    BY <2>1, FS_CardinalityType
  <2>3. QED
    BY <1>1, <1>2, <2>1, <2>2
<1>4. /\ IsFiniteSet(special) /\ Cardinality(special) = 2
      /\ IsFiniteSet({SeventhLewa}) /\ Cardinality({SeventhLewa}) = 1
  <2>1. IsFiniteSet({SeventhLewa}) /\ Cardinality({SeventhLewa}) = 1
    BY FS_Singleton
  <2>2. MaxNbrOfLewas \notin {SeventhLewa} /\ special = {SeventhLewa} \cup {MaxNbrOfLewas}
    BY DeckAssumption
  <2>3. QED
    BY <2>1, <2>2, FS_AddElement
<1>5. IsFiniteSet(special \cap ids) /\ Cardinality(special \cap ids) \in Nat
  BY <1>3, FS_Intersection, FS_CardinalityType
<1>6. Cardinality(special \cap ids) <= 2
  BY <1>4, FS_Subset
<1>7. n # MaxNbrOfLewas => Cardinality(special \cap ids) <= 1
  <2> SUFFICES ASSUME n # MaxNbrOfLewas PROVE Cardinality(special \cap ids) <= 1
    OBVIOUS
  <2>1. special \cap ids \subseteq {SeventhLewa}
    BY <1>1
  <2>2. QED
    BY <1>4, <2>1, FS_Subset
<1>8. QED
  BY <1>3, <1>5, <1>6, <1>7

(***************************************************************************)
(* The types hold, and the points of a seat fit the uint8_t of             *)
(* Player::curr_game_points: no round gives out more than there is.        *)
(***************************************************************************)
LEMMA RoundTypes == RoundInv => TypeOK
PROOF
<1> SUFFICES ASSUME RoundInv PROVE TypeOK
  OBVIOUS
<1>1. CardTypes /\ InTurn /\ LaidOnce /\ Priced
  BY DEF RoundInv, CardInv
<1>2. ASSUME NEW p \in Players PROVE curr_game_points[p] \in 0 .. 254
  <2>1. CardsTakenBy(p) \subseteq Deck
    BY <1>1, LaidInDeck DEF CardsTakenBy, TakenBy
  <2>2. Len(lewas_played) \in 0 .. MaxNbrOfLewas /\ TakenBy(p) \subseteq 1 .. Len(lewas_played)
    BY <1>1, SizesAssumption DEF CardTypes, LaidOnce, TakenBy
  <2> DEFINE h == Cardinality(Hearts \cap CardsTakenBy(p))
             q == Cardinality(Queens \cap CardsTakenBy(p))
             m == Cardinality(Misters \cap CardsTakenBy(p))
             g == Cardinality(KingOfHearts \cap CardsTakenBy(p))
             n == Cardinality(TakenBy(p))
             s == Cardinality({SeventhLewa, MaxNbrOfLewas} \cap TakenBy(p))
             a1 == Cost(GameType \in {NO_HEART, BANDIT}, h)
             a2 == Cost(GameType \in {NO_QUEEN, BANDIT}, 5 * q)
             a3 == Cost(GameType \in {NO_MISTER, BANDIT}, 2 * m)
             a4 == Cost(GameType \in {NO_KING_HEART, BANDIT}, 18 * g)
             a5 == Cost(GameType \in {NO_LEWA, BANDIT}, n)
             a6 == Cost(GameType \in {NO_SEVEN_AND_LAST, BANDIT}, 10 * s)
  <2>3. /\ h \in Nat /\ h <= MaxOneColorSize /\ q \in Nat /\ q <= MaxOneFigureSize
        /\ m \in Nat /\ m <= 2 * MaxOneFigureSize /\ g \in Nat /\ g <= 1
        /\ MaxOneColorSize \in Nat /\ MaxOneFigureSize \in Nat
    <3>1. /\ h \in 0 .. MaxOneColorSize /\ q \in 0 .. MaxOneFigureSize
          /\ m \in 0 .. 2 * MaxOneFigureSize /\ g \in 0 .. 1
      BY <2>1, CountBounds
    <3>2. MaxOneColorSize \in Nat /\ MaxOneFigureSize \in Nat
      BY DeckFacts
    <3> HIDE DEF h, q, m, g
    <3>3. QED
      BY <3>1, <3>2
  <2>4. n \in Nat /\ n <= MaxNbrOfLewas /\ s \in Nat /\ s <= 2 /\ MaxNbrOfLewas \in Nat
    <3> DEFINE len == Len(lewas_played)
    <3>1. len \in 0 .. MaxNbrOfLewas /\ TakenBy(p) \subseteq 1 .. len
      BY <2>2
    <3> HIDE DEF len
    <3>2. n \in 0 .. len /\ s \in 0 .. (IF len = MaxNbrOfLewas THEN 2 ELSE 1)
      BY <3>1, LewaBounds
    <3> HIDE DEF n, s
    <3>3. QED
      BY <3>1, <3>2, SizesAssumption
  <2>5. curr_game_points[p] = (a5 + a6) + (a1 + a2 + a3 + a4)
    BY <1>1 DEF Priced, Price, PriceOfLewas, PriceOfCards
  <2> HIDE DEF h, q, m, g, n, s
  <2>6. /\ a1 \in 0 .. MaxOneColorSize /\ a2 \in 0 .. 5 * MaxOneFigureSize
        /\ a3 \in 0 .. 2 * (2 * MaxOneFigureSize) /\ a4 \in 0 .. 18
    BY <2>3 DEF Cost
  <2>7. a5 \in 0 .. MaxNbrOfLewas /\ a6 \in 0 .. 10 * 2
    BY <2>4 DEF Cost
  <2> HIDE DEF a1, a2, a3, a4, a5, a6
  <2>8. QED
    BY <2>3, <2>4, <2>5, <2>6, <2>7, PointsAssumption
<1>3. curr_game_points \in [Players -> 0 .. 254]
  BY <1>1, <1>2 DEF CardTypes
<1>4. QED
  BY <1>1, <1>3 DEF TypeOK, CardTypes, InTurn, LaidOnce

(***************************************************************************)
(* TypeOK holds in every state (Player::curr_game_points, PointCounter).   *)
(***************************************************************************)
THEOREM PointsFit == Spec => []TypeOK
PROOF
  BY RoundInvariance, RoundTypes, PTL

-----------------------------------------------------------------------------
(* The client.                                                             *)

(***************************************************************************)
(* A finished trick has one card of each hand, which set_card_played finds.*)
(***************************************************************************)
LEMMA TrickMarks ==
    ASSUME rounds \in Games, CardTypes, InTurn,
           NEW p \in Players, NEW i \in DOMAIN lewas_played
    PROVE  SetCardPlayed(PlayerCards(p), lewas_played[i].cards)
             = PlayerCards(p) \cap In(lewas_played[i].cards)
PROOF
<1> DEFINE lewa == lewas_played[i].cards
           leader == lewas_played[i].leader
           mine == {k \in DOMAIN lewa : lewa[k] \in PlayerCards(p)}
<1>1. /\ lewa \in Seq(Deck) /\ leader \in Players
      /\ Len(lewa) = NumPlayers /\ FromHands(leader, lewa)
  BY LaidInDeck DEF InTurn
<1>2. PICK l \in 1 .. NumPlayers : p = SeatAt(leader, l)
  BY <1>1, EverySeat
<1>3. DOMAIN lewa = 1 .. NumPlayers
  BY <1>1
<1>4. lewa[l] \in PlayerCards(p)
  BY <1>1, <1>2, <1>3 DEF FromHands
<1>5. ASSUME NEW k \in DOMAIN lewa, lewa[k] \in PlayerCards(p) PROVE k = l
  <2>1. lewa[k] \in PlayerCards(SeatAt(leader, k)) /\ SeatAt(leader, k) \in Players
    BY <1>1, <1>3, SeatWraps DEF FromHands
  <2>2. SeatAt(leader, k) = p
    BY <1>5, <2>1, HandsDealt DEF CardTypes
  <2>3. QED
    BY <1>1, <1>2, <1>3, <2>2, SeatsDiffer
<1>6. mine = {l}
  BY <1>3, <1>4, <1>5
<1>7. PlayerCards(p) \cap In(lewa) = {lewa[l]}
  BY <1>3, <1>4, <1>5 DEF In
<1>8. Min({l}) = l
  BY DEF Min
<1> HIDE DEF lewa, leader
<1>9. SetCardPlayed(PlayerCards(p), lewa) = {lewa[Min({l})]}
  BY <1>6 DEF SetCardPlayed
<1>10. QED
  BY <1>7, <1>8, <1>9 DEF lewa

(***************************************************************************)
(* A client that takes a seat now knows what its seat laid in the finished *)
(* tricks.                                                                 *)
(***************************************************************************)
LEMMA ClientKnows ==
    ASSUME rounds \in Games, CardInv, NEW p \in Players
    PROVE  /\ ClientMarked(p) = PlayerCards(p) \cap Laid
           /\ ClientMarked(p) = was_card_played[p] \ In(curr_lewa)
PROOF
<1>0. CardTypes /\ InTurn /\ LaidOnce /\ Marked
  BY DEF CardInv
<1>1. \A i \in DOMAIN lewas_played : SetCardPlayed(PlayerCards(p), lewas_played[i].cards)
                                       = PlayerCards(p) \cap In(lewas_played[i].cards)
  BY <1>0, TrickMarks
<1>2. ClientMarked(p) = UNION {PlayerCards(p) \cap In(lewas_played[i].cards)
                                 : i \in DOMAIN lewas_played}
  BY <1>1 DEF ClientMarked
<1>3. ClientMarked(p) = PlayerCards(p) \cap Laid
  BY <1>2 DEF Laid
<1>4. was_card_played[p] = PlayerCards(p) \cap (Laid \cup In(curr_lewa))
  BY <1>0 DEF Marked
<1>5. QED
  BY <1>0, <1>3, <1>4 DEF LaidOnce

(***************************************************************************)
(* A replacement's DEAL and TAKENs tell it the server's copy of the hand,  *)
(* but for the card on the table (send_msg_DEAL, set_card_played).         *)
(***************************************************************************)
THEOREM ReplacementKnows == Spec => []ReplacementKnowsHand
PROOF
<1>1. RoundInv => ReplacementKnowsHand
  <2>1. {curr_lewa[k] : k \in DOMAIN curr_lewa} = In(curr_lewa)
    BY DEF In
  <2>2. QED
    BY <2>1, ClientKnows DEF RoundInv, ReplacementKnowsHand
<1>2. QED
  BY <1>1, RoundInvariance, PTL

(***************************************************************************)
(* Whoever has to answer TRICK has a card left, and play_card chooses one  *)
(* that check_card_correctness accepts.                                    *)
(***************************************************************************)
LEMMA AnswerAccepted ==
    ASSUME rounds \in Games, CardInv, ~ HasGameEnded, Len(curr_lewa) < NumPlayers
    PROVE  LET left == PlayerCards(WhoseTurn) \ ClientMarked(WhoseTurn)
               suit == IF curr_lewa = << >> THEN NONE_SUIT ELSE curr_lewa[1].suit
           IN left # {} /\ CheckCardCorrectness(WhoseTurn, AutoCard(left, suit))
PROOF
<1> DEFINE p == WhoseTurn
           left == PlayerCards(p) \ ClientMarked(p)
           suit == IF curr_lewa = << >> THEN NONE_SUIT ELSE curr_lewa[1].suit
           new == Len(curr_lewa) + 1
<1>0. CardTypes /\ InTurn /\ LaidOnce /\ Marked
  BY DEF CardInv
<1>1. /\ curr_lewa \in Seq(Deck) /\ Len(curr_lewa) \in Nat /\ first_player \in Players
      /\ DOMAIN curr_lewa = 1 .. Len(curr_lewa) /\ new \in 1 .. NumPlayers
      /\ first_player \in Int
  BY <1>0, SizesAssumption DEF CardTypes, Players
<1>2. p = SeatAt(first_player, new) /\ p \in Players
  <2>1. first_player + new - 1 = first_player + Len(curr_lewa)
    BY <1>1
  <2>2. p = SeatAt(first_player, new)
    BY <2>1 DEF WhoseTurn, SeatAt
  <2>3. QED
    BY <1>1, <2>2, SeatWraps
<1> HIDE DEF p
<1>3. ~ HasLaid(p) /\ PlayerCards(p) \cap In(curr_lewa) = {}
  <2>1. ASSUME NEW k \in DOMAIN curr_lewa
        PROVE  p # SeatAt(first_player, k) /\ SeatAt(first_player, k) \in Players
    <3>1. k \in 1 .. NumPlayers /\ k # new
      BY <1>1, SizesAssumption
    <3>2. QED
      BY <1>1, <1>2, <3>1, SeatsDiffer, SeatWraps
  <2>2. ~ HasLaid(p)
    BY <2>1 DEF HasLaid
  <2>3. \A k \in DOMAIN curr_lewa : curr_lewa[k] \in PlayerCards(SeatAt(first_player, k))
    BY <1>0 DEF InTurn, FromHands
  <2>4. \A k \in DOMAIN curr_lewa : curr_lewa[k] \notin PlayerCards(p)
    BY <1>0, <1>2, <2>1, <2>3, HandsDealt DEF CardTypes
  <2>5. QED
    BY <2>2, <2>4 DEF In
<1>4. ClientMarked(p) = was_card_played[p]
  <2>1. was_card_played[p] = PlayerCards(p) \cap (Laid \cup In(curr_lewa))
    BY <1>0, <1>2 DEF Marked
  <2>2. QED
    BY <1>2, <1>3, <2>1, ClientKnows
<1>5. left # {}
  <2>1. Cardinality(was_card_played[p]) = Len(lewas_played)
    <3>1. Cardinality(was_card_played[p]) = Len(lewas_played) + 0
      BY <1>0, <1>2, <1>3 DEF Marked
    <3>2. Len(lewas_played) \in Nat
      BY <1>0 DEF CardTypes
    <3>3. QED
      BY <3>1, <3>2
  <2>2. Len(lewas_played) # MaxNbrOfLewas
    BY AllLaid
  <2>3. Cardinality(PlayerCards(p)) = MaxNbrOfLewas
    BY <1>0, <1>2, HandsDealt DEF CardTypes
  <2>4. was_card_played[p] # PlayerCards(p)
    BY <2>1, <2>2, <2>3
  <2>5. was_card_played[p] \subseteq PlayerCards(p)
    BY <1>0, <1>2 DEF Marked
  <2>6. QED
    BY <1>4, <2>4, <2>5
<1>6. left \subseteq Deck /\ Deck \subseteq [suit : Nat \ {NONE_SUIT}, value : Nat]
  BY <1>0, <1>2, HandsDealt, DeckAssumption DEF CardTypes
<1>7. left \subseteq [suit : Nat, value : Nat]
  BY <1>6
<1> DEFINE card == AutoCard(left, suit)
<1>8. CardCorrect(left, card, IF suit = NONE_SUIT THEN card.suit ELSE suit)
  <2> HIDE DEF left, suit
  <2>1. QED
    BY <1>5, <1>7, AutoCardCorrect
<1>9. curr_lewa # << >> => curr_lewa[1].suit # NONE_SUIT
  <2> SUFFICES ASSUME curr_lewa # << >> PROVE curr_lewa[1].suit # NONE_SUIT
    OBVIOUS
  <2>1. curr_lewa[1] \in Deck
    BY <1>1
  <2>2. QED
    BY <1>6, <2>1
<1>10. (IF suit = NONE_SUIT THEN card.suit ELSE suit)
         = IF curr_lewa = << >> THEN card.suit ELSE curr_lewa[1].suit
  <2> HIDE DEF card
  <2>1. QED
    BY <1>9
<1> HIDE DEF card
<1>11. CheckCardCorrectness(p, card)
  BY <1>4, <1>8, <1>10 DEF CheckCardCorrectness
<1>12. QED
  BY <1>5, <1>11 DEF p, card

(***************************************************************************)
(* The automatic client is never without an answer, nor refused one.       *)
(***************************************************************************)
THEOREM AutoPlayRight == Spec => []AutoPlayAccepted
PROOF
<1>1. RoundInv => AutoPlayAccepted
  BY AnswerAccepted DEF RoundInv, AutoPlayAccepted
<1>2. QED
  BY <1>1, RoundInvariance, PTL

-----------------------------------------------------------------------------
(* The end of a round.                                                     *)

(***************************************************************************)
(* The tricks taken by the seats below the n-th, and their cards.          *)
(***************************************************************************)
TakenBelow(n) == {i \in DOMAIN lewas_played : lewas_played[i].taker < n}
CardsBelow(n) == UNION {In(lewas_played[i].cards) : i \in TakenBelow(n)}
PriceBelow(n) == PriceOfLewas(TakenBelow(n)) + PriceOfCards(CardsBelow(n))

(***************************************************************************)
(* The next seat adds its points.                                          *)
(***************************************************************************)
LEMMA SeatAdds ==
    ASSUME RoundInv, NEW p \in Players
    PROVE  PriceBelow(p + 1) = PriceBelow(p) + curr_game_points[p]
PROOF
<1>1. CardTypes /\ LaidOnce /\ curr_game_points[p] = Price(p)
  BY DEF RoundInv, CardInv, Priced
<1>2. /\ DOMAIN lewas_played = 1 .. Len(lewas_played) /\ Len(lewas_played) \in Nat
      /\ p \in Int
      /\ \A i \in DOMAIN lewas_played : lewas_played[i].taker \in Int
  <2>1. Players \subseteq Int
    BY SizesAssumption DEF Players
  <2>2. \A i \in DOMAIN lewas_played : lewas_played[i].taker \in Int
    BY <1>1, <2>1, LaidInDeck
  <2>3. DOMAIN lewas_played = 1 .. Len(lewas_played) /\ Len(lewas_played) \in Nat
    BY <1>1 DEF CardTypes
  <2>4. QED
    BY <2>1, <2>2, <2>3
<1>3. /\ TakenBelow(p + 1) = TakenBelow(p) \cup TakenBy(p)
      /\ TakenBelow(p) \cap TakenBy(p) = {}
  BY <1>2 DEF TakenBelow, TakenBy
<1>4. CardsBelow(p + 1) = CardsBelow(p) \cup CardsTakenBy(p)
  BY <1>3 DEF CardsBelow, CardsTakenBy
<1>5. CardsBelow(p) \cap CardsTakenBy(p) = {}
  <2> SUFFICES ASSUME NEW c \in CardsBelow(p), c \in CardsTakenBy(p) PROVE FALSE
    OBVIOUS
  <2>1. PICK i \in TakenBelow(p) : c \in In(lewas_played[i].cards)
    BY DEF CardsBelow
  <2>2. PICK j \in TakenBy(p) : c \in In(lewas_played[j].cards)
    BY DEF CardsTakenBy
  <2>3. i \in DOMAIN lewas_played /\ j \in DOMAIN lewas_played /\ i # j
    BY <1>3 DEF TakenBelow, TakenBy
  <2>4. QED
    BY <1>1, <2>1, <2>2, <2>3 DEF LaidOnce
<1>6. CardsBelow(p) \in SUBSET Deck /\ CardsTakenBy(p) \in SUBSET Deck
  BY <1>1, LaidInDeck DEF CardsBelow, CardsTakenBy, TakenBelow, TakenBy
<1>7. IsFiniteSet(TakenBelow(p)) /\ IsFiniteSet(TakenBy(p))
  <2>1. IsFiniteSet(1 .. Len(lewas_played))
    BY <1>2, FS_Interval
  <2>2. TakenBelow(p) \subseteq 1 .. Len(lewas_played) /\ TakenBy(p) \subseteq 1 .. Len(lewas_played)
    BY <1>2 DEF TakenBelow, TakenBy
  <2>3. QED
    BY <2>1, <2>2, FS_Subset
<1>8. /\ PriceOfCards(CardsBelow(p + 1)) = PriceOfCards(CardsBelow(p)) + PriceOfCards(CardsTakenBy(p))
      /\ PriceOfCards(CardsBelow(p)) \in Nat /\ PriceOfCards(CardsTakenBy(p)) \in Nat
  BY <1>4, <1>5, <1>6, PricesAdd
<1>9. /\ PriceOfLewas(TakenBelow(p + 1)) = PriceOfLewas(TakenBelow(p)) + PriceOfLewas(TakenBy(p))
      /\ PriceOfLewas(TakenBelow(p)) \in Nat /\ PriceOfLewas(TakenBy(p)) \in Nat
  BY <1>3, <1>7, LewaPricesAdd
<1>10. QED
  BY <1>1, <1>8, <1>9 DEF PriceBelow, Price

(***************************************************************************)
(* All the points given out so far: the price of what has been laid.       *)
(***************************************************************************)
LEMMA AllGiven ==
    ASSUME RoundInv
    PROVE  LET given[p \in 0 .. NumPlayers] ==
                 IF p = 0 THEN 0 ELSE given[p - 1] + curr_game_points[p - 1]
           IN  given[NumPlayers] = PriceOfLewas(1 .. Len(lewas_played)) + PriceOfCards(Laid)
PROOF
<1> DEFINE Pass(f) == f = [p \in 0 .. NumPlayers |->
                             IF p = 0 THEN 0 ELSE f[p - 1] + curr_game_points[p - 1]]
           given == CHOOSE f : Pass(f)
           sum == [p \in 0 .. NumPlayers |-> PriceBelow(p)]
<1>1. NumPlayers \in Nat /\ Players = 0 .. NumPlayers - 1
  BY SizesAssumption DEF Players
<1>2. /\ DOMAIN lewas_played = 1 .. Len(lewas_played)
      /\ \A i \in DOMAIN lewas_played : lewas_played[i].taker \in 0 .. NumPlayers - 1
  BY <1>1, LaidInDeck DEF RoundInv, CardInv, CardTypes
<1>3. PriceBelow(0) = 0
  <2>1. TakenBelow(0) = {}
    BY <1>1, <1>2 DEF TakenBelow
  <2>2. CardsBelow(0) = {}
    BY <2>1 DEF CardsBelow
  <2>3. QED
    BY <2>1, <2>2, PricesOfNone DEF PriceBelow
<1>4. \A p \in 1 .. NumPlayers : PriceBelow(p) = PriceBelow(p - 1) + curr_game_points[p - 1]
  <2> SUFFICES ASSUME NEW p \in 1 .. NumPlayers
               PROVE  PriceBelow(p) = PriceBelow(p - 1) + curr_game_points[p - 1]
    OBVIOUS
  <2>1. p - 1 \in Players /\ (p - 1) + 1 = p
    BY <1>1
  <2>2. PriceBelow((p - 1) + 1) = PriceBelow(p - 1) + curr_game_points[p - 1]
    BY <2>1, SeatAdds
  <2>3. QED
    BY <2>1, <2>2
<1>5. Pass(sum)
  <2>1. \A p \in 0 .. NumPlayers : sum[p] =
          IF p = 0 THEN 0 ELSE sum[p - 1] + curr_game_points[p - 1]
    <3> SUFFICES ASSUME NEW p \in 0 .. NumPlayers
                 PROVE  sum[p] = IF p = 0 THEN 0 ELSE sum[p - 1] + curr_game_points[p - 1]
      OBVIOUS
    <3>1. CASE p = 0
      BY <1>3, <3>1
    <3>2. CASE p # 0
      <4>1. p \in 1 .. NumPlayers /\ p - 1 \in 0 .. NumPlayers
        BY <1>1, <3>2
      <4>2. QED
        BY <1>4, <3>2, <4>1
    <3>3. QED
      BY <3>1, <3>2
  <2>2. QED
    BY <2>1
<1>6. Pass(given)
  <2> HIDE DEF Pass, sum
  <2>1. QED
    BY <1>5
<1>7. /\ given[0] = 0
      /\ \A p \in 1 .. NumPlayers : given[p] = given[p - 1] + curr_game_points[p - 1]
  <2> HIDE DEF given
  <2>1. QED
    BY <1>1, <1>6
<1> DEFINE same == {p \in 0 .. NumPlayers : given[p] = PriceBelow(p)}
<1> HIDE DEF given
<1>8. 0 \in same
  BY <1>1, <1>3, <1>7
<1>9. ASSUME NEW p \in 0 .. NumPlayers - 1, p \in same PROVE p + 1 \in same
  <2>1. p + 1 \in 1 .. NumPlayers /\ p + 1 \in 0 .. NumPlayers /\ (p + 1) - 1 = p
    BY <1>1
  <2>2. given[p] = PriceBelow(p)
    BY <1>9
  <2>3. given[p + 1] = PriceBelow(p + 1)
    BY <1>4, <1>7, <2>1, <2>2
  <2>4. QED
    BY <2>1, <2>3
<1> HIDE DEF same
<1>10. 0 .. NumPlayers \subseteq same
  BY <1>1, <1>8, <1>9, UpTo
<1>11. given[NumPlayers] = PriceBelow(NumPlayers)
  BY <1>1, <1>10 DEF same
<1>12. PriceBelow(NumPlayers) = PriceOfLewas(1 .. Len(lewas_played)) + PriceOfCards(Laid)
  <2>1. TakenBelow(NumPlayers) = DOMAIN lewas_played
    BY <1>1, <1>2 DEF TakenBelow
  <2>2. CardsBelow(NumPlayers) = Laid
    BY <2>1 DEF CardsBelow, Laid
  <2>3. QED
    BY <1>2, <2>1, <2>2 DEF PriceBelow
<1>13. QED
  BY <1>11, <1>12 DEF given

(***************************************************************************)
(* The card counter's verdict and the points agree, kind by kind.          *)
(***************************************************************************)
LEMMA OverWhenGiven ==
    ASSUME RoundInv
    PROVE  HasGameEnded <=> PriceOfLewas(1 .. Len(lewas_played)) + PriceOfCards(Laid)
                              = PriceOfCards(Deck) + PriceOfLewas(Lewas)
PROOF
<1> DEFINE len == Len(lewas_played)
           h == Cardinality(Hearts \cap Laid)
           q == Cardinality(Queens \cap Laid)
           m == Cardinality(Misters \cap Laid)
           g == Cardinality(KingOfHearts \cap Laid)
           s == Cardinality({SeventhLewa, MaxNbrOfLewas} \cap (1 .. len))
<1>0. Cardinality({SeventhLewa, MaxNbrOfLewas} \cap Lewas) = 2
  <2>1. /\ {SeventhLewa, MaxNbrOfLewas} \cap Lewas = {SeventhLewa} \cup {MaxNbrOfLewas}
        /\ MaxNbrOfLewas \notin {SeventhLewa}
    BY SizesAssumption, DeckAssumption DEF Lewas
  <2>2. IsFiniteSet({SeventhLewa}) /\ Cardinality({SeventhLewa}) = 1
    BY FS_Singleton
  <2>3. Cardinality({SeventhLewa} \cup {MaxNbrOfLewas}) = 2
    BY <2>1, <2>2, FS_AddElement
  <2>4. QED
    BY <2>1, <2>3
<1>1. /\ rounds \in Games /\ CardInv /\ CardTypes /\ LaidOnce /\ Counted /\ Laid \subseteq Deck
  BY LaidInDeck DEF RoundInv, CardInv
<1>2. /\ h \in 0 .. MaxOneColorSize /\ q \in 0 .. MaxOneFigureSize
      /\ m \in 0 .. 2 * MaxOneFigureSize /\ g \in 0 .. 1
  BY <1>1, CountBounds
<1>3. /\ MaxOneColorSize \in Nat /\ MaxOneFigureSize \in Nat /\ MaxNbrOfLewas \in Nat
      /\ len \in 0 .. MaxNbrOfLewas
  BY <1>1, DeckFacts, SizesAssumption DEF CardTypes, LaidOnce
<1>4. s \in 0 .. (IF len = MaxNbrOfLewas THEN 2 ELSE 1)
  <2> HIDE DEF len
  <2>1. QED
    BY <1>3, LewaBounds
<1>5. len = MaxNbrOfLewas => s = 2
  <2>1. len = MaxNbrOfLewas => 1 .. len = Lewas
    BY DEF Lewas
  <2>2. QED
    BY <1>0, <2>1
<1>6. Cardinality(1 .. len) = len /\ Cardinality(Lewas) = MaxNbrOfLewas
  <2>1. \A n \in Nat : Cardinality(1 .. n) = n
    BY FS_Interval
  <2>2. QED
    BY <1>3, <2>1 DEF Lewas
<1>7. len = MaxNbrOfLewas =>
        /\ h = MaxOneColorSize /\ q = MaxOneFigureSize
        /\ m = 2 * MaxOneFigureSize /\ g = 1
  <2> SUFFICES ASSUME len = MaxNbrOfLewas
               PROVE  /\ h = MaxOneColorSize /\ q = MaxOneFigureSize
                      /\ m = 2 * MaxOneFigureSize /\ g = 1
    OBVIOUS
  <2>1. Laid = Deck
    BY <1>1, AllLaid
  <2>2. /\ Hearts \cap Laid = Hearts /\ Queens \cap Laid = Queens
        /\ Misters \cap Laid = Misters /\ KingOfHearts \cap Laid = KingOfHearts
    BY <2>1, DeckFacts
  <2>3. QED
    BY <2>2, DeckFacts
<1>8. KingOfHearts \cap Laid # {} <=> g = 1
  <2>1. IsFiniteSet(KingOfHearts \cap Laid)
    BY DeckFacts, FS_Subset
  <2>2. g = 0 <=> KingOfHearts \cap Laid = {}
    BY <2>1, FS_EmptySet
  <2>3. QED
    BY <1>2, <2>2
<1>9. HasGameEnded <=>
        \/ GameType \in {NO_LEWA, BANDIT} /\ len = MaxNbrOfLewas
        \/ GameType = NO_HEART /\ h = MaxOneColorSize
        \/ GameType = NO_QUEEN /\ q = MaxOneFigureSize
        \/ GameType = NO_MISTER /\ m = 2 * MaxOneFigureSize
        \/ GameType = NO_KING_HEART /\ g = 1
        \/ GameType = NO_SEVEN_AND_LAST /\ len = MaxNbrOfLewas
  <2>1. /\ card_counter.lewas = len /\ card_counter.hearts = h
        /\ card_counter.queens = q /\ card_counter.misters = m
        /\ card_counter.king_of_hearts = (KingOfHearts \cap Laid # {})
        /\ card_counter.seven_and_last = (len = MaxNbrOfLewas)
    BY <1>1 DEF Counted
  <2> HIDE DEF len, h, q, m, g
  <2>2. card_counter.king_of_hearts <=> g = 1
    BY <1>8, <2>1
  <2>3. card_counter.seven_and_last <=> len = MaxNbrOfLewas
    BY <2>1
  <2>4. QED
    BY <2>1, <2>2, <2>3 DEF HasGameEnded
<1>10. PriceOfLewas(1 .. len) + PriceOfCards(Laid) =
           (Cost(GameType \in {NO_LEWA, BANDIT}, len)
          + Cost(GameType \in {NO_SEVEN_AND_LAST, BANDIT}, 10 * s))
         + (Cost(GameType \in {NO_HEART, BANDIT}, h)
          + Cost(GameType \in {NO_QUEEN, BANDIT}, 5 * q)
          + Cost(GameType \in {NO_MISTER, BANDIT}, 2 * m)
          + Cost(GameType \in {NO_KING_HEART, BANDIT}, 18 * g))
  BY <1>6 DEF PriceOfLewas, PriceOfCards
<1>11. PriceOfCards(Deck) + PriceOfLewas(Lewas) =
           (Cost(GameType \in {NO_HEART, BANDIT}, MaxOneColorSize)
          + Cost(GameType \in {NO_QUEEN, BANDIT}, 5 * MaxOneFigureSize)
          + Cost(GameType \in {NO_MISTER, BANDIT}, 2 * (2 * MaxOneFigureSize))
          + Cost(GameType \in {NO_KING_HEART, BANDIT}, 18 * 1))
         + (Cost(GameType \in {NO_LEWA, BANDIT}, MaxNbrOfLewas)
          + Cost(GameType \in {NO_SEVEN_AND_LAST, BANDIT}, 10 * 2))
  <2>1. /\ Hearts \cap Deck = Hearts /\ Queens \cap Deck = Queens
        /\ Misters \cap Deck = Misters /\ KingOfHearts \cap Deck = KingOfHearts
    BY DeckFacts
  <2>2. /\ Cardinality(Hearts \cap Deck) = MaxOneColorSize
        /\ Cardinality(Queens \cap Deck) = MaxOneFigureSize
        /\ Cardinality(Misters \cap Deck) = 2 * MaxOneFigureSize
        /\ Cardinality(KingOfHearts \cap Deck) = 1
    BY <2>1, DeckFacts
  <2>3. QED
    BY <1>0, <1>6, <2>2 DEF PriceOfLewas, PriceOfCards
<1>12. GameType \in GameTypes
  BY <1>1, HandsDealt DEF CardTypes
<1> DEFINE given == PriceOfLewas(1 .. len) + PriceOfCards(Laid)
           all == PriceOfCards(Deck) + PriceOfLewas(Lewas)
<1> HIDE DEF len, h, q, m, g, s, given, all
<1>13. HasGameEnded <=> given = all
  <2>1. /\ given = (Cost(GameType \in {NO_LEWA, BANDIT}, len)
                  + Cost(GameType \in {NO_SEVEN_AND_LAST, BANDIT}, 10 * s))
                 + (Cost(GameType \in {NO_HEART, BANDIT}, h)
                  + Cost(GameType \in {NO_QUEEN, BANDIT}, 5 * q)
                  + Cost(GameType \in {NO_MISTER, BANDIT}, 2 * m)
                  + Cost(GameType \in {NO_KING_HEART, BANDIT}, 18 * g))
        /\ all = (Cost(GameType \in {NO_HEART, BANDIT}, MaxOneColorSize)
                + Cost(GameType \in {NO_QUEEN, BANDIT}, 5 * MaxOneFigureSize)
                + Cost(GameType \in {NO_MISTER, BANDIT}, 2 * (2 * MaxOneFigureSize))
                + Cost(GameType \in {NO_KING_HEART, BANDIT}, 18 * 1))
               + (Cost(GameType \in {NO_LEWA, BANDIT}, MaxNbrOfLewas)
                + Cost(GameType \in {NO_SEVEN_AND_LAST, BANDIT}, 10 * 2))
    BY <1>10, <1>11 DEF given, all
  <2> USE DEF Cost, NO_LEWA, NO_HEART, NO_QUEEN, NO_MISTER, NO_KING_HEART,
              NO_SEVEN_AND_LAST, BANDIT
  <2>2. CASE GameType = NO_LEWA
    BY <1>3, <1>9, <2>1, <2>2
  <2>3. CASE GameType = NO_HEART
    BY <1>2, <1>3, <1>9, <2>1, <2>3
  <2>4. CASE GameType = NO_QUEEN
    BY <1>2, <1>3, <1>9, <2>1, <2>4
  <2>5. CASE GameType = NO_MISTER
    BY <1>2, <1>3, <1>9, <2>1, <2>5
  <2>6. CASE GameType = NO_KING_HEART
    BY <1>2, <1>9, <2>1, <2>6
  <2>7. CASE GameType = NO_SEVEN_AND_LAST
    BY <1>3, <1>4, <1>5, <1>9, <2>1, <2>7
  <2>8. CASE GameType = BANDIT
    <3>1. HasGameEnded <=> len = MaxNbrOfLewas
      BY <1>9, <2>8
    <3>2. given = len + 10 * s + h + 5 * q + 2 * m + 18 * g
      BY <1>2, <1>3, <1>4, <2>1, <2>8
    <3>3. all = MaxOneColorSize + 5 * MaxOneFigureSize + 2 * (2 * MaxOneFigureSize)
                  + 18 + MaxNbrOfLewas + 20
      BY <1>3, <2>1, <2>8
    <3>4. CASE len = MaxNbrOfLewas
      BY <1>3, <1>5, <1>7, <3>1, <3>2, <3>3, <3>4
    <3>5. CASE len # MaxNbrOfLewas
      <4>1. len < MaxNbrOfLewas /\ s \in 0 .. 1
        BY <1>3, <1>4, <3>5
      <4>2. given < all
        BY <1>2, <1>3, <3>2, <3>3, <4>1
      <4>3. QED
        BY <3>1, <3>5, <1>2, <1>3, <3>2, <3>3, <4>1, <4>2
    <3>6. QED
      BY <3>4, <3>5
  <2>9. QED
    BY <1>12, <2>2, <2>3, <2>4, <2>5, <2>6, <2>7, <2>8 DEF GameTypes
<1>14. QED
  BY <1>13 DEF given, all, len

(***************************************************************************)
(* has_game_ended ends a round exactly when every point of its kind has    *)
(* been given out.                                                         *)
(***************************************************************************)
THEOREM RoundsEndRight == Spec => []RoundOverWhenDealtOut
PROOF
<1>1. RoundInv => RoundOverWhenDealtOut
  <2> SUFFICES ASSUME RoundInv PROVE RoundOverWhenDealtOut
    OBVIOUS
  <2>1. /\ MapThenSumSet(CostOfCard, Deck) = PriceOfCards(Deck)
        /\ MapThenSumSet(CostOfLewa, Lewas) = PriceOfLewas(Lewas)
    <3>1. IsFiniteSet(Lewas)
      BY SizesAssumption, FS_Interval DEF Lewas
    <3>2. QED
      BY <3>1, CardsPriced, LewasPriced
  <2>2. QED
    BY <2>1, AllGiven, OverWhenGiven DEF RoundOverWhenDealtOut
<1>2. QED
  BY <1>1, RoundInvariance, PTL
=============================================================================
