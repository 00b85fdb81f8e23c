------------------------------- MODULE MCWire -------------------------------
(***************************************************************************)
(* Wire for TLC: messages at the edges of their formats, two in a row      *)
(* (the second shows whether the first was read to its last character and  *)
(* no further), and things a client may send that are no messages.         *)
(***************************************************************************)
EXTENDS Wire

CLUBS == 67
DIAMONDS == 68
SPADES == 83

Of(value, suit) == [value |-> value, suit |-> suit]
Tens == <<Of(10, HEARTS), Of(10, DIAMONDS), Of(10, CLUBS), Of(10, SPADES)>>
Others == <<Of(2, HEARTS), Of(9, CLUBS), Of(A, SPADES), Of(J, DIAMONDS)>>
Mixed == <<Of(K, HEARTS), Of(10, SPADES), Of(Q, SPADES), Of(2, CLUBS)>>
Firsts(n) == {SubSeq(cards, 1, n) : cards \in {Tens, Others, Mixed}}

(* Thirteen hearts, and a hand with all the tens.                          *)
OneSuit == {Of(v, HEARTS) : v \in 2 .. A}
AllTens == {Tens[i] : i \in 1 .. 4} \cup {Of(v, SPADES) : v \in {2, 5, 6, 7, 8, 9, J, Q, A}}

MCReadersIds == {1, 9, 10, 13, 14}
Ids == {1, 4, 9, 10, 11, 13}

Scores(a, b, c, d) == 0 :> a @@ 1 :> b @@ 2 :> c @@ 3 :> d

Busy == {[name |-> "BUSY", seats |-> <<2>>], [name |-> "BUSY", seats |-> <<0, 1, 2, 3>>]}
Deals == {[name |-> "DEAL", type |-> 1, seat |-> 0, hand |-> OneSuit],
          [name |-> "DEAL", type |-> 7, seat |-> 3, hand |-> AllTens]}
Tricks == {[name |-> "TRICK", id |-> id, cards |-> cards] :
              id \in Ids, cards \in {<< >>} \cup Firsts(1) \cup Firsts(3)}
Wrongs == {[name |-> "WRONG", id |-> id] : id \in Ids}
Takens == {[name |-> "TAKEN", id |-> id, cards |-> cards, seat |-> 1] :
              id \in Ids, cards \in Firsts(4)}
Points == {[name |-> "SCORE", scores |-> Scores(0, 9, 10, 99)],
           [name |-> "SCORE", scores |-> Scores(100, 254, 199, 200)],
           [name |-> "SCORE", scores |-> Scores(0, 0, 0, 0)],
           [name |-> "TOTAL", scores |-> Scores(0, 0, 0, 0)],
           [name |-> "TOTAL", scores |-> Scores(2147483647, 1000000000, 255, 10)]}

Two(firsts, seconds) == {<<first, second>> : first \in firsts, second \in seconds}

(* One of each kind, to come second.                                       *)
Second == {d \in Deals : d.type = 7} \cup {p \in Points : p.scores[0] = 0}
            \cup {t \in Tricks : t.id \in {1, 10} /\ t.cards \in Firsts(3)}
            \cup {w \in Wrongs : w.id \in {9, 10}}
            \cup {t \in Takens : t.id \in {9, 13}}

MCToWaiting == {<<b>> : b \in Busy} \cup Two(Deals, Second)
MCToPlaying == Two(Deals \cup Tricks \cup Wrongs \cup Takens \cup Points, Second)

Iam == [name |-> "IAM", seat |-> 3]
Answers == {t \in Tricks : t.cards \in Firsts(1) /\ t.id # 4}

(* Parts of an answer, ends of lines, text without an end, five cards, and *)
(* WRONG, which is the server's to write.                                  *)
Noise == {[name |-> "OTHER", text |-> text] : text \in
            {<<84, 82, 73>>, <<57, 50, 72, CR, LF>>, NameChars.TRICK, EndChars,
             NameChars.TRICK \o <<49, CR>>, NameChars.TRICK \o <<LF, LF>> \o NameChars.TRICK,
             Packet("TRICK", <<57>> \o CardsChars(Others \o <<Of(3, CLUBS)>>)),
             Packet("TRICK", <<57, 49, 50, 72>>),
             Packet("WRONG", <<57>>)}}

(* Noise comes once: two pieces of it may well make an answer.             *)
MCToServer == {<<Iam, one, other>> : one \in Answers \cup Noise, other \in Answers}
                \cup {<<Iam, answer, noise>> : answer \in Answers, noise \in Noise}
                \cup Two({[name |-> "OTHER", text |-> NameChars.IAM \o text] :
                             text \in {<<88, CR, LF>>, <<87, 88, LF>>, <<CR, LF>>}},
                         {Iam})
=============================================================================
