--------------------------- MODULE MessagesProofs ---------------------------
(***************************************************************************)
(* What is written is what is read: for every message the server and the   *)
(* client can be asked to write, whatever its numbers and cards, the text  *)
(* fits the buffer of its reader, ends where the reader stops, and reads   *)
(* as the same message.                                                    *)
(***************************************************************************)
EXTENDS Messages, CardsProofs, FiniteSetTheorems, SequenceTheorems

-----------------------------------------------------------------------------
(* Joined sequences.                                                       *)

(***************************************************************************)
(* One sequence behind another; joined[i] is what the first i of the       *)
(* sequences make together.                                                *)
(***************************************************************************)
Behind(s, t) == s \o t

JoinedUp(seqs, S, joined) ==
    /\ joined \in [0 .. Len(seqs) -> Seq(S)]
    /\ joined[0] = << >>
    /\ \A i \in 1 .. Len(seqs) : joined[i] = Behind(joined[i - 1], seqs[i])

(***************************************************************************)
(* Sequences can be joined up one after the other.                         *)
(***************************************************************************)
LEMMA JoinExists ==
    ASSUME NEW S, NEW seqs \in Seq(Seq(S))
    PROVE  \E joined : JoinedUp(seqs, S, joined)
PROOF
<1> DEFINE Good(n, f) == /\ f \in [0 .. n -> Seq(S)]
                         /\ f[0] = << >>
                         /\ \A i \in 1 .. n : f[i] = Behind(f[i - 1], seqs[i])
           good == {n \in 0 .. Len(seqs) : \E f : Good(n, f)}
<1>1. Len(seqs) \in Nat /\ \A i \in 1 .. Len(seqs) : seqs[i] \in Seq(S)
  OBVIOUS
<1>2. 0 \in good
  <2>1. << >> \in Seq(S)
    OBVIOUS
  <2>2. Good(0, [i \in 0 .. 0 |-> << >>])
    BY <2>1
  <2> HIDE DEF Good
  <2>3. QED
    BY <1>1, <2>2
<1>3. ASSUME NEW n \in 0 .. Len(seqs) - 1, n \in good
      PROVE  n + 1 \in good
  <2>1. PICK f : Good(n, f)
    BY <1>3
  <2> DEFINE g == [i \in 0 .. n + 1 |-> IF i = n + 1 THEN Behind(f[n], seqs[n + 1]) ELSE f[i]]
  <2>2. n \in Nat /\ n + 1 \in 1 .. Len(seqs)
    BY <1>1
  <2>3. Behind(f[n], seqs[n + 1]) \in Seq(S)
    <3>1. f[n] \in Seq(S) /\ seqs[n + 1] \in Seq(S)
      BY <1>1, <2>1, <2>2
    <3>2. QED
      BY <3>1, ConcatProperties DEF Behind
  <2>4. g \in [0 .. n + 1 -> Seq(S)]
    BY <2>1, <2>2, <2>3
  <2>5. g[0] = << >>
    BY <2>1, <2>2
  <2>6. ASSUME NEW i \in 1 .. n + 1 PROVE g[i] = Behind(g[i - 1], seqs[i])
    <3>1. CASE i = n + 1
      <4>1. i - 1 = n /\ n \in 0 .. n + 1 /\ n # n + 1
        BY <2>2, <3>1
      <4>2. QED
        BY <3>1, <4>1
    <3>2. CASE i # n + 1
      <4>1. i \in 1 .. n /\ i - 1 \in 0 .. n
        BY <2>2, <3>2
      <4>2. QED
        BY <2>1, <2>2, <4>1
    <3>3. QED
      BY <3>1, <3>2
  <2>7. Good(n + 1, g)
    BY <2>4, <2>5, <2>6
  <2>8. n + 1 \in 0 .. Len(seqs)
    BY <2>2
  <2> HIDE DEF Good, g
  <2>9. QED
    BY <2>7, <2>8
<1> HIDE DEF good
<1>4. 0 .. Len(seqs) \subseteq good
  BY <1>1, <1>2, <1>3, UpTo
<1> HIDE DEF Good
<1>5. \E f : Good(Len(seqs), f)
  BY <1>1, <1>4 DEF good
<1> USE DEF Good
<1>6. QED
  BY <1>5 DEF JoinedUp

(***************************************************************************)
(* FlattenSeq is the last of them.                                         *)
(***************************************************************************)
LEMMA FlattenIsJoined ==
    ASSUME NEW S, NEW seqs \in Seq(Seq(S)), NEW joined, JoinedUp(seqs, S, joined)
    PROVE  FlattenSeq(seqs) = joined[Len(seqs)]
PROOF
<1>1. /\ Len(seqs) \in Nat
      /\ \A i \in 1 .. Len(seqs) : seqs[i] \in Seq(S)
      /\ joined[0] = << >>
      /\ \A i \in 0 .. Len(seqs) : joined[i] \in Seq(S)
      /\ \A i \in 1 .. Len(seqs) : joined[i] = Behind(joined[i - 1], seqs[i])
  <2>1. Len(seqs) \in Nat /\ \A i \in 1 .. Len(seqs) : seqs[i] \in Seq(S)
    OBVIOUS
  <2>2. joined \in [0 .. Len(seqs) -> Seq(S)]
    BY DEF JoinedUp
  <2>3. \A i \in 0 .. Len(seqs) : joined[i] \in Seq(S)
    BY <2>2, Zenon
  <2>4. QED
    BY <2>1, <2>3 DEF JoinedUp
<1>2. CASE Len(seqs) = 0
  BY <1>1, <1>2 DEF FlattenSeq
<1>3. CASE Len(seqs) # 0
  <2> DEFINE Pass(f) == f = [i \in 1 .. Len(seqs) |->
                               IF i = 1 THEN seqs[i] ELSE Behind(f[i - 1], seqs[i])]
             flatten == CHOOSE f : Pass(f)
             same == {i \in 1 .. Len(seqs) : flatten[i] = joined[i]}
             given == [i \in 1 .. Len(seqs) |-> joined[i]]
  <2>1. joined[1] = seqs[1]
    <3>1. joined[1] = Behind(<< >>, seqs[1]) /\ seqs[1] \in Seq(S)
      BY <1>1, <1>3
    <3>2. QED
      BY <3>1, ConcatEmptySeq DEF Behind
  <2>2. Pass(given)
    <3>1. ASSUME NEW i \in 1 .. Len(seqs), i # 1
          PROVE  joined[i] = Behind(given[i - 1], seqs[i])
      <4>1. i - 1 \in 1 .. Len(seqs)
        BY <1>1, <3>1
      <4>2. QED
        BY <1>1, <4>1
    <3>2. QED
      BY <2>1, <3>1
  <2> HIDE DEF given
  <2>3. Pass(flatten)
    BY <2>2
  <2> HIDE DEF flatten
  <2>4. 1 \in same
    BY <1>1, <1>3, <2>1, <2>3
  <2>5. ASSUME NEW i \in 1 .. Len(seqs) - 1, i \in same
        PROVE  i + 1 \in same
    <3>1. i + 1 \in 1 .. Len(seqs) /\ i + 1 # 1 /\ i + 1 - 1 = i
      BY <1>1
    <3>2. flatten[i + 1] = Behind(flatten[i], seqs[i + 1])
      BY <2>3, <3>1
    <3>3. QED
      BY <1>1, <2>5, <3>1, <3>2
  <2> HIDE DEF same
  <2>6. 1 .. Len(seqs) \subseteq same
    BY <1>1, <2>4, <2>5, UpTo
  <2>7. flatten[Len(seqs)] = joined[Len(seqs)]
    <3>1. Len(seqs) \in 1 .. Len(seqs)
      BY <1>1, <1>3
    <3>2. QED
      BY <2>6, <3>1, Zenon DEF same
  <2>8. FlattenSeq(seqs) = flatten[Len(seqs)]
    BY <1>3 DEF FlattenSeq, flatten, Behind
  <2>9. QED
    BY <2>7, <2>8
<1>4. QED
  BY <1>2, <1>3

(***************************************************************************)
(* Joining one sequence more puts it behind the others.                    *)
(***************************************************************************)
LEMMA FlattenOne ==
    ASSUME NEW S, NEW seqs \in Seq(Seq(S)), NEW n \in 1 .. Len(seqs)
    PROVE  /\ FlattenSeq(SubSeq(seqs, 1, n - 1)) \in Seq(S)
           /\ FlattenSeq(SubSeq(seqs, 1, n)) =
                  FlattenSeq(SubSeq(seqs, 1, n - 1)) \o seqs[n]
PROOF
<1>1. PICK joined : JoinedUp(seqs, S, joined)
  BY JoinExists
<1>2. ASSUME NEW k \in 0 .. Len(seqs)
      PROVE  FlattenSeq(SubSeq(seqs, 1, k)) = joined[k]
  <2> DEFINE front == SubSeq(seqs, 1, k)
             up == [i \in 0 .. k |-> joined[i]]
  <2>1. /\ front \in Seq(Seq(S)) /\ Len(front) = k
        /\ \A i \in 1 .. k : front[i] = seqs[i]
    OBVIOUS
  <2>2. \A i \in 0 .. k : i \in 0 .. Len(seqs)
    OBVIOUS
  <2>3. \A i \in 1 .. k : i \in 1 .. Len(seqs) /\ i - 1 \in 0 .. k
    OBVIOUS
  <2> HIDE DEF front
  <2>4. JoinedUp(front, S, up)
    <3>1. joined \in [0 .. Len(seqs) -> Seq(S)]
      BY <1>1 DEF JoinedUp
    <3>2. \A i \in 0 .. k : joined[i] \in Seq(S)
      BY <2>2, <3>1, Zenon
    <3>3. up \in [0 .. k -> Seq(S)]
      BY <3>2, Zenon
    <3>4. up[0] = << >>
      BY <1>1 DEF JoinedUp
    <3>5. ASSUME NEW i \in 1 .. k PROVE up[i] = Behind(up[i - 1], front[i])
      <4>1. up[i] = joined[i] /\ up[i - 1] = joined[i - 1]
        <5>1. i \in 0 .. k /\ i - 1 \in 0 .. k
          BY <2>3
        <5>2. QED
          BY <5>1, Zenon
      <4>2. QED
        BY <1>1, <2>1, <2>3, <4>1, Zenon DEF JoinedUp
    <3>6. QED
      BY <2>1, <3>3, <3>4, <3>5, Zenon DEF JoinedUp
  <2>5. FlattenSeq(front) = up[k]
    BY <2>1, <2>4, FlattenIsJoined
  <2>6. QED
    BY <2>5 DEF front
<1>3. n - 1 \in 0 .. Len(seqs) /\ n \in 0 .. Len(seqs)
  OBVIOUS
<1>4. QED
  BY <1>1, <1>2, <1>3 DEF JoinedUp, Behind

(***************************************************************************)
(* It does not matter which two of three are put together first.           *)
(***************************************************************************)
LEMMA BehindBehind ==
    ASSUME NEW S, NEW s \in Seq(S), NEW t \in Seq(S), NEW u \in Seq(S)
    PROVE  Behind(Behind(s, t), u) = Behind(s, Behind(t, u))
PROOF
<1>1. (s \o t) \o u = s \o (t \o u)
  BY ConcatAssociative
<1>2. QED
  BY <1>1 DEF Behind

(***************************************************************************)
(* What some of the sequences make is the beginning of what all make.      *)
(***************************************************************************)
LEMMA FlattenPrefix ==
    ASSUME NEW S, NEW seqs \in Seq(Seq(S)), NEW k \in 0 .. Len(seqs)
    PROVE  /\ FlattenSeq(SubSeq(seqs, 1, k)) \in Seq(S)
           /\ FlattenSeq(seqs) \in Seq(S)
           /\ \E rest \in Seq(S) : FlattenSeq(seqs) = FlattenSeq(SubSeq(seqs, 1, k)) \o rest
PROOF
<1> DEFINE made(m) == FlattenSeq(SubSeq(seqs, 1, m))
           Good(m) == \E rest \in Seq(S) : made(m) = Behind(made(k), rest)
           good == {m \in Nat : Good(m)}
<1>1. Len(seqs) \in Nat /\ \A m \in 1 .. Len(seqs) : seqs[m] \in Seq(S)
  OBVIOUS
<1>2. \A m \in 1 .. Len(seqs) :
        made(m - 1) \in Seq(S) /\ made(m) = Behind(made(m - 1), seqs[m])
  BY FlattenOne DEF Behind
<1>3. made(0) = << >>
  <2>1. SubSeq(seqs, 1, 0) = << >>
    BY SubSeqEmpty
  <2>2. FlattenSeq(<< >>) = << >>
    BY DEF FlattenSeq
  <2>3. QED
    BY <2>1, <2>2, Zenon
<1> HIDE DEF made
<1>4. \A m \in 0 .. Len(seqs) : made(m) \in Seq(S)
  <2> TAKE m \in 0 .. Len(seqs)
  <2>1. CASE m = 0
    <3>1. << >> \in Seq(S)
      OBVIOUS
    <3>2. QED
      BY <1>3, <2>1, <3>1, Zenon
  <2>2. CASE m # 0
    <3>1. m \in 1 .. Len(seqs)
      BY <2>2
    <3>2. made(m) = Behind(made(m - 1), seqs[m]) /\ made(m - 1) \in Seq(S) /\ seqs[m] \in Seq(S)
      BY <1>1, <1>2, <3>1
    <3>3. QED
      BY <3>2, ConcatProperties, Zenon DEF Behind
  <2>3. QED
    BY <2>1, <2>2
<1>5. k \in good
  <2>1. << >> \in Seq(S) /\ k \in Nat
    OBVIOUS
  <2>2. made(k) = Behind(made(k), << >>)
    BY <1>4, ConcatEmptySeq, Zenon DEF Behind
  <2>3. QED
    BY <2>1, <2>2, Zenon
<1>6. ASSUME NEW m \in k .. Len(seqs) - 1, m \in good PROVE m + 1 \in good
  <2>1. /\ m + 1 \in 1 .. Len(seqs) /\ (m + 1) - 1 = m /\ m + 1 \in Nat
        /\ k \in 0 .. Len(seqs)
    BY <1>1
  <2>2. PICK rest \in Seq(S) : made(m) = Behind(made(k), rest)
    BY <1>6
  <2>3. made(m + 1) = Behind(made(m), seqs[m + 1])
    BY <1>2, <2>1
  <2>4. seqs[m + 1] \in Seq(S) /\ made(k) \in Seq(S)
    BY <1>1, <1>4, <2>1
  <2>5. Behind(Behind(made(k), rest), seqs[m + 1]) = Behind(made(k), Behind(rest, seqs[m + 1]))
    BY <2>4, BehindBehind
  <2>6. Behind(rest, seqs[m + 1]) \in Seq(S)
    BY <2>4, ConcatProperties, Zenon DEF Behind
  <2>7. Good(m + 1)
    BY <2>2, <2>3, <2>5, <2>6, Zenon
  <2> HIDE DEF Good
  <2>8. QED
    BY <2>1, <2>7
<1> HIDE DEF good
<1>7. k .. Len(seqs) \subseteq good
  <2>1. k \in Nat /\ Len(seqs) \in Nat
    BY <1>1
  <2>2. QED
    BY <1>5, <1>6, <2>1, UpTo
<1>8. Good(Len(seqs))
  <2>1. Len(seqs) \in k .. Len(seqs)
    BY <1>1
  <2> HIDE DEF Good
  <2>2. QED
    BY <1>7, <2>1 DEF good
<1>9. SubSeq(seqs, 1, Len(seqs)) = seqs
  BY SubSeqFull
<1>10. made(Len(seqs)) = FlattenSeq(seqs)
  BY <1>9, Zenon DEF made
<1>11. made(k) \in Seq(S) /\ made(Len(seqs)) \in Seq(S)
  BY <1>1, <1>4
<1>12. QED
  BY <1>8, <1>10, <1>11, Zenon DEF made, Behind

(***************************************************************************)
(* Where each of the sequences stands in what they make together.          *)
(***************************************************************************)
LEMMA FlattenPart ==
    ASSUME NEW S, NEW seqs \in Seq(Seq(S)), NEW k \in 1 .. Len(seqs)
    PROVE  /\ Len(FlattenSeq(SubSeq(seqs, 1, k - 1))) \in Nat
           /\ Len(FlattenSeq(SubSeq(seqs, 1, k))) =
                  Len(FlattenSeq(SubSeq(seqs, 1, k - 1))) + Len(seqs[k])
           /\ Len(FlattenSeq(SubSeq(seqs, 1, k))) <= Len(FlattenSeq(seqs))
           /\ \A j \in 1 .. Len(seqs[k]) :
                  FlattenSeq(seqs)[Len(FlattenSeq(SubSeq(seqs, 1, k - 1))) + j] = seqs[k][j]
PROOF
<1> DEFINE before == FlattenSeq(SubSeq(seqs, 1, k - 1))
           upto == FlattenSeq(SubSeq(seqs, 1, k))
           all == FlattenSeq(seqs)
           part == seqs[k]
<1>1. part \in Seq(S) /\ k \in 0 .. Len(seqs)
  OBVIOUS
<1>2. before \in Seq(S) /\ upto = before \o part
  BY FlattenOne
<1>3. upto \in Seq(S) /\ all \in Seq(S) /\ \E rest \in Seq(S) : all = upto \o rest
  BY <1>1, FlattenPrefix
<1>4. PICK rest \in Seq(S) : all = upto \o rest
  BY <1>3
<1> HIDE DEF before, upto, all, part
<1>5. /\ Len(before) \in Nat /\ Len(upto) \in Nat /\ Len(part) \in Nat /\ Len(rest) \in Nat
      /\ Len(upto) = Len(before) + Len(part)
      /\ \A i \in 1 .. Len(upto) : upto[i] = IF i <= Len(before) THEN before[i] ELSE part[i - Len(before)]
  <2>1. Len(upto) = Len(before) + Len(part)
    BY <1>1, <1>2, ConcatProperties, Zenon
  <2>2. \A i \in 1 .. Len(before) + Len(part) :
          upto[i] = IF i <= Len(before) THEN before[i] ELSE part[i - Len(before)]
    BY <1>1, <1>2, ConcatProperties, Zenon
  <2>3. QED
    BY <1>1, <1>2, <1>3, <2>1, <2>2, LenProperties
<1>6. /\ Len(all) = Len(upto) + Len(rest)
      /\ \A i \in 1 .. Len(upto) + Len(rest) :
            all[i] = IF i <= Len(upto) THEN upto[i] ELSE rest[i - Len(upto)]
  BY <1>3, <1>4, ConcatProperties, Zenon
<1>7. ASSUME NEW j \in 1 .. Len(part) PROVE all[Len(before) + j] = part[j]
  <2> DEFINE i == Len(before) + j
  <2>1. /\ i \in 1 .. Len(upto) /\ i \in 1 .. Len(upto) + Len(rest) /\ i <= Len(upto)
        /\ ~ (i <= Len(before)) /\ i - Len(before) = j
    BY <1>5
  <2> HIDE DEF i
  <2>2. all[i] = upto[i] /\ upto[i] = part[j]
    BY <1>5, <1>6, <2>1
  <2>3. QED
    BY <2>2 DEF i
<1>8. Len(upto) <= Len(all)
  BY <1>5, <1>6
<1>9. QED
  BY <1>5, <1>7, <1>8 DEF before, upto, all, part

-----------------------------------------------------------------------------
(* Numbers.                                                                *)

(***************************************************************************)
(* What holds of a number whenever it holds of all smaller ones holds of   *)
(* all.                                                                    *)
(***************************************************************************)
LEMMA EveryNat ==
    ASSUME NEW S, \A n \in Nat : (\A k \in 0 .. n - 1 : k \in S) => n \in S
    PROVE  Nat \subseteq S
PROOF
<1> DEFINE bad == Nat \ S
<1> SUFFICES ASSUME bad # {} PROVE FALSE
  OBVIOUS
<1>1. bad \subseteq Nat
  OBVIOUS
<1>2. PICK n \in bad : \A k \in bad : n <= k
  <2> HIDE DEF bad
  <2>1. QED
    BY <1>1, LeastNat
<1>3. ASSUME NEW k \in 0 .. n - 1 PROVE k \in S
  <2>1. k \in Nat /\ ~ (n <= k)
    BY <1>2
  <2>2. QED
    BY <1>2, <2>1
<1>4. QED
  BY <1>2, <1>3

(***************************************************************************)
(* The last digit of a number and the ones before it.                      *)
(***************************************************************************)
LEMMA LastDigit ==
    ASSUME NEW n \in Nat
    PROVE  /\ n \div 10 \in Nat /\ (n % 10) \in 0 .. 9
           /\ n = 10 * (n \div 10) + (n % 10)
           /\ n >= 10 => n \div 10 \in 0 .. n - 1 /\ n \div 10 >= 1
           /\ n < 100 => n \div 10 <= 9
  OBVIOUS

(***************************************************************************)
(* f is Numeral as far as m.                                               *)
(***************************************************************************)
LastChar(n) == (n % 10) + 48
NumeralStep(f, n) == IF n < 10 THEN <<n + 48>> ELSE Append(f[n \div 10], LastChar(n))
NumeralUpTo(m, f) == \A n \in 0 .. m : f[n] = NumeralStep(f, n)

(***************************************************************************)
(* There is such a function.                                               *)
(***************************************************************************)
LEMMA NumeralGrows ==
    ASSUME NEW m \in Nat
    PROVE  \E f : NumeralUpTo(m, f)
PROOF
<1> DEFINE good == {n \in Nat : \E f : NumeralUpTo(n, f)}
<1>1. 0 \in good
  <2>1. NumeralUpTo(0, [n \in 0 .. 0 |-> <<48>>])
    BY DEF NumeralUpTo, NumeralStep
  <2>2. QED
    BY <2>1
<1>2. ASSUME NEW k \in 0 .. m - 1, k \in good PROVE k + 1 \in good
  <2>1. PICK f : NumeralUpTo(k, f)
    BY <1>2
  <2> DEFINE last == NumeralStep(f, k + 1)
             g == [n \in 0 .. k + 1 |-> IF n = k + 1 THEN last ELSE f[n]]
  <2>2. ASSUME NEW n \in 0 .. k + 1 PROVE g[n] = NumeralStep(g, n)
    <3>1. n >= 10 => n \div 10 \in 0 .. k + 1 /\ n \div 10 # k + 1 /\ n \div 10 < n
      BY LastDigit
    <3>2. NumeralStep(g, n) = NumeralStep(f, n)
      <4> HIDE DEF last
      <4>1. QED
        BY <3>1 DEF NumeralStep
    <3>3. g[n] = NumeralStep(f, n)
      <4>1. CASE n = k + 1
        <5> HIDE DEF last
        <5>1. g[n] = last
          BY <4>1
        <5>2. QED
          BY <4>1, <5>1 DEF last
      <4>2. CASE n # k + 1
        <5>1. n \in 0 .. k
          BY <4>2
        <5> HIDE DEF last
        <5>2. g[n] = f[n]
          BY <4>2
        <5>3. QED
          BY <2>1, <5>1, <5>2 DEF NumeralUpTo
      <4>3. QED
        BY <4>1, <4>2
    <3>4. QED
      BY <3>2, <3>3
  <2> HIDE DEF g
  <2>3. NumeralUpTo(k + 1, g)
    BY <2>2 DEF NumeralUpTo
  <2>4. QED
    BY <2>3
<1> HIDE DEF good
<1>3. 0 .. m \subseteq good
  BY <1>1, <1>2, UpTo
<1>4. QED
  BY <1>3 DEF good

(***************************************************************************)
(* And only one, as far as it goes.                                        *)
(***************************************************************************)
LEMMA NumeralAgree ==
    ASSUME NEW m \in Nat, NEW f, NEW g, NumeralUpTo(m, f), NumeralUpTo(m, g)
    PROVE  f[m] = g[m]
PROOF
<1> DEFINE same == {n \in Nat : n \in 0 .. m => f[n] = g[n]}
<1>1. ASSUME NEW n \in Nat, \A k \in 0 .. n - 1 : k \in same
      PROVE  n \in same
  <2> SUFFICES ASSUME n \in 0 .. m PROVE f[n] = g[n]
    OBVIOUS
  <2>1. n >= 10 => f[n \div 10] = g[n \div 10]
    <3>1. n >= 10 => n \div 10 \in 0 .. n - 1 /\ n \div 10 \in 0 .. m
      BY LastDigit
    <3>2. QED
      BY <1>1, <3>1
  <2>2. NumeralStep(f, n) = NumeralStep(g, n)
    BY <2>1 DEF NumeralStep
  <2>3. QED
    BY <2>2 DEF NumeralUpTo
<1> HIDE DEF same
<1>2. Nat \subseteq same
  BY <1>1, EveryNat
<1>3. QED
  BY <1>2 DEF same

(***************************************************************************)
(* std::to_string is what its definition says, for every number.           *)
(***************************************************************************)
LEMMA NumeralDef ==
    \A n \in Nat :
        /\ n < 10 => Numeral[n] = <<n + 48>>
        /\ n >= 10 => Numeral[n] = Append(Numeral[n \div 10], LastChar(n))
PROOF
<1> DEFINE Pass(f) == f = [n \in Nat |-> NumeralStep(f, n)]
           given == [n \in Nat |-> (CHOOSE f : NumeralUpTo(n, f))[n]]
<1>1. ASSUME NEW n \in Nat, NEW f, NumeralUpTo(n, f) PROVE given[n] = f[n]
  <2>1. NumeralUpTo(n, CHOOSE g : NumeralUpTo(n, g))
    BY NumeralGrows
  <2>2. QED
    BY <1>1, <2>1, NumeralAgree
<1>2. ASSUME NEW n \in Nat PROVE given[n] = NumeralStep(given, n)
  <2>1. PICK f : NumeralUpTo(n, f)
    BY NumeralGrows
  <2>2. given[n] = f[n] /\ f[n] = NumeralStep(f, n)
    BY <1>1, <2>1 DEF NumeralUpTo
  <2>3. n >= 10 => given[n \div 10] = f[n \div 10]
    <3>1. n >= 10 => n \div 10 \in Nat /\ NumeralUpTo(n \div 10, f)
      BY <2>1, LastDigit DEF NumeralUpTo
    <3>2. QED
      BY <1>1, <3>1
  <2> HIDE DEF given
  <2>4. QED
    BY <2>2, <2>3 DEF NumeralStep
<1>3. Pass(given)
  <2>1. given = [n \in Nat |-> given[n]]
    OBVIOUS
  <2> HIDE DEF given
  <2>2. QED
    BY <1>2, <2>1
<1> HIDE DEF given
<1>4. Numeral = CHOOSE f : Pass(f)
  BY DEF Numeral, NumeralStep, LastChar
<1>5. Pass(Numeral)
  BY <1>3, <1>4
<1>6. \A n \in Nat : Numeral[n] = NumeralStep(Numeral, n)
  BY <1>5
<1>7. \A n \in Nat : n >= 10 => ~ (n < 10)
  OBVIOUS
<1>8. QED
  BY <1>6, <1>7, Zenon DEF NumeralStep

(***************************************************************************)
(* A numeral is made of digits, and has at least one.                      *)
(***************************************************************************)
LEMMA NumeralDigits ==
    \A n \in Nat : Numeral[n] \in Seq(Digits) /\ Len(Numeral[n]) >= 1
PROOF
<1> DEFINE good == {n \in Nat : Numeral[n] \in Seq(Digits) /\ Len(Numeral[n]) >= 1}
<1>1. ASSUME NEW n \in Nat, \A k \in 0 .. n - 1 : k \in good
      PROVE  n \in good
  <2>1. CASE n < 10
    <3>1. Numeral[n] = <<n + 48>>
      BY <2>1, NumeralDef, Zenon
    <3>2. n + 48 \in Digits
      BY <2>1 DEF Digits
    <3>3. <<n + 48>> \in Seq(Digits) /\ Len(<<n + 48>>) >= 1
      BY <3>2
    <3>4. QED
      BY <3>1, <3>3, Zenon
  <2>2. CASE ~ (n < 10)
    <3>1. n \div 10 \in good /\ LastChar(n) \in Digits
      BY <1>1, <2>2, LastDigit DEF Digits, LastChar
    <3>2. Numeral[n] = Append(Numeral[n \div 10], LastChar(n))
      BY <2>2, NumeralDef
    <3>3. Numeral[n \div 10] \in Seq(Digits) /\ Len(Numeral[n \div 10]) >= 1
      BY <3>1
    <3>4. /\ Append(Numeral[n \div 10], LastChar(n)) \in Seq(Digits)
          /\ Len(Append(Numeral[n \div 10], LastChar(n))) = Len(Numeral[n \div 10]) + 1
      BY <3>1, <3>3, AppendProperties
    <3>5. Len(Numeral[n \div 10]) + 1 >= 1
      BY <3>3
    <3>6. QED
      BY <3>2, <3>4, <3>5
  <2>3. QED
    BY <2>1, <2>2
<1> HIDE DEF good
<1>2. Nat \subseteq good
  BY <1>1, EveryNat
<1>3. QED
  BY <1>2 DEF good

(***************************************************************************)
(* A sequence of one, and one more.                                        *)
(***************************************************************************)
LEMMA AppendTwo ==
    ASSUME NEW a, NEW b
    PROVE  Append(<<a>>, b) = <<a, b>>
PROOF
<1>1. <<a>> \in Seq({a, b}) /\ <<a, b>> \in Seq({a, b}) /\ b \in {a, b}
  OBVIOUS
<1>2. Len(<<a>>) = 1 /\ Len(<<a, b>>) = 2 /\ <<a>>[1] = a /\ <<a, b>>[1] = a /\ <<a, b>>[2] = b
  OBVIOUS
<1> DEFINE s == <<a>>
           t == <<a, b>>
           u == Append(s, b)
<1> HIDE DEF s, t
<1>3. /\ u \in Seq({a, b}) /\ Len(u) = Len(s) + 1
      /\ \A i \in 1 .. Len(s) : u[i] = s[i]
      /\ u[Len(s) + 1] = b
  BY <1>1, AppendProperties DEF s
<1> HIDE DEF u
<1>4. Len(u) = Len(t) /\ \A i \in 1 .. Len(u) : u[i] = t[i]
  BY <1>2, <1>3 DEF s, t
<1>5. t \in Seq({a, b})
  BY <1>1 DEF t
<1>6. u = t
  BY <1>3, <1>4, <1>5, SeqEqual
<1>7. QED
  BY <1>6 DEF s, t, u

(***************************************************************************)
(* A sequence of two, and one more.                                        *)
(***************************************************************************)
LEMMA AppendThree ==
    ASSUME NEW a, NEW b, NEW c
    PROVE  Append(<<a, b>>, c) = <<a, b, c>>
PROOF
<1>1. <<a, b>> \in Seq({a, b, c}) /\ <<a, b, c>> \in Seq({a, b, c}) /\ c \in {a, b, c}
  OBVIOUS
<1>2. /\ Len(<<a, b>>) = 2 /\ <<a, b>>[1] = a /\ <<a, b>>[2] = b
      /\ Len(<<a, b, c>>) = 3
      /\ <<a, b, c>>[1] = a /\ <<a, b, c>>[2] = b /\ <<a, b, c>>[3] = c
  OBVIOUS
<1> DEFINE s == <<a, b>>
           t == <<a, b, c>>
           u == Append(s, c)
<1> HIDE DEF s, t
<1>3. /\ u \in Seq({a, b, c}) /\ Len(u) = Len(s) + 1
      /\ \A i \in 1 .. Len(s) : u[i] = s[i]
      /\ u[Len(s) + 1] = c
  BY <1>1, AppendProperties DEF s
<1> HIDE DEF u
<1>4. Len(u) = Len(t) /\ \A i \in 1 .. Len(u) : u[i] = t[i]
  BY <1>2, <1>3 DEF s, t
<1>5. t \in Seq({a, b, c})
  BY <1>1 DEF t
<1>6. u = t
  BY <1>3, <1>4, <1>5, SeqEqual
<1>7. QED
  BY <1>6 DEF s, t, u

(***************************************************************************)
(* The numerals of the tricks, the values and the scores.                  *)
(***************************************************************************)
LEMMA ShortNumerals ==
    ASSUME NEW n \in Nat
    PROVE  /\ n < 10 => Numeral[n] = <<n + 48>>
           /\ n \in 10 .. 99 => Numeral[n] = <<(n \div 10) + 48, (n % 10) + 48>>
           /\ n \in 100 .. 999 => Len(Numeral[n]) = 3
PROOF
<1>1. ASSUME NEW k \in Nat, k < 10 PROVE Numeral[k] = <<k + 48>>
  BY <1>1, NumeralDef
<1>2. ASSUME NEW k \in 10 .. 99
      PROVE  Numeral[k] = <<(k \div 10) + 48, (k % 10) + 48>>
  <2>1. k \div 10 \in Nat /\ k \div 10 < 10
    BY LastDigit
  <2>2. k \in Nat /\ k >= 10
    OBVIOUS
  <2>3. Numeral[k] = Append(Numeral[k \div 10], LastChar(k))
    BY <2>2, NumeralDef, Zenon
  <2>4. Numeral[k \div 10] = <<(k \div 10) + 48>>
    BY <1>1, <2>1, Zenon
  <2>5. Append(<<(k \div 10) + 48>>, LastChar(k)) = <<(k \div 10) + 48, LastChar(k)>>
    BY AppendTwo
  <2>6. QED
    BY <2>3, <2>4, <2>5, Zenon DEF LastChar
<1>3. ASSUME n \in 100 .. 999 PROVE Len(Numeral[n]) = 3
  <2>1. n \div 10 \in 10 .. 99
    BY <1>3
  <2>2. n >= 10
    BY <1>3
  <2>3. Numeral[n] = Append(Numeral[n \div 10], LastChar(n))
    BY <2>2, NumeralDef, Zenon
  <2>4. Numeral[n \div 10] = <<((n \div 10) \div 10) + 48, ((n \div 10) % 10) + 48>>
    BY <1>2, <2>1, Zenon
  <2>5. Len(Append(<<((n \div 10) \div 10) + 48, ((n \div 10) % 10) + 48>>, LastChar(n))) = 3
    OBVIOUS
  <2>6. QED
    BY <2>3, <2>4, <2>5, Zenon
<1>4. QED
  BY <1>1, <1>2, <1>3

(***************************************************************************)
(* The last position of some positions.                                    *)
(***************************************************************************)
LEMMA MaxOfSome ==
    ASSUME NEW n \in Nat, NEW s, s \subseteq 1 .. n, s # {}
    PROVE  Max(s) \in s /\ \A i \in s : i <= Max(s)
PROOF
<1> DEFINE far == {n - i : i \in s}
<1>1. far \subseteq Nat /\ far # {}
  <2>1. \A i \in s : n - i \in Nat
    OBVIOUS
  <2>2. QED
    BY <2>1
<1>2. PICK m \in far : \A k \in far : m <= k
  <2> HIDE DEF far
  <2>1. QED
    BY <1>1, LeastNat
<1>3. PICK x \in s : m = n - x
  BY <1>2
<1>4. \A y \in s : x >= y
  <2> TAKE y \in s
  <2>1. n - x <= n - y
    BY <1>2, <1>3
  <2>2. QED
    BY <2>1
<1>5. \A i \in s : i \in Nat
  OBVIOUS
<1>6. \E z \in s : \A y \in s : z >= y
  BY <1>4
<1>7. Max(s) \in s /\ \A y \in s : Max(s) >= y
  BY <1>6, Zenon DEF Max
<1>8. QED
  BY <1>5, <1>7

(***************************************************************************)
(* f reads the digits of chars at the positions of any set up to n.        *)
(***************************************************************************)
OneMore(v, char) == 10 * v + DigitOf(char)
NumberStep(chars, f, s) ==
    IF s = {} THEN 0 ELSE OneMore(f[s \ {Max(s)}], chars[Max(s)])
ReadsNumber(chars, n, f) == f = [s \in SUBSET (1 .. n) |-> NumberStep(chars, f, s)]

(***************************************************************************)
(* There is such a function.                                               *)
(***************************************************************************)
LEMMA NumberExists ==
    ASSUME NEW n \in Nat, NEW chars
    PROVE  \E f : ReadsNumber(chars, n, f)
PROOF
<1> DEFINE good == {k \in Nat : \E f : ReadsNumber(chars, k, f)}
<1>1. 0 \in good
  <2> DEFINE f == [s \in {{}} |-> 0]
  <2>1. SUBSET (1 .. 0) = {{}}
    OBVIOUS
  <2>2. \A s \in {{}} : NumberStep(chars, f, s) = 0
    BY DEF NumberStep
  <2>3. f = [s \in SUBSET (1 .. 0) |-> NumberStep(chars, f, s)]
    BY <2>1, <2>2
  <2>4. ReadsNumber(chars, 0, f)
    BY <2>3 DEF ReadsNumber
  <2>5. QED
    BY <2>4
<1>2. ASSUME NEW k \in 0 .. n - 1, k \in good PROVE k + 1 \in good
  <2>1. PICK f : ReadsNumber(chars, k, f)
    BY <1>2
  <2> DEFINE g == [s \in SUBSET (1 .. k + 1) |->
                      IF k + 1 \in s THEN OneMore(f[s \ {k + 1}], chars[k + 1]) ELSE f[s]]
  <2>2. k \in Nat
    OBVIOUS
  <2>3. \A s \in SUBSET (1 .. k) : f[s] = NumberStep(chars, f, s)
    BY <2>1 DEF ReadsNumber
  <2>4. ASSUME NEW s \in SUBSET (1 .. k + 1) PROVE g[s] = NumberStep(chars, g, s)
    <3>1. CASE s = {}
      <4>1. s \in SUBSET (1 .. k) /\ k + 1 \notin s
        BY <3>1
      <4>2. g[s] = f[s] /\ f[s] = 0
        BY <2>3, <3>1, <4>1 DEF NumberStep
      <4>3. QED
        BY <3>1, <4>2 DEF NumberStep
    <3>2. CASE s # {}
      <4> DEFINE m == Max(s)
                 less == s \ {m}
      <4>1. m \in s /\ \A i \in s : i <= m
        <5>1. k + 1 \in Nat
          BY <2>2
        <5>2. QED
          BY <3>2, <5>1, MaxOfSome
      <4> HIDE DEF m
      <4>2. k + 1 \notin less /\ less \in SUBSET (1 .. k) /\ less \in SUBSET (1 .. k + 1)
        <5>1. \A i \in less : i \in 1 .. k + 1 /\ i <= m /\ i # m /\ m \in 1 .. k + 1
          BY <4>1
        <5>2. \A i \in less : i \in 1 .. k /\ i # k + 1
          BY <2>2, <5>1
        <5>3. QED
          BY <5>2
      <4>3. g[less] = f[less]
        BY <4>2
      <4>4. CASE k + 1 \in s
        <5>1. m = k + 1
          <6>1. m \in 1 .. k + 1 /\ k + 1 <= m
            BY <4>1, <4>4
          <6>2. QED
            BY <2>2, <6>1
        <5>2. g[s] = OneMore(f[less], chars[m])
          BY <4>4, <5>1
        <5> HIDE DEF g, less
        <5>3. QED
          BY <3>2, <4>3, <5>2 DEF NumberStep, m, less
      <4>5. CASE k + 1 \notin s
        <5>1. s \in SUBSET (1 .. k)
          <6>1. \A i \in s : i \in 1 .. k
            BY <2>2, <4>5
          <6>2. QED
            BY <6>1
        <5>2. g[s] = f[s]
          BY <4>5
        <5>3. f[s] = OneMore(f[less], chars[m])
          BY <2>3, <3>2, <5>1 DEF NumberStep, m
        <5> HIDE DEF g, less
        <5>4. QED
          BY <3>2, <4>3, <5>2, <5>3 DEF NumberStep, m, less
      <4>6. QED
        BY <4>4, <4>5
    <3>3. QED
      BY <3>1, <3>2
  <2>5. g = [s \in SUBSET (1 .. k + 1) |-> g[s]]
    OBVIOUS
  <2> HIDE DEF g
  <2>6. ReadsNumber(chars, k + 1, g)
    BY <2>4, <2>5 DEF ReadsNumber
  <2>7. QED
    BY <2>2, <2>6
<1> HIDE DEF good
<1>3. 0 .. n \subseteq good
  BY <1>1, <1>2, UpTo
<1>4. QED
  BY <1>3 DEF good

(***************************************************************************)
(* Number reads the digits one after the other.                            *)
(***************************************************************************)
LEMMA NumberReads ==
    ASSUME NEW n \in Nat, NEW chars, DOMAIN chars = 1 .. n
    PROVE  \E val : /\ Number(chars) = val[n]
                    /\ val[0] = 0
                    /\ \A i \in 1 .. n : val[i] = OneMore(val[i - 1], chars[i])
PROOF
<1> DEFINE Pass(f) == f = [s \in SUBSET (1 .. n) |->
                             IF s = {} THEN 0
                             ELSE OneMore(f[s \ {Max(s)}], chars[Max(s)])]
           iter == CHOOSE f : Pass(f)
           val == [i \in 0 .. n |-> iter[1 .. i]]
<1>1. Number(chars) = iter[1 .. n]
  BY DEF Number, FoldLeft, MapThenFoldSet, OneMore
<1>2. Pass(iter)
  BY NumberExists DEF ReadsNumber, NumberStep
<1> HIDE DEF iter
<1>3. \A s \in SUBSET (1 .. n) :
        iter[s] = IF s = {} THEN 0 ELSE OneMore(iter[s \ {Max(s)}], chars[Max(s)])
  BY <1>2
<1>4. val[0] = 0
  <2>1. 1 .. 0 = {} /\ {} \in SUBSET (1 .. n) /\ 0 \in 0 .. n
    OBVIOUS
  <2>2. iter[{}] = 0
    BY <1>3, <2>1, Zenon
  <2>3. QED
    BY <2>1, <2>2
<1>5. ASSUME NEW i \in 1 .. n PROVE val[i] = OneMore(val[i - 1], chars[i])
  <2>1. /\ 1 .. i \in SUBSET (1 .. n) /\ 1 .. i # {} /\ i \in Nat
        /\ i - 1 \in 0 .. n /\ i \in 0 .. n
    OBVIOUS
  <2>2. Max(1 .. i) = i
    <3>1. Max(1 .. i) \in 1 .. i /\ \A j \in 1 .. i : j <= Max(1 .. i)
      BY <2>1, MaxOfSome
    <3>2. i \in 1 .. i
      OBVIOUS
    <3>3. QED
      BY <3>1, <3>2
  <2>3. (1 .. i) \ {i} = 1 .. i - 1
    OBVIOUS
  <2>4. QED
    BY <1>3, <2>1, <2>2, <2>3
<1>6. val[n] = iter[1 .. n]
  OBVIOUS
<1> HIDE DEF val
<1>7. QED
  BY <1>1, <1>4, <1>5, <1>6

(***************************************************************************)
(* The digits determine the number.                                        *)
(***************************************************************************)
LEMMA NumberIs ==
    ASSUME NEW n \in Nat, NEW chars, DOMAIN chars = 1 .. n, NEW val,
           val[0] = 0, \A i \in 1 .. n : val[i] = OneMore(val[i - 1], chars[i])
    PROVE  Number(chars) = val[n]
PROOF
<1>1. PICK f : /\ Number(chars) = f[n]
               /\ f[0] = 0
               /\ \A i \in 1 .. n : f[i] = OneMore(f[i - 1], chars[i])
  BY NumberReads
<1> DEFINE same == {i \in 0 .. n : f[i] = val[i]}
<1>2. 0 \in same
  BY <1>1
<1>3. ASSUME NEW i \in 0 .. n - 1, i \in same PROVE i + 1 \in same
  <2>1. i + 1 \in 1 .. n /\ i + 1 - 1 = i /\ i + 1 \in 0 .. n
    OBVIOUS
  <2>2. f[i + 1] = OneMore(f[i], chars[i + 1])
    BY <1>1, <2>1
  <2>3. val[i + 1] = OneMore(val[i], chars[i + 1])
    BY <2>1
  <2>4. QED
    BY <1>3, <2>1, <2>2, <2>3
<1> HIDE DEF same
<1>4. 0 .. n \subseteq same
  BY <1>2, <1>3, UpTo
<1>5. QED
  BY <1>1, <1>4 DEF same

(***************************************************************************)
(* What std::stoi makes of a numeral is the number, whatever it is.        *)
(***************************************************************************)
LEMMA NumberOfNumeral ==
    \A n \in Nat : Number(Numeral[n]) = n
PROOF
<1> DEFINE good == {n \in Nat : Number(Numeral[n]) = n}
<1>1. ASSUME NEW n \in Nat, \A k \in 0 .. n - 1 : k \in good
      PROVE  n \in good
  <2> DEFINE chars == Numeral[n]
  <2>1. CASE n < 10
    <3>1. chars = <<n + 48>>
      BY <2>1, NumeralDef, Zenon
    <3>2. DOMAIN <<n + 48>> = 1 .. 1 /\ <<n + 48>>[1] = n + 48
      OBVIOUS
    <3>3. PICK val : /\ Number(chars) = val[1]
                     /\ val[0] = 0
                     /\ \A i \in 1 .. 1 : val[i] = OneMore(val[i - 1], chars[i])
      <4>1. DOMAIN chars = 1 .. 1
        BY <3>1, <3>2, Zenon
      <4> HIDE DEF chars
      <4>2. ASSUME NEW k \in Nat, DOMAIN chars = 1 .. k
            PROVE  \E val : /\ Number(chars) = val[k]
                            /\ val[0] = 0
                            /\ \A i \in 1 .. k : val[i] = OneMore(val[i - 1], chars[i])
        BY <4>2, NumberReads
      <4>3. QED
        BY <4>1, <4>2
    <3>4. val[1] = OneMore(0, n + 48)
      BY <3>1, <3>2, <3>3
    <3>5. OneMore(0, n + 48) = n
      BY DEF OneMore, DigitOf
    <3>6. QED
      BY <3>3, <3>4, <3>5
  <2>2. CASE ~ (n < 10)
    <3> DEFINE q == n \div 10
               front == Numeral[q]
               len == Len(front)
    <3>1. q \in 0 .. n - 1 /\ n = 10 * q + (n % 10) /\ (n % 10) \in 0 .. 9
      BY <2>2, LastDigit
    <3>2. q \in Nat /\ q \in good
      BY <1>1, <3>1
    <3>3. Number(front) = q
      BY <3>2
    <3>4. n >= 10
      BY <2>2
    <3>5. chars = Append(front, LastChar(n))
      BY <3>4, NumeralDef, Zenon
    <3>6. front \in Seq(Digits) /\ LastChar(n) \in Digits
      BY <3>1, <3>2, NumeralDigits DEF Digits, LastChar
    <3> HIDE DEF chars, front, q, good
    <3>7. /\ chars \in Seq(Digits) /\ Len(chars) = len + 1 /\ len \in Nat
          /\ \A i \in 1 .. len : chars[i] = front[i]
          /\ chars[len + 1] = LastChar(n)
      <4>1. len \in Nat
        BY <3>6
      <4>2. /\ Append(front, LastChar(n)) \in Seq(Digits)
            /\ Len(Append(front, LastChar(n))) = len + 1
            /\ \A i \in 1 .. len : Append(front, LastChar(n))[i] = front[i]
            /\ Append(front, LastChar(n))[len + 1] = LastChar(n)
        BY <3>6, AppendProperties
      <4>3. QED
        BY <3>5, <4>1, <4>2, Zenon
    <3>8. DOMAIN chars = 1 .. len + 1 /\ DOMAIN front = 1 .. len
      BY <3>6, <3>7, LenProperties
    <3>9. PICK val : /\ Number(chars) = val[len + 1]
                     /\ val[0] = 0
                     /\ \A i \in 1 .. len + 1 : val[i] = OneMore(val[i - 1], chars[i])
      <4>1. len + 1 \in Nat
        BY <3>7
      <4>2. QED
        BY <3>8, <4>1, NumberReads
    <3>10. Number(front) = val[len]
      <4>1. \A i \in 1 .. len : val[i] = OneMore(val[i - 1], front[i])
        BY <3>7, <3>9
      <4>2. QED
        BY <3>7, <3>8, <3>9, <4>1, NumberIs
    <3>11. val[len + 1] = OneMore(val[len], LastChar(n))
      BY <3>7, <3>9
    <3>12. OneMore(q, LastChar(n)) = n
      BY <3>1 DEF OneMore, DigitOf, LastChar
    <3>13. QED
      BY <3>3, <3>9, <3>10, <3>11, <3>12 DEF good, chars
  <2>3. QED
    BY <2>1, <2>2
<1> HIDE DEF good
<1>2. Nat \subseteq good
  BY <1>1, EveryNat
<1>3. QED
  BY <1>2 DEF good

-----------------------------------------------------------------------------
(* The ends of packets.                                                    *)

(***************************************************************************)
(* The characters of a sequence read backwards.                            *)
(***************************************************************************)
LEMMA ReverseFacts ==
    ASSUME NEW S, NEW s \in Seq(S)
    PROVE  /\ Reverse(s) \in Seq(S) /\ Len(Reverse(s)) = Len(s)
           /\ \A i \in 1 .. Len(s) : Reverse(s)[i] = s[Len(s) - i + 1]
PROOF
<1> DEFINE n == Len(s)
           r == [i \in 1 .. n |-> s[n - i + 1]]
<1>1. n \in Nat /\ \A i \in 1 .. n : n - i + 1 \in 1 .. n
  OBVIOUS
<1>2. \A i \in 1 .. n : s[n - i + 1] \in S
  BY <1>1
<1> HIDE DEF n
<1>3. r \in [1 .. n -> S]
  BY <1>2
<1>4. r \in Seq(S) /\ Len(r) = n
  <2>1. \A i \in 1 .. n : r[i] = s[n - i + 1]
    OBVIOUS
  <2> HIDE DEF r
  <2>2. r \in Seq(S)
    BY <1>1, <1>3
  <2>3. DOMAIN r = 1 .. n /\ DOMAIN r = 1 .. Len(r) /\ Len(r) \in Nat
    BY <1>3, <2>2, LenProperties
  <2>4. Len(r) = n
    BY <1>1, <2>3
  <2>5. QED
    BY <2>2, <2>4
<1>5. Reverse(s) = r
  BY DEF Reverse, n
<1>6. QED
  BY <1>4, <1>5 DEF n

(***************************************************************************)
(* What it is for a sequence to end with another one.                      *)
(***************************************************************************)
LEMMA SuffixIs ==
    ASSUME NEW S, NEW e \in Seq(S), NEW s \in Seq(S)
    PROVE  IsSuffix(e, s) <=> /\ Len(e) <= Len(s)
                              /\ \A i \in 1 .. Len(e) : e[i] = s[Len(s) - Len(e) + i]
PROOF
<1> DEFINE k == Len(e)
           n == Len(s)
           re == Reverse(e)
           rs == Reverse(s)
           pe == SubSeq(re, 1, k)
           ps == SubSeq(rs, 1, k)
<1>1. k \in Nat /\ n \in Nat
  OBVIOUS
<1>2. /\ re \in Seq(S) /\ Len(re) = k /\ \A i \in 1 .. k : re[i] = e[k - i + 1]
      /\ rs \in Seq(S) /\ Len(rs) = n /\ \A i \in 1 .. n : rs[i] = s[n - i + 1]
  BY ReverseFacts
<1>3. IsSuffix(e, s) <=> k <= n /\ pe = ps
  BY <1>2 DEF IsSuffix, IsPrefix
<1>4. CASE k <= n
  <2> HIDE DEF k, n, re, rs
  <2>1. /\ pe \in Seq(S) /\ Len(pe) = k /\ \A i \in 1 .. k : pe[i] = e[k - i + 1]
        /\ ps \in Seq(S) /\ Len(ps) = k /\ \A i \in 1 .. k : ps[i] = s[n - i + 1]
    BY <1>1, <1>2, <1>4
  <2> HIDE DEF pe, ps
  <2>2. pe = ps <=> \A i \in 1 .. k : e[k - i + 1] = s[n - i + 1]
    <3>1. ASSUME \A i \in 1 .. k : e[k - i + 1] = s[n - i + 1] PROVE pe = ps
      BY <2>1, <3>1, SeqEqual
    <3>2. ASSUME pe = ps, NEW i \in 1 .. k PROVE e[k - i + 1] = s[n - i + 1]
      BY <2>1, <3>2
    <3>3. QED
      BY <3>1, <3>2
  <2>3. (\A i \in 1 .. k : e[k - i + 1] = s[n - i + 1])
            <=> \A i \in 1 .. k : e[i] = s[n - k + i]
    <3>1. ASSUME \A i \in 1 .. k : e[k - i + 1] = s[n - i + 1], NEW j \in 1 .. k
          PROVE  e[j] = s[n - k + j]
      <4>1. k - j + 1 \in 1 .. k /\ k - (k - j + 1) + 1 = j /\ n - (k - j + 1) + 1 = n - k + j
        BY <1>1
      <4>2. QED
        BY <3>1, <4>1
    <3>2. ASSUME \A i \in 1 .. k : e[i] = s[n - k + i], NEW j \in 1 .. k
          PROVE  e[k - j + 1] = s[n - j + 1]
      <4>1. k - j + 1 \in 1 .. k /\ n - k + (k - j + 1) = n - j + 1
        BY <1>1
      <4>2. QED
        BY <3>2, <4>1
    <3>3. QED
      BY <3>1, <3>2
  <2>4. QED
    BY <1>3, <1>4, <2>2, <2>3 DEF k, n
<1>5. QED
  BY <1>3, <1>4

(***************************************************************************)
(* A buffer that ends with the end characters, or with the last of them.   *)
(***************************************************************************)
LEMMA EndIs ==
    ASSUME NEW s \in Seq(0 .. 255)
    PROVE  /\ IsSuffix(EndChars, s) <=> /\ Len(s) >= 2
                                        /\ s[Len(s) - 1] = CR /\ s[Len(s)] = LF
           /\ IsSuffix(<<LF>>, s) <=> Len(s) >= 1 /\ s[Len(s)] = LF
PROOF
<1>1. /\ EndChars \in Seq(0 .. 255) /\ Len(EndChars) = 2 /\ EndChars[1] = CR /\ EndChars[2] = LF
      /\ <<LF>> \in Seq(0 .. 255) /\ Len(<<LF>>) = 1 /\ <<LF>>[1] = LF
  BY DEF EndChars, CR, LF
<1>2. Len(s) \in Nat
  OBVIOUS
<1> DEFINE n == Len(s)
           e == EndChars
           l == <<LF>>
<1>3. IsSuffix(e, s) <=> Len(e) <= n /\ \A i \in 1 .. Len(e) : e[i] = s[n - Len(e) + i]
  <2>1. e \in Seq(0 .. 255)
    BY <1>1
  <2>2. QED
    BY <2>1, SuffixIs, Zenon
<1>4. IsSuffix(l, s) <=> Len(l) <= n /\ \A i \in 1 .. Len(l) : l[i] = s[n - Len(l) + i]
  <2>1. l \in Seq(0 .. 255)
    BY <1>1
  <2>2. QED
    BY <2>1, SuffixIs, Zenon
<1> HIDE DEF n, e, l
<1>5. IsSuffix(e, s) <=> n >= 2 /\ s[n - 1] = CR /\ s[n] = LF
  <2>1. Len(e) = 2 /\ e[1] = CR /\ e[2] = LF
    BY <1>1 DEF e
  <2>2. n \in Nat /\ n - 2 + 1 = n - 1 /\ n - 2 + 2 = n /\ 1 .. 2 = {1, 2}
    BY <1>2 DEF n
  <2>3. (\A i \in 1 .. 2 : e[i] = s[n - 2 + i]) <=> e[1] = s[n - 1] /\ e[2] = s[n]
    BY <2>2
  <2>4. QED
    BY <1>3, <2>1, <2>2, <2>3
<1>6. IsSuffix(l, s) <=> n >= 1 /\ s[n] = LF
  <2>1. Len(l) = 1 /\ l[1] = LF
    BY <1>1 DEF l
  <2>2. n \in Nat /\ n - 1 + 1 = n /\ 1 .. 1 = {1}
    BY <1>2 DEF n
  <2>3. (\A i \in 1 .. 1 : l[i] = s[n - 1 + i]) <=> l[1] = s[n]
    BY <2>2
  <2>4. QED
    BY <1>4, <2>1, <2>2, <2>3
<1>7. QED
  BY <1>5, <1>6 DEF n, e, l

-----------------------------------------------------------------------------
(* Letters and cards.                                                      *)

(***************************************************************************)
(* The letters of the seats and of the figures.                            *)
(***************************************************************************)
LEMMA Letters ==
    /\ DOMAIN SeatChar = 0 .. 3
    /\ SeatChar[0] = 78 /\ SeatChar[1] = 69 /\ SeatChar[2] = 83 /\ SeatChar[3] = 87
    /\ DOMAIN FigureChar = 11 .. 14
    /\ FigureChar[11] = 74 /\ FigureChar[12] = 81 /\ FigureChar[13] = 75 /\ FigureChar[14] = 65
PROOF
<1>1. DOMAIN SeatChar = 0 .. 3
  BY DEF SeatChar
<1>2. SeatChar[0] = 78 /\ SeatChar[1] = 69 /\ SeatChar[2] = 83 /\ SeatChar[3] = 87
  BY DEF SeatChar
<1>3. DOMAIN FigureChar = 11 .. 14
  BY DEF FigureChar, J, Q, K, A
<1>4. FigureChar[11] = 74 /\ FigureChar[12] = 81 /\ FigureChar[13] = 75 /\ FigureChar[14] = 65
  BY DEF FigureChar, J, Q, K, A
<1>5. QED
  BY <1>1, <1>2, <1>3, <1>4

(***************************************************************************)
(* The letters of the figures differ, and are no digits.                   *)
(***************************************************************************)
LEMMA FiguresDiffer ==
    /\ \A v \in 11 .. 14 : FigureChar[v] \in {65, 74, 75, 81}
    /\ \A v, w \in 11 .. 14 : FigureChar[v] = FigureChar[w] => v = w
PROOF
<1>1. \A v \in 11 .. 14 : v = 11 \/ v = 12 \/ v = 13 \/ v = 14
  OBVIOUS
<1>2. /\ FigureChar[11] = 74 /\ FigureChar[12] = 81
      /\ FigureChar[13] = 75 /\ FigureChar[14] = 65
  BY Letters
<1>3. ASSUME NEW v \in 11 .. 14 PROVE FigureChar[v] \in {65, 74, 75, 81}
  BY <1>1, <1>2
<1>4. ASSUME NEW v \in 11 .. 14, NEW w \in 11 .. 14, FigureChar[v] = FigureChar[w]
      PROVE  v = w
  BY <1>1, <1>2, <1>4
<1>5. QED
  BY <1>3, <1>4

(***************************************************************************)
(* A seat's letter is read as the seat.                                    *)
(***************************************************************************)
LEMMA SeatReads ==
    ASSUME NEW seat \in 0 .. 3
    PROVE  /\ SeatChar[seat] \in SeatChars /\ SeatOf(SeatChar[seat]) = seat
           /\ SeatChar[seat] \in {78, 69, 83, 87}
PROOF
<1>1. /\ seat \in DOMAIN SeatChar
      /\ \A s \in DOMAIN SeatChar : SeatChar[s] = SeatChar[seat] => s = seat
  BY Letters
<1>2. SeatOf(SeatChar[seat]) = seat
  BY <1>1, Zenon DEF SeatOf
<1>3. SeatChar[seat] \in {78, 69, 83, 87}
  BY Letters
<1>4. QED
  BY <1>1, <1>2, <1>3 DEF SeatChars

(***************************************************************************)
(* What messages are made of: capital letters other than T, and digits.    *)
(***************************************************************************)
Plain == (48 .. 90) \ {84}

(***************************************************************************)
(* What is plain consists of characters.                                   *)
(***************************************************************************)
LEMMA PlainChars == Seq(Plain) \subseteq Seq(0 .. 255)
PROOF
<1> DEFINE P == Plain
           S == 0 .. 255
<1>1. P \subseteq S
  BY DEF Plain
<1> HIDE DEF P, S
<1>2. Seq(P) \subseteq Seq(S)
  BY <1>1, SeqMonotonic
<1>3. QED
  BY <1>2 DEF P, S

(***************************************************************************)
(* A card is written in two characters, a ten in three.                    *)
(***************************************************************************)
LEMMA CardWritten ==
    ASSUME NEW card \in Card
    PROVE  /\ CardChars(card) \in Seq(Plain)
           /\ Len(CardChars(card)) = IF card.value = 10 THEN 3 ELSE 2
           /\ CardChars(card)[Len(CardChars(card))] = card.suit
           /\ card.value < 10 => CardChars(card)[1] = card.value + 48
           /\ card.value = 10 => CardChars(card)[1] = 49 /\ CardChars(card)[2] = 48
           /\ card.value > 10 => CardChars(card)[1] = FigureChar[card.value]
PROOF
<1> DEFINE v == card.value
           t == card.suit
           chars == CardChars(card)
<1>1. v \in 2 .. 14 /\ t \in Plain
  BY DEF Card, A, SuitChars, HEARTS, Plain
<1>2. chars = Append(IF v \in 11 .. 14 THEN <<FigureChar[v]>> ELSE Numeral[v], t)
  BY Letters DEF CardChars
<1> HIDE DEF chars, v, t
<1>3. CASE v \in 11 .. 14
  <2>1. chars = <<FigureChar[v], t>>
    <3>1. chars = Append(<<FigureChar[v]>>, t)
      BY <1>2, <1>3, Zenon
    <3>2. QED
      BY <3>1, AppendTwo, Zenon
  <2>2. FigureChar[v] \in Plain
    BY <1>3, Letters DEF Plain
  <2>3. v # 10 /\ ~ (v < 10)
    BY <1>3
  <2>4. QED
    BY <1>1, <2>1, <2>2, <2>3 DEF v, t, chars
<1>4. CASE v = 10
  <2>1. chars = <<49, 48, t>>
    <3>1. v \notin 11 .. 14 /\ v \in Nat /\ v \in 10 .. 99 /\ v \div 10 = 1 /\ v % 10 = 0
      BY <1>4
    <3>2. Numeral[v] = <<(v \div 10) + 48, (v % 10) + 48>>
      BY <3>1, ShortNumerals, Zenon
    <3>3. (v \div 10) + 48 = 49 /\ (v % 10) + 48 = 48
      BY <3>1
    <3>4. chars = Append(<<49, 48>>, t)
      BY <1>2, <3>1, <3>2, <3>3, Zenon
    <3>5. QED
      BY <3>4, AppendThree, Zenon
  <2>2. ~ (v < 10) /\ ~ (v > 10) /\ 49 \in Plain /\ 48 \in Plain
    BY <1>4 DEF Plain
  <2>3. QED
    BY <1>1, <1>4, <2>1, <2>2 DEF v, t, chars
<1>5. CASE v < 10
  <2>1. chars = <<v + 48, t>>
    <3>1. v \notin 11 .. 14 /\ v \in Nat
      BY <1>1, <1>5
    <3>2. Numeral[v] = <<v + 48>>
      BY <1>5, <3>1, ShortNumerals, Zenon
    <3>3. chars = Append(<<v + 48>>, t)
      BY <1>2, <3>1, <3>2, Zenon
    <3>4. QED
      BY <3>3, AppendTwo, Zenon
  <2>2. v # 10 /\ ~ (v > 10) /\ v + 48 \in Plain
    BY <1>1, <1>5 DEF Plain
  <2>3. QED
    BY <1>1, <1>5, <2>1, <2>2 DEF v, t, chars
<1>6. QED
  BY <1>1, <1>3, <1>4, <1>5

(***************************************************************************)
(* Where the text of a card stands in a buffer, that card is read.         *)
(***************************************************************************)
StandsAt(buff, i, text) ==
    /\ i >= 1 /\ i + Len(text) - 1 <= Len(buff)
    /\ \A j \in 1 .. Len(text) : buff[i + j - 1] = text[j]

(***************************************************************************)
(* A card is read where its text stands.                                   *)
(***************************************************************************)
LEMMA CardReads ==
    ASSUME NEW buff \in Seq(0 .. 255), NEW card \in Card, NEW i \in Nat,
           StandsAt(buff, i, CardChars(card))
    PROVE  /\ CardWidth(buff, i) = Len(CardChars(card))
           /\ CardAt(buff, i) = card
           /\ IsCard(card)
PROOF
<1> DEFINE v == card.value
           t == card.suit
           chars == CardChars(card)
           len == Len(chars)
<1>1. /\ v \in 2 .. 14 /\ t \in SuitChars /\ card = [suit |-> t, value |-> v]
  BY DEF Card, A
<1>2. /\ len = IF v = 10 THEN 3 ELSE 2
      /\ chars[len] = t
      /\ v < 10 => chars[1] = v + 48
      /\ v = 10 => chars[1] = 49 /\ chars[2] = 48
      /\ v > 10 => chars[1] = FigureChar[v]
  BY CardWritten
<1> HIDE DEF v, t, chars
<1> HIDE DEF len
<1>4. len \in {2, 3} /\ Len(buff) \in Nat /\ DOMAIN buff = 1 .. Len(buff)
  BY <1>2
<1>3. /\ i \in 1 .. Len(buff) /\ i + len - 1 \in 1 .. Len(buff)
      /\ \A j \in 1 .. len : buff[i + j - 1] = chars[j]
  <2>1. /\ i >= 1 /\ i + len - 1 <= Len(buff)
        /\ \A j \in 1 .. len : buff[i + j - 1] = chars[j]
    BY DEF StandsAt, chars, len
  <2>2. QED
    BY <1>4, <2>1
<1>5. /\ buff[i] = chars[1] /\ buff[i + 1] = chars[2] /\ buff[i + len - 1] = t
      /\ i \in DOMAIN buff /\ i + 1 \in DOMAIN buff /\ i + len - 1 \in DOMAIN buff
  <2>1. 1 \in 1 .. len /\ 2 \in 1 .. len /\ len \in 1 .. len /\ i + 1 - 1 = i /\ i + 2 - 1 = i + 1
    BY <1>4
  <2>2. buff[i + 1 - 1] = chars[1] /\ buff[i + 2 - 1] = chars[2] /\ buff[i + len - 1] = chars[len]
    BY <1>3, <2>1
  <2>3. i + 1 \in 1 .. Len(buff)
    BY <1>3, <1>4
  <2>4. QED
    BY <1>2, <1>3, <1>4, <2>1, <2>2, <2>3
<1>6. /\ CharAt(buff, i) = chars[1] /\ CharAt(buff, i + 1) = chars[2]
      /\ CharAt(buff, i + len - 1) = t
  BY <1>5 DEF CharAt
<1>7. chars[1] = 49 <=> v = 10
  <2>1. CASE v < 10
    BY <1>1, <1>2, <2>1
  <2>2. CASE v = 10
    BY <1>2, <2>2
  <2>3. CASE v > 10
    <3>1. v \in 11 .. 14 /\ chars[1] = FigureChar[v]
      BY <1>1, <1>2, <2>3
    <3>2. QED
      BY <2>3, <3>1, FiguresDiffer
  <2>4. QED
    BY <1>1, <2>1, <2>2, <2>3
<1>8. CardWidth(buff, i) = len
  <2>1. CardWidth(buff, i) = IF v = 10 THEN 3 ELSE 2
    BY <1>6, <1>7, Zenon DEF CardWidth
  <2>2. QED
    BY <1>2, <2>1, Zenon
<1>9. Value(buff, i) = v
  <2>1. CASE v = 10
    <3>1. CharAt(buff, i) = 49 /\ CharAt(buff, i + 1) = 48
      BY <1>2, <1>6, <2>1, Zenon
    <3>2. QED
      BY <2>1, <3>1, Zenon DEF Value
  <2>2. CASE v < 10
    <3>1. chars[1] \in Digits \ {48} /\ chars[1] # 49 /\ DigitOf(chars[1]) = v
      <4>1. v \in 2 .. 9 /\ chars[1] = v + 48
        BY <1>1, <1>2, <2>2
      <4>2. QED
        BY <4>1 DEF Digits, DigitOf
    <3>2. QED
      BY <1>6, <3>1 DEF Value
  <2>3. CASE v > 10
    <3> DEFINE char == CharAt(buff, i)
    <3>1. v \in {11, 12, 13, 14} /\ char = FigureChar[v]
      BY <1>1, <1>2, <1>6, <2>3
    <3>2. char # 49 /\ char \notin Digits \ {48}
      <4> HIDE DEF char
      <4>1. v \in 11 .. 14
        BY <3>1
      <4>2. char \in {65, 74, 75, 81}
        BY <3>1, <4>1, FiguresDiffer, Zenon
      <4>3. QED
        BY <4>2 DEF Digits
    <3>3. v \in J .. A /\ \A w \in J .. A : FigureChar[w] = char => w = v
      <4>1. J .. A = 11 .. 14 /\ v \in 11 .. 14
        BY <3>1 DEF J, A
      <4>2. \A w \in 11 .. 14 : FigureChar[w] = FigureChar[v] => w = v
        BY <4>1, FiguresDiffer, Zenon
      <4>3. char = FigureChar[v]
        BY <3>1, Zenon
      <4> HIDE DEF char
      <4>4. QED
        BY <4>1, <4>2, <4>3, Zenon
    <3>4. (CHOOSE w \in J .. A : FigureChar[w] = char) = v
      BY <3>1, <3>3, Zenon
    <3>5. \E w \in J .. A : FigureChar[w] = char
      BY <3>1, <3>3, Zenon
    <3>6. Value(buff, i) = CHOOSE w \in J .. A : FigureChar[w] = char
      BY <3>2, <3>5, Zenon DEF Value
    <3>7. QED
      BY <3>4, <3>6, Zenon
  <2>4. QED
    BY <1>1, <2>1, <2>2, <2>3
<1>10. CardAt(buff, i) = card
  BY <1>1, <1>6, <1>8, <1>9, Zenon DEF CardAt
<1>11. IsCard(card)
  BY <1>1 DEF IsCard, v, t
<1>12. QED
  BY <1>8, <1>10, <1>11 DEF len, chars

(***************************************************************************)
(* The positions at which the loop over the cards looks.                   *)
(***************************************************************************)
StartsFrom(buff, first, n, start) ==
    start = [k \in 1 .. n |-> IF k = 1 THEN first
                              ELSE start[k - 1] + CardWidth(buff, start[k - 1])]

(***************************************************************************)
(* There are such positions.                                               *)
(***************************************************************************)
LEMMA StartsExist ==
    ASSUME NEW buff, NEW first, NEW n \in Nat
    PROVE  \E start : StartsFrom(buff, first, n, start)
PROOF
<1> DEFINE Step(f, k) == IF k = 1 THEN first ELSE f[k - 1] + CardWidth(buff, f[k - 1])
           Good(m, f) == \A k \in 1 .. m : f[k] = Step(f, k)
           good == {m \in Nat : \E f : Good(m, f)}
<1>1. 0 \in good
  <2>1. Good(0, << >>)
    OBVIOUS
  <2> HIDE DEF Good
  <2>2. QED
    BY <2>1
<1>2. ASSUME NEW m \in 0 .. n - 1, m \in good PROVE m + 1 \in good
  <2>1. PICK f : Good(m, f)
    BY <1>2
  <2> DEFINE last == Step(f, m + 1)
             g == [k \in 1 .. m + 1 |-> IF k = m + 1 THEN last ELSE f[k]]
  <2>2. ASSUME NEW k \in 1 .. m + 1 PROVE g[k] = Step(g, k)
    <3>1. k # 1 => k - 1 \in 1 .. m + 1 /\ k - 1 # m + 1
      OBVIOUS
    <3>2. Step(g, k) = Step(f, k)
      <4> HIDE DEF last
      <4>1. QED
        BY <3>1
    <3>3. CASE k = m + 1
      <4>1. g[k] = last
        <5> HIDE DEF last
        <5>1. QED
          BY <3>3
      <4>2. QED
        BY <3>2, <3>3, <4>1
    <3>4. CASE k # m + 1
      <4>1. k \in 1 .. m
        BY <3>4
      <4>2. g[k] = f[k]
        <5> HIDE DEF last
        <5>1. QED
          BY <3>4
      <4> HIDE DEF g, Step
      <4>3. QED
        BY <2>1, <3>2, <4>1, <4>2
    <3>5. QED
      BY <3>3, <3>4
  <2> HIDE DEF g
  <2>3. Good(m + 1, g)
    BY <2>2
  <2>4. m + 1 \in Nat
    OBVIOUS
  <2> HIDE DEF Good
  <2>5. QED
    BY <2>3, <2>4
<1> HIDE DEF good
<1>3. 0 .. n \subseteq good
  BY <1>1, <1>2, UpTo
<1>4. \E f : Good(n, f)
  BY <1>3 DEF good
<1>5. PICK f : Good(n, f)
  BY <1>4
<1> DEFINE start == [k \in 1 .. n |-> f[k]]
<1>6. ASSUME NEW k \in 1 .. n PROVE start[k] = Step(start, k)
  <2>1. k # 1 => k - 1 \in 1 .. n
    OBVIOUS
  <2>2. Step(start, k) = Step(f, k)
    BY <2>1
  <2> HIDE DEF Step
  <2>3. start[k] = f[k]
    OBVIOUS
  <2>4. QED
    BY <1>5, <2>2, <2>3
<1>7. start = [k \in 1 .. n |-> start[k]]
  OBVIOUS
<1> HIDE DEF start
<1>8. StartsFrom(buff, first, n, start)
  BY <1>6, <1>7 DEF StartsFrom
<1>9. QED
  BY <1>8

(***************************************************************************)
(* Where the texts of some cards stand in a buffer one behind the other.   *)
(***************************************************************************)
CardsStandAt(buff, cards, pos) ==
    /\ pos \in [1 .. Len(cards) + 1 -> Nat]
    /\ \A k \in 1 .. Len(cards) :
            /\ pos[k + 1] = pos[k] + Len(CardChars(cards[k]))
            /\ StandsAt(buff, pos[k], CardChars(cards[k]))

(***************************************************************************)
(* The loop reads those cards, and stops behind them, if it is not to go   *)
(* on where they end but still at the last of them.                        *)
(***************************************************************************)
LEMMA CardsRead ==
    ASSUME NEW buff \in Seq(0 .. 255), NEW cards \in Seq(Card), NEW pos,
           CardsStandAt(buff, cards, pos),
           NEW last \in Int, NEW most \in Nat, Len(cards) <= most,
           pos[Len(cards) + 1] - 2 <= last, last < pos[Len(cards) + 1]
    PROVE  /\ CardsIn(buff, pos[1], last, most).cards = cards
           /\ CardsIn(buff, pos[1], last, most).next = pos[Len(cards) + 1]
           /\ AllCards(cards)
PROOF
<1> DEFINE n == Len(cards)
           first == pos[1]
           Pass(f) == f = [k \in 1 .. most + 1 |->
                             IF k = 1 THEN first ELSE f[k - 1] + CardWidth(buff, f[k - 1])]
           start == CHOOSE f : Pass(f)
           count == Cardinality({k \in 1 .. most : start[k] <= last})
<1>1. CardsIn(buff, first, last, most) =
        [cards |-> [k \in 1 .. count |-> CardAt(buff, start[k])], next |-> start[count + 1]]
  BY DEF CardsIn
<1>2. n \in Nat /\ DOMAIN cards = 1 .. n /\ (\A k \in 1 .. n : cards[k] \in Card)
      /\ cards = [k \in 1 .. n |-> cards[k]]
  OBVIOUS
<1> HIDE DEF n
<1>3. ASSUME NEW k \in 1 .. n
      PROVE  /\ Len(CardChars(cards[k])) \in {2, 3}
             /\ CardWidth(buff, pos[k]) = Len(CardChars(cards[k]))
             /\ CardAt(buff, pos[k]) = cards[k]
             /\ IsCard(cards[k])
             /\ pos[k] \in Nat /\ pos[k + 1] \in Nat
             /\ pos[k + 1] = pos[k] + Len(CardChars(cards[k]))
             /\ pos[k + 1] >= pos[k] + 2
  <2>1. k \in 1 .. n + 1 /\ k + 1 \in 1 .. n + 1
    BY <1>2
  <2>2. /\ pos[k] \in Nat /\ pos[k + 1] \in Nat
        /\ pos[k + 1] = pos[k] + Len(CardChars(cards[k]))
        /\ StandsAt(buff, pos[k], CardChars(cards[k]))
    BY <2>1 DEF CardsStandAt, n
  <2>3. cards[k] \in Card
    BY <1>2
  <2>4. Len(CardChars(cards[k])) \in {2, 3}
    BY <2>3, CardWritten
  <2>5. pos[k + 1] >= pos[k] + 2
    <3> DEFINE here == pos[k]
               next == pos[k + 1]
               width == Len(CardChars(cards[k]))
    <3>1. here \in Nat /\ next = here + width /\ width \in {2, 3}
      BY <2>2, <2>4
    <3> HIDE DEF here, next, width
    <3>2. next >= here + 2
      BY <3>1
    <3>3. QED
      BY <3>2 DEF here, next
  <2>6. QED
    BY <2>2, <2>3, <2>4, <2>5, CardReads
<1>4. Pass(start)
  <2>1. most + 1 \in Nat
    OBVIOUS
  <2>2. \E f : Pass(f)
    <3> HIDE DEF first
    <3>1. PICK f : StartsFrom(buff, first, most + 1, f)
      BY <2>1, StartsExist
    <3>2. Pass(f)
      BY <3>1 DEF StartsFrom
    <3> HIDE DEF Pass
    <3>3. QED
      BY <3>2
  <2> HIDE DEF Pass
  <2>3. QED
    BY <2>2
<1> HIDE DEF start
<1>5. /\ start[1] = first
      /\ \A k \in 1 .. most : start[k + 1] = start[k] + CardWidth(buff, start[k])
  <2>1. 1 \in 1 .. most + 1
    OBVIOUS
  <2>2. \A k \in 1 .. most : k + 1 \in 1 .. most + 1 /\ k + 1 # 1 /\ k + 1 - 1 = k
    OBVIOUS
  <2>3. QED
    BY <1>4, <2>1, <2>2
<1> HIDE DEF Pass, count
<1>6. \A k \in 1 .. n + 1 : start[k] = pos[k]
  <2> DEFINE same == {k \in 1 .. n + 1 : start[k] = pos[k]}
  <2>1. 1 \in same
    BY <1>2, <1>5
  <2>2. ASSUME NEW k \in 1 .. n, k \in same PROVE k + 1 \in same
    <3>1. k + 1 \in 1 .. n + 1 /\ k \in 1 .. most
      BY <1>2 DEF n
    <3>2. start[k + 1] = start[k] + CardWidth(buff, start[k])
      BY <1>5, <3>1
    <3>3. QED
      BY <1>3, <2>2, <3>1, <3>2
  <2> HIDE DEF same
  <2>3. n + 1 \in Nat /\ 1 \in Nat /\ \A k \in 1 .. (n + 1) - 1 : k \in 1 .. n
    BY <1>2
  <2>4. \A k \in 1 .. (n + 1) - 1 : k \in same => k + 1 \in same
    BY <2>2, <2>3
  <2>5. 1 .. n + 1 \subseteq same
    BY <2>1, <2>3, <2>4, UpTo
  <2>6. QED
    BY <2>5 DEF same
<1>7. ASSUME NEW k \in 1 .. n PROVE start[k] <= last
  <2> DEFINE later == {j \in k + 1 .. n + 1 : pos[j] >= pos[k] + 2 /\ pos[j] \in Nat}
  <2>1. k + 1 \in later
    <3>1. k + 1 \in k + 1 .. n + 1
      BY <1>2
    <3>2. pos[k + 1] >= pos[k] + 2
      BY <1>3
    <3>3. QED
      BY <1>3, <3>1, <3>2
  <2>2. ASSUME NEW j \in k + 1 .. n, j \in later PROVE j + 1 \in later
    <3>1. j \in 1 .. n /\ j + 1 \in k + 1 .. n + 1
      BY <1>2
    <3>2. pos[j + 1] >= pos[j] /\ pos[j + 1] \in Nat /\ pos[j] >= pos[k] + 2
      <4>1. \A x, y \in Nat : x >= y + 2 => x >= y
        OBVIOUS
      <4>2. pos[j + 1] \in Nat /\ pos[j] \in Nat /\ pos[j + 1] >= pos[j] + 2
        BY <1>3, <3>1
      <4>3. QED
        BY <2>2, <4>1, <4>2, Zenon
    <3>3. pos[j + 1] >= pos[k] + 2
      <4>1. \A x, y, z \in Nat : x >= y /\ y >= z + 2 => x >= z + 2
        OBVIOUS
      <4>2. pos[j + 1] \in Nat /\ pos[j] \in Nat /\ pos[k] \in Nat
        BY <1>3, <3>1
      <4>3. QED
        BY <3>2, <4>1, <4>2, Zenon
    <3>4. QED
      BY <3>1, <3>2, <3>3
  <2> HIDE DEF later
  <2>3. k + 1 \in Nat /\ n + 1 \in Nat /\ \A j \in k + 1 .. (n + 1) - 1 : j \in k + 1 .. n
    BY <1>2
  <2>4. k + 1 .. n + 1 \subseteq later
    <3>1. \A j \in k + 1 .. (n + 1) - 1 : j \in later => j + 1 \in later
      BY <2>2, <2>3
    <3>2. QED
      BY <2>1, <2>3, <3>1, UpTo
  <2>5. n + 1 \in k + 1 .. n + 1
    BY <1>2
  <2>6. pos[n + 1] >= pos[k] + 2 /\ pos[n + 1] \in Nat
    BY <2>4, <2>5 DEF later
  <2>7. start[k] = pos[k] /\ pos[k] \in Nat
    BY <1>2, <1>3, <1>6
  <2>8. pos[n + 1] - 2 <= last
    BY DEF n
  <2>9. QED
    BY <2>6, <2>7, <2>8
<1>8. ASSUME NEW k \in n + 1 .. most PROVE ~ (start[k] <= last)
  <2> DEFINE later == {j \in n + 1 .. most : start[j] \in Nat /\ start[j] >= pos[n + 1]}
  <2>1. n + 1 \in Nat /\ n + 1 <= most /\ n + 1 \in 1 .. n + 1
    BY <1>2
  <2>2. pos[n + 1] \in Nat
    BY <2>1 DEF CardsStandAt, n
  <2>3. n + 1 \in later
    BY <1>6, <2>1, <2>2
  <2>4. ASSUME NEW j \in n + 1 .. most - 1, j \in later PROVE j + 1 \in later
    <3>1. start[j + 1] = start[j] + CardWidth(buff, start[j])
      BY <1>2, <1>5
    <3>2. CardWidth(buff, start[j]) \in {2, 3}
      BY DEF CardWidth
    <3>3. \A a, b \in Nat : \A w \in {2, 3} : a >= b => a + w \in Nat /\ a + w >= b
      OBVIOUS
    <3>4. start[j] \in Nat /\ start[j] >= pos[n + 1]
      BY <2>4
    <3>5. start[j + 1] \in Nat /\ start[j + 1] >= pos[n + 1]
      BY <2>2, <3>1, <3>2, <3>3, <3>4, Zenon
    <3>6. j + 1 \in n + 1 .. most
      BY <2>1
    <3>7. QED
      BY <3>5, <3>6, Zenon
  <2> HIDE DEF later
  <2>5. n + 1 .. most \subseteq later
    BY <2>1, <2>3, <2>4, UpTo
  <2>6. start[k] \in Nat /\ start[k] >= pos[n + 1]
    BY <2>5 DEF later
  <2>7. last < pos[n + 1]
    BY DEF n
  <2>8. QED
    BY <2>2, <2>6, <2>7
<1>9. count = n
  <2>1. {k \in 1 .. most : start[k] <= last} = 1 .. n
    <3>1. n <= most
      BY DEF n
    <3>2. \A k \in 1 .. most : k \in 1 .. n \/ k \in n + 1 .. most
      BY <1>2
    <3>3. QED
      BY <1>2, <1>7, <1>8, <3>1, <3>2
  <2>2. Cardinality(1 .. n) = n
    <3>1. 1 \in Int /\ n \in Int
      BY <1>2
    <3>2. Cardinality(1 .. n) = IF 1 > n THEN 0 ELSE n - 1 + 1
      BY <3>1, FS_Interval, Zenon
    <3>3. QED
      BY <1>2, <3>2
  <2>3. QED
    BY <2>1, <2>2 DEF count
<1>10. [k \in 1 .. count |-> CardAt(buff, start[k])] = cards
  <2>1. \A k \in 1 .. n : k \in 1 .. n + 1
    BY <1>2
  <2>2. \A k \in 1 .. n : CardAt(buff, start[k]) = cards[k]
    BY <1>3, <1>6, <2>1, Zenon
  <2>3. [k \in 1 .. n |-> CardAt(buff, start[k])] = [k \in 1 .. n |-> cards[k]]
    BY <2>2
  <2>4. QED
    BY <1>2, <1>9, <2>3, Zenon
<1>11. start[count + 1] = pos[n + 1]
  BY <1>2, <1>6, <1>9
<1>12. AllCards(cards)
  BY <1>2, <1>3 DEF AllCards
<1>13. QED
  BY <1>1, <1>10, <1>11, <1>12 DEF n

(***************************************************************************)
(* The texts of the cards, one by one.                                     *)
(***************************************************************************)
CardTexts(cards) == [i \in DOMAIN cards |-> CardChars(cards[i])]

(***************************************************************************)
(* The texts of cards are plain, two or three characters each.             *)
(***************************************************************************)
LEMMA CardTextsAre ==
    ASSUME NEW cards \in Seq(Card)
    PROVE  /\ CardTexts(cards) \in Seq(Seq(Plain)) /\ Len(CardTexts(cards)) = Len(cards)
           /\ \A k \in 1 .. Len(cards) : CardTexts(cards)[k] = CardChars(cards[k])
           /\ CardsChars(cards) = FlattenSeq(CardTexts(cards))
           /\ CardsChars(cards) \in Seq(Plain)
PROOF
<1> DEFINE n == Len(cards)
           texts == [i \in 1 .. n |-> CardChars(cards[i])]
<1>1. n \in Nat /\ DOMAIN cards = 1 .. n /\ \A k \in 1 .. n : cards[k] \in Card
  OBVIOUS
<1>2. \A k \in 1 .. n : CardChars(cards[k]) \in Seq(Plain)
  BY <1>1, CardWritten
<1> HIDE DEF n
<1>3. texts \in [1 .. n -> Seq(Plain)] /\ DOMAIN texts = 1 .. n
  BY <1>2
<1>4. texts \in Seq(Seq(Plain))
  <2> HIDE DEF texts
  <2>1. QED
    BY <1>1, <1>3
<1>5. Len(texts) = n
  <2> HIDE DEF texts
  <2>1. DOMAIN texts = 1 .. Len(texts) /\ Len(texts) \in Nat
    BY <1>4, LenProperties
  <2>2. QED
    BY <1>1, <1>3, <2>1
<1>6. CardTexts(cards) = texts
  BY <1>1, Zenon DEF CardTexts
<1>7. CardsChars(cards) = FlattenSeq(CardTexts(cards))
  BY Zenon DEF CardsChars, CardTexts
<1>8. \A k \in 1 .. n : texts[k] = CardChars(cards[k])
  OBVIOUS
<1> HIDE DEF texts
<1>9. FlattenSeq(texts) \in Seq(Plain)
  <2>1. 0 \in 0 .. Len(texts)
    BY <1>1, <1>5
  <2>2. QED
    BY <1>4, <2>1, FlattenPrefix
<1>10. QED
  BY <1>4, <1>5, <1>6, <1>7, <1>8, <1>9, Zenon DEF n

(***************************************************************************)
(* Where the text of some cards stands in a buffer, each of them does.     *)
(***************************************************************************)
LEMMA CardsStand ==
    ASSUME NEW buff \in Seq(0 .. 255), NEW cards \in Seq(Card), NEW first \in Nat,
           StandsAt(buff, first, CardsChars(cards))
    PROVE  \E pos : /\ CardsStandAt(buff, cards, pos)
                    /\ pos[1] = first
                    /\ pos[Len(cards) + 1] = first + Len(CardsChars(cards))
PROOF
<1> DEFINE n == Len(cards)
           texts == CardTexts(cards)
           all == CardsChars(cards)
           upto(k) == Len(FlattenSeq(SubSeq(texts, 1, k)))
           pos == [k \in 1 .. n + 1 |-> first + upto(k - 1)]
<1>1. n \in Nat
  OBVIOUS
<1>2. /\ texts \in Seq(Seq(Plain)) /\ Len(texts) = n
      /\ \A k \in 1 .. n : texts[k] = CardChars(cards[k])
      /\ all = FlattenSeq(texts)
      /\ all \in Seq(Plain)
  BY CardTextsAre
<1> HIDE DEF texts, all
<1>3. ASSUME NEW k \in 1 .. n
      PROVE  /\ upto(k - 1) \in Nat
             /\ upto(k) = upto(k - 1) + Len(CardChars(cards[k]))
             /\ upto(k) <= Len(all)
             /\ \A j \in 1 .. Len(CardChars(cards[k])) : all[upto(k - 1) + j] = CardChars(cards[k])[j]
  <2>1. k \in 1 .. Len(texts) /\ texts[k] = CardChars(cards[k])
    BY <1>2
  <2> DEFINE part == texts[k]
  <2>2. /\ upto(k - 1) \in Nat
        /\ upto(k) = upto(k - 1) + Len(part)
        /\ upto(k) <= Len(all)
        /\ \A j \in 1 .. Len(part) : all[upto(k - 1) + j] = part[j]
    BY <1>2, <2>1, FlattenPart
  <2> HIDE DEF upto
  <2>3. QED
    BY <2>1, <2>2, Zenon
<1>4. upto(0) = 0
  <2>1. SubSeq(texts, 1, 0) = << >>
    BY SubSeqEmpty
  <2>2. FlattenSeq(<< >>) = << >> /\ Len(<< >>) = 0
    BY DEF FlattenSeq
  <2>3. QED
    BY <2>1, <2>2, Zenon
<1>5. upto(n) = Len(all) /\ upto(n) \in Nat
  <2>1. SubSeq(texts, 1, n) = texts
    BY <1>2, SubSeqFull
  <2>2. Len(all) \in Nat
    BY <1>2
  <2>3. QED
    BY <1>2, <2>1, <2>2, Zenon
<1> HIDE DEF upto
<1>6. \A k \in 1 .. n + 1 : upto(k - 1) \in Nat
  <2> TAKE k \in 1 .. n + 1
  <2>1. CASE k = n + 1
    <3>1. k - 1 = n
      BY <1>1, <2>1
    <3>2. QED
      BY <1>5, <3>1
  <2>2. CASE k # n + 1
    <3>1. k \in 1 .. n
      BY <1>1, <2>2
    <3>2. QED
      BY <1>3, <3>1
  <2>3. QED
    BY <2>1, <2>2
<1>7. pos \in [1 .. n + 1 -> Nat]
  BY <1>6
<1>8. ASSUME NEW k \in 1 .. n
      PROVE  /\ pos[k + 1] = pos[k] + Len(CardChars(cards[k]))
             /\ StandsAt(buff, pos[k], CardChars(cards[k]))
  <2> DEFINE chars == CardChars(cards[k])
             len == Len(chars)
             u == upto(k - 1)
  <2>1. k \in 1 .. n + 1 /\ k + 1 \in 1 .. n + 1 /\ (k + 1) - 1 = k
    BY <1>1
  <2>2. pos[k] = first + u /\ pos[k + 1] = first + upto(k)
    BY <2>1
  <2>3. len \in Nat
    <3>1. cards[k] \in Card
      OBVIOUS
    <3>2. chars \in Seq(Plain)
      BY <3>1, CardWritten
    <3> HIDE DEF chars
    <3>3. QED
      BY <3>2
  <2>4. /\ u \in Nat /\ upto(k) = u + len /\ u + len <= Len(all)
        /\ \A j \in 1 .. len : all[u + j] = chars[j]
    BY <1>3
  <2>5. /\ first >= 1 /\ first + Len(all) - 1 <= Len(buff)
        /\ \A j \in 1 .. Len(all) : buff[first + j - 1] = all[j]
    BY DEF StandsAt, all
  <2> HIDE DEF len, chars, u
  <2>6. Len(all) \in Nat /\ Len(buff) \in Nat
    BY <1>2
  <2>7. ASSUME NEW j \in 1 .. len PROVE buff[first + u + j - 1] = chars[j]
    <3>1. u + j \in 1 .. Len(all) /\ first + (u + j) - 1 = first + u + j - 1
      BY <2>3, <2>4, <2>6
    <3>2. QED
      BY <2>4, <2>5, <3>1
  <2>8. first + u >= 1 /\ first + u + len - 1 <= Len(buff)
    BY <2>3, <2>4, <2>5, <2>6
  <2>9. pos[k + 1] = pos[k] + len
    BY <2>2, <2>3, <2>4
  <2> HIDE DEF pos
  <2>10. StandsAt(buff, pos[k], chars)
    BY <2>2, <2>7, <2>8 DEF StandsAt, len
  <2>11. QED
    BY <2>9, <2>10 DEF len, chars
<1>9. pos[1] = first /\ pos[n + 1] = first + Len(all)
  <2>1. 1 \in 1 .. n + 1 /\ n + 1 \in 1 .. n + 1 /\ 1 - 1 = 0 /\ (n + 1) - 1 = n /\ first + 0 = first
    BY <1>1
  <2>2. pos[1] = first + upto(0) /\ pos[n + 1] = first + upto(n)
    BY <2>1
  <2>3. QED
    BY <1>4, <1>5, <2>1, <2>2
<1> HIDE DEF pos
<1>10. CardsStandAt(buff, cards, pos)
  BY <1>7, <1>8 DEF CardsStandAt
<1>11. QED
  BY <1>9, <1>10 DEF all

(***************************************************************************)
(* The text of some cards has two characters for each of them, and one     *)
(* more for each ten.                                                      *)
(***************************************************************************)
TensIn(cards, n) == {k \in 1 .. n : cards[k].value = 10}

(***************************************************************************)
(* Their length is two for each, and one more for each ten.                *)
(***************************************************************************)
LEMMA CardsLength ==
    ASSUME NEW cards \in Seq(Card)
    PROVE  Len(CardsChars(cards)) = 2 * Len(cards) + Cardinality(TensIn(cards, Len(cards)))
PROOF
<1> DEFINE n == Len(cards)
           texts == CardTexts(cards)
           upto(k) == Len(FlattenSeq(SubSeq(texts, 1, k)))
           tens(k) == Cardinality(TensIn(cards, k))
           good == {k \in 0 .. n : upto(k) = 2 * k + tens(k)}
<1>1. n \in Nat /\ \A k \in 1 .. n : cards[k] \in Card
  OBVIOUS
<1>2. /\ texts \in Seq(Seq(Plain)) /\ Len(texts) = n
      /\ \A k \in 1 .. n : texts[k] = CardChars(cards[k])
      /\ CardsChars(cards) = FlattenSeq(texts)
  BY CardTextsAre
<1> HIDE DEF texts
<1>3. 0 \in good
  <2>1. SubSeq(texts, 1, 0) = << >>
    BY SubSeqEmpty
  <2>2. FlattenSeq(<< >>) = << >> /\ Len(<< >>) = 0
    BY DEF FlattenSeq
  <2>3. upto(0) = 0
    BY <2>1, <2>2, Zenon
  <2>4. TensIn(cards, 0) = {}
    BY DEF TensIn
  <2>5. tens(0) = 0
    BY <2>4, FS_EmptySet
  <2> HIDE DEF upto, tens
  <2>6. QED
    BY <1>1, <2>3, <2>5
<1>4. ASSUME NEW k \in 0 .. n - 1, k \in good PROVE k + 1 \in good
  <2> DEFINE ten == cards[k + 1].value = 10
  <2>1. k + 1 \in 1 .. n /\ (k + 1) - 1 = k /\ k \in Nat /\ k + 1 \in 0 .. n
    BY <1>1
  <2>2. upto(k) \in Nat /\ upto(k + 1) = upto(k) + Len(texts[k + 1])
    <3>1. k + 1 \in 1 .. Len(texts)
      BY <1>2, <2>1
    <3>2. /\ Len(FlattenSeq(SubSeq(texts, 1, (k + 1) - 1))) \in Nat
          /\ upto(k + 1) = Len(FlattenSeq(SubSeq(texts, 1, (k + 1) - 1))) + Len(texts[k + 1])
      BY <1>2, <3>1, FlattenPart
    <3>3. QED
      BY <2>1, <3>2, Zenon
  <2>3. Len(texts[k + 1]) = IF ten THEN 3 ELSE 2
    <3>1. cards[k + 1] \in Card
      BY <1>1, <2>1
    <3>2. Len(CardChars(cards[k + 1])) = IF ten THEN 3 ELSE 2
      BY <3>1, CardWritten, Zenon
    <3>3. texts[k + 1] = CardChars(cards[k + 1])
      BY <1>2, <2>1
    <3>4. QED
      BY <3>2, <3>3, Zenon
  <2>4. IsFiniteSet(TensIn(cards, k)) /\ tens(k) \in Nat
    <3>1. IsFiniteSet(1 .. k)
      BY <2>1, FS_Interval
    <3>2. TensIn(cards, k) \subseteq 1 .. k
      BY DEF TensIn
    <3>3. QED
      BY <3>1, <3>2, FS_Subset, FS_CardinalityType
  <2>5. tens(k + 1) = tens(k) + IF ten THEN 1 ELSE 0
    <3>1. CASE ten
      <4>1. TensIn(cards, k + 1) = TensIn(cards, k) \cup {k + 1} /\ k + 1 \notin TensIn(cards, k)
        BY <2>1, <3>1 DEF TensIn
      <4>2. QED
        BY <2>4, <3>1, <4>1, FS_AddElement
    <3>2. CASE ~ ten
      <4>1. TensIn(cards, k + 1) = TensIn(cards, k)
        BY <2>1, <3>2 DEF TensIn
      <4>2. QED
        BY <2>4, <3>2, <4>1
    <3>3. QED
      BY <3>1, <3>2
  <2> HIDE DEF upto, tens, ten
  <2>6. upto(k + 1) = 2 * (k + 1) + tens(k + 1)
    BY <1>4, <2>1, <2>2, <2>3, <2>4, <2>5
  <2>7. QED
    BY <2>1, <2>6
<1> HIDE DEF good
<1>5. 0 .. n \subseteq good
  BY <1>1, <1>3, <1>4, UpTo
<1>6. upto(n) = 2 * n + tens(n)
  <2>1. n \in 0 .. n
    BY <1>1
  <2>2. QED
    BY <1>5, <2>1 DEF good
<1>7. SubSeq(texts, 1, n) = texts
  BY <1>2, SubSeqFull
<1>8. QED
  BY <1>2, <1>6, <1>7

(***************************************************************************)
(* There are no more tens than cards.                                      *)
(***************************************************************************)
LEMMA FewTens ==
    ASSUME NEW cards \in Seq(Card)
    PROVE  Cardinality(TensIn(cards, Len(cards))) \in 0 .. Len(cards)
PROOF
<1>1. TensIn(cards, Len(cards)) \subseteq 1 .. Len(cards) /\ Len(cards) \in Nat
  BY DEF TensIn
<1>2. IsFiniteSet(1 .. Len(cards)) /\ Cardinality(1 .. Len(cards)) = Len(cards)
  <2> DEFINE n == Len(cards)
  <2>1. 1 \in Int /\ n \in Nat /\ n \in Int
    BY <1>1
  <2> HIDE DEF n
  <2>2. IsFiniteSet(1 .. n) /\ Cardinality(1 .. n) = IF 1 > n THEN 0 ELSE n - 1 + 1
    BY <2>1, FS_Interval, Zenon
  <2>3. Cardinality(1 .. n) = n
    BY <2>1, <2>2
  <2>4. QED
    BY <2>2, <2>3 DEF n
<1>3. /\ Cardinality(TensIn(cards, Len(cards))) <= Cardinality(1 .. Len(cards))
      /\ IsFiniteSet(TensIn(cards, Len(cards)))
  BY <1>1, <1>2, FS_Subset
<1>4. Cardinality(TensIn(cards, Len(cards))) \in Nat
  BY <1>3, FS_CardinalityType
<1>5. QED
  BY <1>1, <1>2, <1>3, <1>4

-----------------------------------------------------------------------------
(* Packets.                                                                *)

(***************************************************************************)
(* Where the parts of a text stand in it.                                  *)
(***************************************************************************)
LEMMA TwoParts ==
    ASSUME NEW S, NEW s \in Seq(S), NEW t \in Seq(S)
    PROVE  /\ s \o t \in Seq(S)
           /\ Len(s) \in Nat /\ Len(t) \in Nat /\ Len(s \o t) = Len(s) + Len(t)
           /\ \A i \in 1 .. Len(s) : (s \o t)[i] = s[i]
           /\ \A i \in 1 .. Len(t) : (s \o t)[Len(s) + i] = t[i]
PROOF
<1> DEFINE x == s \o t
           n == Len(s)
           m == Len(t)
<1>1. /\ x \in Seq(S) /\ Len(x) = n + m
      /\ \A i \in 1 .. n + m : x[i] = IF i <= n THEN s[i] ELSE t[i - n]
  BY ConcatProperties
<1>2. n \in Nat /\ m \in Nat
  OBVIOUS
<1> HIDE DEF x, n, m
<1>3. ASSUME NEW i \in 1 .. n PROVE x[i] = s[i]
  BY <1>1, <1>2
<1>4. ASSUME NEW i \in 1 .. m PROVE x[n + i] = t[i]
  <2>1. n + i \in 1 .. n + m /\ ~ (n + i <= n) /\ (n + i) - n = i
    BY <1>2
  <2>2. QED
    BY <1>1, <2>1
<1>5. QED
  BY <1>1, <1>2, <1>3, <1>4 DEF x, n, m

(***************************************************************************)
(* So with three parts.                                                    *)
(***************************************************************************)
LEMMA ThreeParts ==
    ASSUME NEW S, NEW s \in Seq(S), NEW t \in Seq(S), NEW u \in Seq(S)
    PROVE  /\ s \o t \o u \in Seq(S)
           /\ Len(s) \in Nat /\ Len(t) \in Nat /\ Len(u) \in Nat
           /\ Len(s \o t \o u) = Len(s) + Len(t) + Len(u)
           /\ \A i \in 1 .. Len(s) : (s \o t \o u)[i] = s[i]
           /\ \A i \in 1 .. Len(t) : (s \o t \o u)[Len(s) + i] = t[i]
           /\ \A i \in 1 .. Len(u) : (s \o t \o u)[Len(s) + Len(t) + i] = u[i]
PROOF
<1> DEFINE x == s \o t
           n == Len(s)
           m == Len(t)
           k == Len(u)
<1>1. /\ x \in Seq(S) /\ n \in Nat /\ m \in Nat /\ Len(x) = n + m
      /\ \A i \in 1 .. n : x[i] = s[i]
      /\ \A i \in 1 .. m : x[n + i] = t[i]
  BY TwoParts
<1> HIDE DEF x
<1> DEFINE y == x \o u
<1>2. /\ y \in Seq(S) /\ k \in Nat /\ Len(y) = Len(x) + k
      /\ \A i \in 1 .. Len(x) : y[i] = x[i]
      /\ \A i \in 1 .. k : y[Len(x) + i] = u[i]
  <2>1. ASSUME NEW v \in Seq(S)
        PROVE  /\ v \o u \in Seq(S) /\ k \in Nat /\ Len(v \o u) = Len(v) + k
               /\ \A i \in 1 .. Len(v) : (v \o u)[i] = v[i]
               /\ \A i \in 1 .. k : (v \o u)[Len(v) + i] = u[i]
    BY TwoParts
  <2> HIDE DEF k
  <2>2. QED
    BY <1>1, <2>1
<1> HIDE DEF y, n, m, k
<1>3. ASSUME NEW i \in 1 .. n PROVE y[i] = s[i]
  <2>1. i \in 1 .. Len(x)
    BY <1>1
  <2>2. QED
    BY <1>1, <1>2, <2>1
<1>4. ASSUME NEW i \in 1 .. m PROVE y[n + i] = t[i]
  <2>1. n + i \in 1 .. Len(x)
    BY <1>1
  <2>2. QED
    BY <1>1, <1>2, <2>1
<1>5. QED
  BY <1>1, <1>2, <1>3, <1>4 DEF x, y, n, m, k

(***************************************************************************)
(* A buffer that holds a body and the end characters.                      *)
(***************************************************************************)
Holds(buff, body) ==
    /\ buff \in Seq(0 .. 255)
    /\ Len(buff) = Len(body) + 2
    /\ \A i \in 1 .. Len(body) : buff[i] = body[i]
    /\ buff[Len(body) + 1] = CR /\ buff[Len(body) + 2] = LF

(***************************************************************************)
(* The beginning of a sequence.                                            *)
(***************************************************************************)
LEMMA Beginning ==
    ASSUME NEW S, NEW s \in Seq(S), NEW n \in 0 .. Len(s)
    PROVE  /\ SubSeq(s, 1, n) \in Seq(S) /\ Len(SubSeq(s, 1, n)) = n
           /\ \A i \in 1 .. n : SubSeq(s, 1, n)[i] = s[i]
  OBVIOUS

(***************************************************************************)
(* Without its end characters the buffer is the body.                      *)
(***************************************************************************)
LEMMA Trimmed ==
    ASSUME NEW body \in Seq(Plain), NEW buff, Holds(buff, body)
    PROVE  SubSeq(buff, 1, Len(buff) - 2) = body
PROOF
<1> DEFINE n == Len(body)
           chars == SubSeq(buff, 1, n)
<1>1. n \in Nat /\ \A i \in 1 .. n : body[i] \in Plain
  OBVIOUS
<1>2. /\ buff \in Seq(0 .. 255) /\ Len(buff) = n + 2
      /\ \A i \in 1 .. n : buff[i] = body[i]
  BY DEF Holds
<1>3. Len(buff) - 2 = n
  BY <1>1, <1>2
<1> HIDE DEF n
<1>4. chars \in Seq(0 .. 255) /\ Len(chars) = n /\ \A i \in 1 .. n : chars[i] = buff[i]
  <2>1. n \in 0 .. Len(buff)
    BY <1>1, <1>2
  <2>2. QED
    BY <1>2, <2>1, Beginning
<1>5. body \in Seq(0 .. 255)
  BY PlainChars
<1> HIDE DEF chars
<1>6. chars = body
  <2>1. Len(chars) = Len(body) /\ \A i \in 1 .. Len(chars) : chars[i] = body[i]
    BY <1>2, <1>4 DEF n
  <2>2. QED
    BY <1>4, <1>5, <2>1, SeqEqual
<1>7. QED
  BY <1>3, <1>6, Zenon DEF chars

(***************************************************************************)
(* The id of a trick is read as that id by a reader whose own id is as     *)
(* long.                                                                   *)
(***************************************************************************)
AsLong(id, readers_id) == (id >= 10) = (readers_id >= 10)

(***************************************************************************)
(* The text of an id is its digits.                                        *)
(***************************************************************************)
LEMMA IdWritten ==
    ASSUME NEW id \in 1 .. 13
    PROVE  /\ IdChars(id) \in Seq(Plain)
           /\ Len(IdChars(id)) = IF id >= 10 THEN 2 ELSE 1
           /\ id < 10 => IdChars(id)[1] = id + 48
           /\ id >= 10 => IdChars(id)[1] = 49 /\ IdChars(id)[2] = id - 10 + 48
PROOF
<1>1. CASE id < 10
  <2>1. IdChars(id) = <<id + 48>>
    <3>1. id \in Nat
      OBVIOUS
    <3>2. QED
      BY <1>1, <3>1, ShortNumerals, Zenon DEF IdChars
  <2>2. id + 48 \in Plain /\ ~ (id >= 10)
    BY <1>1 DEF Plain
  <2>3. QED
    BY <2>1, <2>2
<1>2. CASE id >= 10
  <2>1. IdChars(id) = <<(id \div 10) + 48, (id % 10) + 48>>
    <3>1. id \in Nat /\ id \in 10 .. 99
      BY <1>2
    <3>2. QED
      BY <3>1, ShortNumerals, Zenon DEF IdChars
  <2>2. (id \div 10) + 48 = 49 /\ (id % 10) + 48 = id - 10 + 48
    BY <1>2
  <2>3. 49 \in Plain /\ id - 10 + 48 \in Plain /\ ~ (id < 10)
    BY <1>2 DEF Plain
  <2>4. IdChars(id) = <<49, id - 10 + 48>>
    BY <2>1, <2>2, Zenon
  <2>5. QED
    BY <1>2, <2>3, <2>4
<1>3. QED
  BY <1>1, <1>2

(***************************************************************************)
(* They are read as the id.                                                *)
(***************************************************************************)
LEMMA IdReads ==
    ASSUME NEW id \in 1 .. 13, NEW readers_id \in Nat, AsLong(id, readers_id), NEW buff,
           \A i \in 1 .. Len(IdChars(id)) : buff[i] = IdChars(id)[i]
    PROVE  /\ IdLength(readers_id) = Len(IdChars(id))
           /\ LewaId(buff, readers_id) = id
           /\ IdInRange(id)
PROOF
<1> DEFINE chars == IdChars(id)
<1>1. /\ Len(chars) = IF id >= 10 THEN 2 ELSE 1
      /\ id < 10 => chars[1] = id + 48
      /\ id >= 10 => chars[1] = 49 /\ chars[2] = id - 10 + 48
  BY IdWritten
<1> HIDE DEF chars
<1>2. \A i \in 1 .. Len(chars) : buff[i] = chars[i]
  BY DEF chars
<1>3. CASE id < 10
  <2>1. readers_id < 10 /\ 1 \in 1 .. Len(chars) /\ Len(chars) = 1
    BY <1>1, <1>3 DEF AsLong
  <2>2. buff[1] = id + 48
    BY <1>1, <1>2, <1>3, <2>1
  <2>3. IdLength(readers_id) = 1
    BY <2>1 DEF IdLength
  <2>4. LewaId(buff, readers_id) = id
    BY <1>3, <2>2, <2>3 DEF LewaId, DigitOf
  <2>5. QED
    BY <2>1, <2>3, <2>4 DEF IdInRange, chars
<1>4. CASE id >= 10
  <2>1. readers_id >= 10 /\ 1 \in 1 .. Len(chars) /\ 2 \in 1 .. Len(chars) /\ Len(chars) = 2
    BY <1>1, <1>4 DEF AsLong
  <2>2. buff[1] = 49 /\ buff[2] = id - 10 + 48
    BY <1>1, <1>2, <1>4, <2>1
  <2>3. IdLength(readers_id) = 2
    BY <2>1 DEF IdLength
  <2>4. LewaId(buff, readers_id) = id
    BY <1>4, <2>2, <2>3 DEF LewaId, DigitOf
  <2>5. QED
    BY <2>1, <2>3, <2>4 DEF IdInRange, chars
<1>5. QED
  BY <1>3, <1>4

-----------------------------------------------------------------------------
(* Reading back what was written.                                          *)

(***************************************************************************)
(* IAM.                                                                    *)
(***************************************************************************)
LEMMA IAMReads ==
    ASSUME NEW m \in IAMs
    PROVE  /\ WriteIAM(m) \in Seq(0 .. 255)
           /\ Len(WriteIAM(m)) = MaxSize.IAM
           /\ \A i \in 1 .. 4 : WriteIAM(m)[i] # LF
           /\ WriteIAM(m)[5] = CR /\ WriteIAM(m)[6] = LF
           /\ ReadIAM(WriteIAM(m)) = m
PROOF
<1> DEFINE text == WriteIAM(m)
           c == SeatChar[m.seat]
<1>1. m.seat \in 0 .. 3 /\ m = [name |-> "IAM", seat |-> m.seat]
  BY DEF IAMs
<1>2. c \in {78, 69, 83, 87} /\ c \in SeatChars /\ SeatOf(c) = m.seat
  BY <1>1, SeatReads
<1> HIDE DEF c
<1>3. /\ <<73, 65, 77>> \in Seq(0 .. 255) /\ <<c>> \in Seq(0 .. 255) /\ <<13, 10>> \in Seq(0 .. 255)
      /\ Len(<<73, 65, 77>>) = 3 /\ Len(<<c>>) = 1 /\ Len(<<13, 10>>) = 2
      /\ <<c>>[1] = c /\ <<13, 10>>[1] = 13 /\ <<13, 10>>[2] = 10
  BY <1>2
<1>4. text = <<73, 65, 77>> \o <<c>> \o <<13, 10>>
  BY DEF WriteIAM, Packet, NameChars, EndChars, CR, LF, c
<1> HIDE DEF text
<1>5. /\ text \in Seq(0 .. 255) /\ Len(text) = 6
      /\ \A i \in 1 .. 3 : text[i] = <<73, 65, 77>>[i]
      /\ text[4] = c /\ text[5] = 13 /\ text[6] = 10
  <2> DEFINE a == <<73, 65, 77>>
             b == <<c>>
             e == <<13, 10>>
  <2>1. a \in Seq(0 .. 255) /\ b \in Seq(0 .. 255) /\ e \in Seq(0 .. 255)
    BY <1>3
  <2>2. Len(a) = 3 /\ Len(b) = 1 /\ Len(e) = 2 /\ b[1] = c /\ e[1] = 13 /\ e[2] = 10
    BY <1>3
  <2>3. text = a \o b \o e
    BY <1>4
  <2> HIDE DEF a, b, e
  <2>4. /\ text \in Seq(0 .. 255) /\ Len(text) = Len(a) + Len(b) + Len(e)
        /\ \A i \in 1 .. Len(a) : text[i] = a[i]
        /\ \A i \in 1 .. Len(b) : text[Len(a) + i] = b[i]
        /\ \A i \in 1 .. Len(e) : text[Len(a) + Len(b) + i] = e[i]
    BY <2>1, <2>3, ThreeParts
  <2>5. /\ \A i \in 1 .. 1 : text[3 + i] = b[i]
        /\ \A i \in 1 .. 2 : text[3 + 1 + i] = e[i]
        /\ \A i \in 1 .. 3 : text[i] = a[i]
        /\ Len(text) = 6
    BY <2>2, <2>4
  <2>6. text[4] = b[1] /\ text[5] = e[1] /\ text[6] = e[2]
    BY <2>5
  <2>7. QED
    BY <2>2, <2>4, <2>5, <2>6 DEF a
<1>6. SubSeq(text, 1, 3) = NameChars.IAM
  <2> DEFINE begin == SubSeq(text, 1, 3)
             a == <<73, 65, 77>>
  <2>1. begin \in Seq(0 .. 255) /\ Len(begin) = 3 /\ \A i \in 1 .. 3 : begin[i] = text[i]
    BY <1>5
  <2>2. a \in Seq(0 .. 255) /\ Len(a) = 3
    BY <1>3
  <2> HIDE DEF begin, a
  <2>3. \A i \in 1 .. Len(begin) : begin[i] = a[i]
    BY <1>5, <2>1 DEF a
  <2>4. begin = a
    BY <2>1, <2>2, <2>3, SeqEqual
  <2>5. QED
    BY <2>4 DEF begin, a, NameChars
<1>7. \A i \in 1 .. 4 : text[i] # LF
  <2>1. text[1] = 73 /\ text[2] = 65 /\ text[3] = 77
    BY <1>5
  <2>2. QED
    BY <1>2, <1>5, <2>1 DEF LF
<1>8. MaxSize.IAM = 6
  BY DEF MaxSize
<1>9. ReadIAM(text) = [name |-> "IAM", seat |-> SeatOf(text[4])]
  BY <1>2, <1>5, <1>6, <1>8 DEF ReadIAM
<1>10. QED
  BY <1>1, <1>2, <1>5, <1>7, <1>8, <1>9 DEF text, CR, LF

(***************************************************************************)
(* BUSY, for any number of seats that are taken.                           *)
(***************************************************************************)
BUSYBody(m) == [i \in DOMAIN m.seats |-> SeatChar[m.seats[i]]]

(***************************************************************************)
(* BUSY, with any list of one to four seats.                               *)
(***************************************************************************)
LEMMA BUSYReads ==
    ASSUME NEW m \in BUSYs
    PROVE  /\ WriteBUSY(m) = Packet("BUSY", BUSYBody(m))
           /\ BUSYBody(m) \in Seq(Plain)
           /\ Len(BUSYBody(m)) + 2 <= MaxSize.BUSY
           /\ \A buff : Holds(buff, BUSYBody(m)) => ReadBUSY(buff) = m
PROOF
<1> DEFINE body == BUSYBody(m)
<1>1. m.seats \in UNION {[1 .. n -> 0 .. 3] : n \in 1 .. 4} /\ m = [name |-> "BUSY", seats |-> m.seats]
  BY DEF BUSYs
<1>2. PICK n \in 1 .. 4 : m.seats \in [1 .. n -> 0 .. 3]
  BY <1>1
<1>3. DOMAIN m.seats = 1 .. n /\ \A i \in 1 .. n : m.seats[i] \in 0 .. 3
  BY <1>2
<1>4. /\ \A i \in 1 .. n : SeatChar[m.seats[i]] \in Plain
      /\ \A i \in 1 .. n : SeatChar[m.seats[i]] \in SeatChars
      /\ \A i \in 1 .. n : SeatOf(SeatChar[m.seats[i]]) = m.seats[i]
  <2>1. \A s \in {78, 69, 83, 87} : s \in Plain
    BY DEF Plain
  <2>2. ASSUME NEW i \in 1 .. n
        PROVE  /\ SeatChar[m.seats[i]] \in {78, 69, 83, 87}
               /\ SeatChar[m.seats[i]] \in SeatChars
               /\ SeatOf(SeatChar[m.seats[i]]) = m.seats[i]
    <3>1. m.seats[i] \in 0 .. 3
      BY <1>3
    <3>2. QED
      BY <3>1, SeatReads, SMT
  <2>3. QED
    BY <2>1, <2>2, SMT
<1>5. body = [i \in 1 .. n |-> SeatChar[m.seats[i]]]
  BY <1>3, Zenon DEF BUSYBody
<1>6. body \in [1 .. n -> Plain] /\ \A i \in 1 .. n : body[i] = SeatChar[m.seats[i]]
  BY <1>4, <1>5
<1> HIDE DEF body
<1>7. body \in Seq(Plain) /\ Len(body) = n
  <2>1. body \in Seq(Plain) /\ n \in Nat
    BY <1>6
  <2>2. DOMAIN body = 1 .. n /\ DOMAIN body = 1 .. Len(body) /\ Len(body) \in Nat
    BY <1>6, <2>1, LenProperties
  <2>3. QED
    BY <2>1, <2>2
<1>8. ASSUME NEW buff, Holds(buff, body) PROVE ReadBUSY(buff) = m
  <2> DEFINE chars == SubSeq(buff, 1, Len(buff) - 2)
  <2>1. chars = body
    BY <1>7, <1>8, Trimmed
  <2> HIDE DEF chars
  <2>2. DOMAIN chars = 1 .. n
    BY <1>6, <2>1
  <2>3. /\ \A i \in 1 .. n : chars[i] \in SeatChars
        /\ \A i \in 1 .. n : SeatOf(chars[i]) = m.seats[i]
    BY <1>4, <1>6, <2>1
  <2>4. Len(buff) >= MinSize.BUSY
    BY <1>7, <1>8 DEF Holds, MinSize
  <2>5. ReadBUSY(buff) = [name |-> "BUSY", seats |-> [i \in DOMAIN chars |-> SeatOf(chars[i])]]
    BY <2>2, <2>3, <2>4, Zenon DEF ReadBUSY, chars
  <2>6. ReadBUSY(buff) = [name |-> "BUSY", seats |-> [i \in 1 .. n |-> SeatOf(chars[i])]]
    BY <2>2, <2>5, Zenon
  <2>7. [i \in 1 .. n |-> SeatOf(chars[i])] = m.seats
    BY <1>2, <2>3
  <2>8. QED
    BY <1>1, <2>6, <2>7, Zenon
<1>9. Len(body) + 2 <= MaxSize.BUSY
  BY <1>7 DEF MaxSize
<1>10. WriteBUSY(m) = Packet("BUSY", body)
  BY DEF WriteBUSY, BUSYBody, body
<1>11. QED
  BY <1>7, <1>8, <1>9, <1>10 DEF body

(***************************************************************************)
(* WRONG, of any trick.                                                    *)
(***************************************************************************)
LEMMA WRONGReads ==
    ASSUME NEW m \in WRONGs
    PROVE  /\ WriteWRONG(m) = Packet("WRONG", IdChars(m.id))
           /\ IdChars(m.id) \in Seq(Plain)
           /\ Len(IdChars(m.id)) + 2 <= MaxSize.WRONG
           /\ \A buff : \A readers_id \in Nat :
                Holds(buff, IdChars(m.id)) /\ AsLong(m.id, readers_id)
                    => ReadWRONG(buff, readers_id) = m
PROOF
<1> DEFINE body == IdChars(m.id)
<1>1. m.id \in 1 .. 13 /\ m = [name |-> "WRONG", id |-> m.id]
  BY DEF WRONGs
<1>2. body \in Seq(Plain) /\ Len(body) = IF m.id >= 10 THEN 2 ELSE 1
  BY <1>1, IdWritten
<1> HIDE DEF body
<1>3. Len(body) + 2 <= MaxSize.WRONG
  BY <1>2 DEF MaxSize
<1>4. ASSUME NEW buff, NEW readers_id \in Nat, Holds(buff, body), AsLong(m.id, readers_id)
      PROVE  ReadWRONG(buff, readers_id) = m
  <2>1. Len(buff) = Len(body) + 2 /\ \A i \in 1 .. Len(body) : buff[i] = body[i]
    BY <1>4 DEF Holds
  <2>2. LewaId(buff, readers_id) = m.id /\ IdInRange(m.id)
    BY <1>1, <1>4, <2>1, IdReads DEF body
  <2>3. Len(buff) >= MinSize.WRONG
    BY <1>2, <2>1 DEF MinSize
  <2>4. QED
    BY <1>1, <2>2, <2>3 DEF ReadWRONG
<1>5. WriteWRONG(m) = Packet("WRONG", body)
  BY DEF WriteWRONG, body
<1>6. QED
  BY <1>2, <1>3, <1>4, <1>5 DEF body

(***************************************************************************)
(* Up to three cards of a TRICK are a sequence.                            *)
(***************************************************************************)
LEMMA TRICKCards ==
    ASSUME NEW m \in TRICKs
    PROVE  /\ m.id \in 1 .. 13 /\ m.cards \in Seq(Card) /\ Len(m.cards) \in 0 .. 3
           /\ m = [name |-> "TRICK", id |-> m.id, cards |-> m.cards]
PROOF
<1>1. /\ m.id \in 1 .. 13 /\ m.cards \in BoundedSeq(Card, 3)
      /\ m = [name |-> "TRICK", id |-> m.id, cards |-> m.cards]
  BY DEF TRICKs
<1> DEFINE cards == m.cards
<1>2. PICK n \in 0 .. 3 : cards \in [1 .. n -> Card]
  BY <1>1 DEF BoundedSeq, SeqOf
<1> HIDE DEF cards
<1>3. cards \in Seq(Card) /\ Len(cards) = n
  <2>1. cards \in Seq(Card)
    BY <1>2
  <2>2. DOMAIN cards = 1 .. n /\ DOMAIN cards = 1 .. Len(cards) /\ Len(cards) \in Nat
    BY <1>2, <2>1, LenProperties
  <2>3. QED
    BY <2>1, <2>2
<1>4. QED
  BY <1>1, <1>3 DEF cards

(***************************************************************************)
(* TRICK, of any trick and with any cards.                                 *)
(***************************************************************************)
TRICKBody(m) == IdChars(m.id) \o CardsChars(m.cards)

(***************************************************************************)
(* The text of a TRICK fits its buffer and is read as the same TRICK.      *)
(***************************************************************************)
LEMMA TRICKReads ==
    ASSUME NEW m \in TRICKs
    PROVE  /\ WriteTRICK(m) = Packet("TRICK", TRICKBody(m))
           /\ TRICKBody(m) \in Seq(Plain)
           /\ Len(TRICKBody(m)) + 2 <= MaxSize.TRICK
           /\ \A buff : \A readers_id \in Nat :
                Holds(buff, TRICKBody(m)) /\ AsLong(m.id, readers_id)
                    => ReadTRICK(buff, readers_id) = m
PROOF
<1> DEFINE body == TRICKBody(m)
           id == IdChars(m.id)
           cards == m.cards
           chars == CardsChars(cards)
           n == Len(cards)
<1>1. /\ m.id \in 1 .. 13 /\ cards \in Seq(Card) /\ n \in 0 .. 3
      /\ m = [name |-> "TRICK", id |-> m.id, cards |-> cards]
  BY TRICKCards
<1>2. id \in Seq(Plain) /\ Len(id) \in {1, 2}
  BY <1>1, IdWritten
<1> HIDE DEF cards
<1>3. chars \in Seq(Plain) /\ Len(chars) \in 0 .. 9
  <2>1. chars \in Seq(Plain)
    BY <1>1, CardTextsAre
  <2> DEFINE tens == Cardinality(TensIn(cards, n))
             len == Len(chars)
  <2>2. len = 2 * n + tens /\ tens \in 0 .. n
    BY <1>1, CardsLength, FewTens
  <2> HIDE DEF tens, len, n
  <2>3. len \in 0 .. 9
    BY <1>1, <2>2
  <2>4. QED
    BY <2>1, <2>3 DEF len
<1> HIDE DEF id, chars, n
<1>4. /\ body \in Seq(Plain) /\ Len(id) \in Nat /\ Len(chars) \in Nat
      /\ Len(body) = Len(id) + Len(chars)
      /\ \A i \in 1 .. Len(id) : body[i] = id[i]
      /\ \A i \in 1 .. Len(chars) : body[Len(id) + i] = chars[i]
  <2>1. body = id \o chars
    BY DEF TRICKBody, id, chars, cards
  <2> HIDE DEF body
  <2>2. QED
    BY <1>2, <1>3, <2>1, TwoParts
<1> HIDE DEF body
<1>5. ASSUME NEW buff, NEW readers_id \in Nat, Holds(buff, body), AsLong(m.id, readers_id)
      PROVE  ReadTRICK(buff, readers_id) = m
  <2> DEFINE first == Len(id) + 1
             last == Len(buff) - 2
  <2>1. /\ buff \in Seq(0 .. 255) /\ Len(buff) = Len(body) + 2
        /\ \A i \in 1 .. Len(body) : buff[i] = body[i]
    BY <1>5 DEF Holds
  <2>2. \A i \in 1 .. Len(id) : buff[i] = id[i]
    BY <1>4, <2>1
  <2>3. IdLength(readers_id) = Len(id) /\ LewaId(buff, readers_id) = m.id /\ IdInRange(m.id)
    BY <1>1, <1>5, <2>2, IdReads DEF id
  <2>4. StandsAt(buff, first, chars)
    <3>1. first >= 1 /\ first + Len(chars) - 1 <= Len(buff)
      BY <1>4, <2>1
    <3>2. ASSUME NEW i \in 1 .. Len(chars) PROVE buff[first + i - 1] = chars[i]
      <4>1. first + i - 1 = Len(id) + i /\ Len(id) + i \in 1 .. Len(body)
        BY <1>4
      <4> HIDE DEF first
      <4>2. QED
        BY <1>4, <2>1, <4>1
    <3>3. QED
      BY <3>1, <3>2 DEF StandsAt
  <2>5. first \in Nat
    BY <1>4
  <2>6. PICK pos : /\ CardsStandAt(buff, cards, pos)
                   /\ pos[1] = first
                   /\ pos[n + 1] = first + Len(chars)
    <3> HIDE DEF first
    <3>1. QED
      BY <1>1, <2>1, <2>4, <2>5, CardsStand DEF n, chars
  <2>7. last \in Int /\ pos[n + 1] - 2 <= last /\ last < pos[n + 1]
    BY <1>4, <2>1, <2>6
  <2>8. n <= 5 /\ n <= 4
    BY <1>1
  <2>9. CardsIn(buff, first, last, 5).cards = cards /\ AllCards(cards)
    <3> HIDE DEF first, last
    <3>1. 5 \in Nat
      OBVIOUS
    <3>2. CardsIn(buff, pos[1], last, 5).cards = cards /\ AllCards(cards)
      BY <1>1, <2>1, <2>6, <2>7, <2>8, <3>1, CardsRead DEF n
    <3>3. QED
      BY <2>6, <3>2
  <2>10. Len(buff) >= MinSize.TRICK
    <3>1. \A x \in {1, 2} : \A y \in Nat : x + y + 2 >= 3
      OBVIOUS
    <3>2. Len(buff) = Len(id) + Len(chars) + 2 /\ MinSize.TRICK = 3
      BY <1>4, <2>1 DEF MinSize
    <3>3. QED
      BY <1>2, <1>4, <3>1, <3>2, Zenon
  <2>11. CardsIn(buff, IdLength(readers_id) + 1, Len(buff) - 2, 5).cards = cards
    BY <2>3, <2>9, Zenon
  <2>12. ReadTRICK(buff, readers_id) = [name |-> "TRICK", id |-> m.id, cards |-> cards]
    <3>1. Len(cards) <= 4
      BY <2>8 DEF n
    <3>2. QED
      BY <2>3, <2>9, <2>10, <2>11, <3>1, Zenon DEF ReadTRICK
  <2>13. QED
    BY <1>1, <2>12, Zenon
<1>6. Len(body) + 2 <= MaxSize.TRICK
  <2>1. \A x \in {1, 2} : \A y \in 0 .. 9 : x + y + 2 <= 13
    OBVIOUS
  <2>2. MaxSize.TRICK = 13
    BY DEF MaxSize
  <2>3. QED
    BY <1>2, <1>3, <1>4, <2>1, <2>2, Zenon
<1>7. WriteTRICK(m) = Packet("TRICK", body)
  BY DEF WriteTRICK, TRICKBody, body
<1>8. QED
  BY <1>4, <1>5, <1>6, <1>7 DEF body

(***************************************************************************)
(* TAKEN, of any trick and with any cards.                                 *)
(***************************************************************************)
TAKENBody(m) == IdChars(m.id) \o CardsChars(m.cards) \o <<SeatChar[m.seat]>>

(***************************************************************************)
(* The text of a TAKEN fits its buffer and is read as the same TAKEN.      *)
(***************************************************************************)
LEMMA TAKENReads ==
    ASSUME NEW m \in TAKENs
    PROVE  /\ WriteTAKEN(m) = Packet("TAKEN", TAKENBody(m))
           /\ TAKENBody(m) \in Seq(Plain)
           /\ Len(TAKENBody(m)) + 2 <= MaxSize.TAKEN
           /\ \A buff : \A readers_id \in Nat :
                Holds(buff, TAKENBody(m)) /\ AsLong(m.id, readers_id)
                    => ReadTAKEN(buff, readers_id) = m
PROOF
<1> DEFINE body == TAKENBody(m)
           id == IdChars(m.id)
           cards == m.cards
           chars == CardsChars(cards)
           n == Len(cards)
           c == SeatChar[m.seat]
           end == <<c>>
<1>1. /\ m.id \in 1 .. 13 /\ cards \in [1 .. 4 -> Card] /\ m.seat \in 0 .. 3
      /\ m = [name |-> "TAKEN", id |-> m.id, cards |-> cards, seat |-> m.seat]
  BY DEF TAKENs
<1>2. id \in Seq(Plain) /\ Len(id) \in {1, 2}
  BY <1>1, IdWritten
<1> HIDE DEF cards
<1>3. cards \in Seq(Card) /\ n = 4
  <2>1. cards \in Seq(Card)
    <3>1. 4 \in Nat /\ \A k \in Nat : \A f \in [1 .. k -> Card] : f \in Seq(Card)
      OBVIOUS
    <3>2. QED
      BY <1>1, <3>1, Zenon
  <2>2. DOMAIN cards = 1 .. 4 /\ DOMAIN cards = 1 .. Len(cards) /\ Len(cards) \in Nat
    BY <1>1, <2>1, LenProperties
  <2>3. QED
    BY <2>1, <2>2
<1>4. chars \in Seq(Plain) /\ Len(chars) \in 8 .. 12
  <2>1. chars \in Seq(Plain)
    BY <1>3, CardTextsAre
  <2> DEFINE tens == Cardinality(TensIn(cards, n))
             len == Len(chars)
  <2>2. len = 2 * n + tens /\ tens \in 0 .. n
    BY <1>3, CardsLength, FewTens
  <2> HIDE DEF tens, len, n
  <2>3. len \in 8 .. 12
    BY <1>3, <2>2
  <2>4. QED
    BY <2>1, <2>3 DEF len
<1>5. c \in SeatChars /\ SeatOf(c) = m.seat /\ c \in Plain
  <2>1. c \in {78, 69, 83, 87} /\ c \in SeatChars /\ SeatOf(c) = m.seat
    BY <1>1, SeatReads
  <2> HIDE DEF c
  <2>2. QED
    BY <2>1 DEF Plain
<1> HIDE DEF c
<1>6. end \in Seq(Plain) /\ Len(end) = 1 /\ end[1] = c
  BY <1>5
<1> HIDE DEF id, chars, n, end
<1>7. /\ body \in Seq(Plain) /\ Len(id) \in Nat /\ Len(chars) \in Nat
      /\ Len(body) = Len(id) + Len(chars) + 1
      /\ \A i \in 1 .. Len(id) : body[i] = id[i]
      /\ \A i \in 1 .. Len(chars) : body[Len(id) + i] = chars[i]
      /\ body[Len(id) + Len(chars) + 1] = c
  <2>1. body = id \o chars \o end
    BY DEF TAKENBody, id, chars, cards, end, c
  <2> HIDE DEF body
  <2>2. /\ body \in Seq(Plain) /\ Len(id) \in Nat /\ Len(chars) \in Nat
        /\ Len(body) = Len(id) + Len(chars) + Len(end)
        /\ \A i \in 1 .. Len(id) : body[i] = id[i]
        /\ \A i \in 1 .. Len(chars) : body[Len(id) + i] = chars[i]
        /\ \A i \in 1 .. Len(end) : body[Len(id) + Len(chars) + i] = end[i]
    <3>1. ASSUME NEW s \in Seq(Plain), NEW t \in Seq(Plain), NEW u \in Seq(Plain), NEW x,
                 x = s \o t \o u
          PROVE  /\ x \in Seq(Plain) /\ Len(s) \in Nat /\ Len(t) \in Nat
                 /\ Len(x) = Len(s) + Len(t) + Len(u)
                 /\ \A i \in 1 .. Len(s) : x[i] = s[i]
                 /\ \A i \in 1 .. Len(t) : x[Len(s) + i] = t[i]
                 /\ \A i \in 1 .. Len(u) : x[Len(s) + Len(t) + i] = u[i]
      BY <3>1, ThreeParts
    <3>2. id \in Seq(Plain) /\ chars \in Seq(Plain) /\ end \in Seq(Plain)
      BY <1>2, <1>4, <1>6
    <3>3. QED
      BY <2>1, <3>1, <3>2
  <2>3. body[Len(id) + Len(chars) + 1] = end[1]
    BY <1>6, <2>2
  <2>4. QED
    BY <1>6, <2>2, <2>3
<1> HIDE DEF body
<1>8. ASSUME NEW buff, NEW readers_id \in Nat, Holds(buff, body), AsLong(m.id, readers_id)
      PROVE  ReadTAKEN(buff, readers_id) = m
  <2> DEFINE first == Len(id) + 1
             last == Len(buff) - 3
  <2>1. /\ buff \in Seq(0 .. 255) /\ Len(buff) = Len(body) + 2
        /\ \A i \in 1 .. Len(body) : buff[i] = body[i]
    BY <1>8 DEF Holds
  <2>2. \A i \in 1 .. Len(id) : buff[i] = id[i]
    BY <1>7, <2>1
  <2>3. IdLength(readers_id) = Len(id) /\ LewaId(buff, readers_id) = m.id /\ IdInRange(m.id)
    BY <1>1, <1>8, <2>2, IdReads DEF id
  <2>4. StandsAt(buff, first, chars)
    <3>1. first >= 1 /\ first + Len(chars) - 1 <= Len(buff)
      BY <1>7, <2>1
    <3>2. ASSUME NEW i \in 1 .. Len(chars) PROVE buff[first + i - 1] = chars[i]
      <4>1. first + i - 1 = Len(id) + i /\ Len(id) + i \in 1 .. Len(body)
        BY <1>7
      <4> HIDE DEF first
      <4>2. QED
        BY <1>7, <2>1, <4>1
    <3>3. QED
      BY <3>1, <3>2 DEF StandsAt
  <2>5. first \in Nat
    BY <1>7
  <2>6. PICK pos : /\ CardsStandAt(buff, cards, pos)
                   /\ pos[1] = first
                   /\ pos[n + 1] = first + Len(chars)
    <3> HIDE DEF first
    <3>1. QED
      BY <1>3, <2>1, <2>4, <2>5, CardsStand DEF n, chars
  <2>7. last \in Int /\ pos[n + 1] - 2 <= last /\ last < pos[n + 1] /\ pos[n + 1] = Len(buff) - 2
    BY <1>7, <2>1, <2>6
  <2>8. n <= 4 /\ 4 \in Nat
    BY <1>3
  <2>9. /\ CardsIn(buff, first, last, 4).cards = cards /\ AllCards(cards)
        /\ CardsIn(buff, first, last, 4).next = Len(buff) - 2
    <3> HIDE DEF first, last
    <3>1. ASSUME NEW most \in Nat, n <= most
          PROVE  /\ CardsIn(buff, pos[1], last, most).cards = cards /\ AllCards(cards)
                 /\ CardsIn(buff, pos[1], last, most).next = pos[n + 1]
      <4>1. cards \in Seq(Card) /\ buff \in Seq(0 .. 255)
        BY <1>3, <2>1
      <4>2. last \in Int /\ pos[n + 1] - 2 <= last /\ last < pos[n + 1]
        BY <2>7
      <4>3. QED
        BY <2>6, <3>1, <4>1, <4>2, CardsRead DEF n
    <3>2. QED
      BY <2>6, <2>7, <2>8, <3>1
  <2>10. Len(buff) >= MinSize.TAKEN
    <3>1. \A x \in {1, 2} : \A y \in 8 .. 12 : x + y + 1 + 2 >= 12
      OBVIOUS
    <3>2. Len(buff) = Len(id) + Len(chars) + 1 + 2 /\ MinSize.TAKEN = 12
      BY <1>7, <2>1 DEF MinSize
    <3>3. QED
      BY <1>2, <1>4, <3>1, <3>2, Zenon
  <2>11. buff[Len(buff) - 2] = c
    <3>1. Len(buff) - 2 = Len(id) + Len(chars) + 1 /\ Len(buff) - 2 \in 1 .. Len(body)
      BY <1>7, <2>1
    <3>2. QED
      BY <1>7, <2>1, <3>1
  <2>12. ReadTAKEN(buff, readers_id) =
           [name |-> "TAKEN", id |-> m.id, cards |-> cards, seat |-> SeatOf(c)]
    BY <1>5, <2>3, <2>9, <2>10, <2>11, Zenon DEF ReadTAKEN
  <2>13. QED
    BY <1>1, <1>5, <2>12, Zenon
<1>9. Len(body) + 2 <= MaxSize.TAKEN
  <2>1. \A x \in {1, 2} : \A y \in 8 .. 12 : x + y + 1 + 2 <= 17
    OBVIOUS
  <2>2. MaxSize.TAKEN = 17
    BY DEF MaxSize
  <2>3. QED
    BY <1>2, <1>4, <1>7, <2>1, <2>2, Zenon
<1>10. WriteTAKEN(m) = Packet("TAKEN", body)
  BY DEF WriteTAKEN, TAKENBody, body
<1>11. QED
  BY <1>7, <1>8, <1>9, <1>10 DEF body

(***************************************************************************)
(* The cards of a hand in the order of the map's keys: each card of the    *)
(* hand once, and no other.                                                *)
(***************************************************************************)
Below(hand, c) == {d \in hand : Before(d, c)}
InOrder(hand) ==
    [i \in 1 .. Cardinality(hand) |-> CHOOSE c \in hand : Cardinality(Below(hand, c)) = i - 1]

(***************************************************************************)
(* The cards of a hand are written in an order, each of them once.         *)
(***************************************************************************)
LEMMA HandInOrder ==
    ASSUME NEW hand, hand \subseteq Card, IsFiniteSet(hand)
    PROVE  /\ Cardinality(hand) \in Nat
           /\ InOrder(hand) \in Seq(Card) /\ Len(InOrder(hand)) = Cardinality(hand)
           /\ {InOrder(hand)[i] : i \in 1 .. Cardinality(hand)} = hand
           /\ \A i, j \in 1 .. Cardinality(hand) : InOrder(hand)[i] = InOrder(hand)[j] => i = j
PROOF
<1> DEFINE n == Cardinality(hand)
           rank == [c \in hand |-> Cardinality(Below(hand, c))]
           order == InOrder(hand)
<1>1. n \in Nat
  BY FS_CardinalityType
<1>2. ASSUME NEW c \in hand
      PROVE  /\ c.suit \in Nat /\ c.value \in Nat
             /\ c = [suit |-> c.suit, value |-> c.value]
  <2>1. c \in Card
    OBVIOUS
  <2>2. c.suit \in SuitChars /\ c.value \in 2 .. A /\ c = [suit |-> c.suit, value |-> c.value]
    BY <2>1 DEF Card
  <2>3. QED
    BY <2>2 DEF SuitChars, HEARTS, A
<1>3. ASSUME NEW c \in hand
      PROVE  /\ IsFiniteSet(Below(hand, c)) /\ c \notin Below(hand, c)
             /\ rank[c] \in 0 .. n - 1
  <2>1. Below(hand, c) \subseteq hand
    BY DEF Below
  <2>2. c \notin Below(hand, c)
    BY <1>2 DEF Below, Before
  <2>3. IsFiniteSet(Below(hand, c)) /\ Cardinality(Below(hand, c)) \in Nat
    BY <2>1, FS_Subset, FS_CardinalityType
  <2>4. Cardinality(Below(hand, c)) # n
    BY <2>1, <2>2, FS_Subset
  <2>5. Cardinality(Below(hand, c)) <= n
    BY <2>1, FS_Subset
  <2>6. QED
    BY <1>1, <2>2, <2>3, <2>4, <2>5
<1>4. ASSUME NEW c \in hand, NEW d \in hand, Before(c, d)
      PROVE  rank[c] # rank[d]
  <2>1. /\ c.suit \in Nat /\ c.value \in Nat /\ d.suit \in Nat /\ d.value \in Nat
    BY <1>2
  <2>2. Below(hand, c) \subseteq Below(hand, d)
    <3>1. ASSUME NEW e \in hand, Before(e, c) PROVE Before(e, d)
      <4>1. e.suit \in Nat /\ e.value \in Nat
        BY <1>2
      <4>2. QED
        BY <1>4, <2>1, <3>1, <4>1 DEF Before
    <3>2. QED
      BY <3>1 DEF Below
  <2>3. c \in Below(hand, d) /\ c \notin Below(hand, c)
    BY <1>3, <1>4 DEF Below
  <2>4. IsFiniteSet(Below(hand, d)) /\ Below(hand, c) # Below(hand, d)
    BY <1>3, <2>3
  <2>5. Cardinality(Below(hand, d)) # Cardinality(Below(hand, c))
    BY <2>2, <2>4, FS_Subset
  <2>6. QED
    BY <2>5
<1>5. \A c, d \in hand : c # d => Before(c, d) \/ Before(d, c)
  <2> SUFFICES ASSUME NEW c \in hand, NEW d \in hand, c # d PROVE Before(c, d) \/ Before(d, c)
    OBVIOUS
  <2>1. c.suit # d.suit \/ c.value # d.value
    <3>1. c = [suit |-> c.suit, value |-> c.value] /\ d = [suit |-> d.suit, value |-> d.value]
      BY <1>2
    <3>2. QED
      BY <3>1
  <2>2. c.suit \in Nat /\ c.value \in Nat /\ d.suit \in Nat /\ d.value \in Nat
    BY <1>2
  <2>3. QED
    BY <2>1, <2>2 DEF Before
<1>6. \A c, d \in hand : rank[c] = rank[d] => c = d
  BY <1>4, <1>5
<1> HIDE DEF rank
<1>7. rank \in [hand -> 0 .. n - 1]
  <2>1. rank = [c \in hand |-> rank[c]]
    BY DEF rank
  <2>2. QED
    BY <1>3, <2>1
<1>8. rank \in Surjection(hand, 0 .. n - 1)
  <2>1. rank \in Injection(hand, 0 .. n - 1)
    BY <1>6, <1>7 DEF Injection, IsInjective
  <2>2. IsFiniteSet(0 .. n - 1) /\ Cardinality(0 .. n - 1) = n
    <3> HIDE DEF n
    <3>1. 0 \in Int /\ n - 1 \in Int
      BY <1>1
    <3>2. /\ IsFiniteSet(0 .. n - 1)
          /\ Cardinality(0 .. n - 1) = IF 0 > n - 1 THEN 0 ELSE (n - 1) - 0 + 1
      BY <3>1, FS_Interval, Zenon
    <3>3. QED
      BY <1>1, <3>2
  <2>3. QED
    BY <2>1, <2>2, FS_Injection
<1>9. \A r \in 0 .. n - 1 : \E c \in hand : rank[c] = r
  BY <1>8 DEF Surjection
<1>10. ASSUME NEW i \in 1 .. n
       PROVE  order[i] \in hand /\ rank[order[i]] = i - 1
  <2>1. i - 1 \in 0 .. n - 1
    BY <1>1
  <2>2. \E c \in hand : Cardinality(Below(hand, c)) = i - 1
    BY <1>9, <2>1 DEF rank
  <2>3. order[i] = CHOOSE c \in hand : Cardinality(Below(hand, c)) = i - 1
    BY DEF InOrder
  <2>4. order[i] \in hand /\ Cardinality(Below(hand, order[i])) = i - 1
    BY <2>2, <2>3, Zenon
  <2>5. QED
    BY <2>4 DEF rank
<1> HIDE DEF order, n
<1>11. ASSUME NEW c \in hand PROVE \E i \in 1 .. n : order[i] = c
  <2>1. rank[c] + 1 \in 1 .. n /\ (rank[c] + 1) - 1 = rank[c]
    BY <1>1, <1>3
  <2>2. order[rank[c] + 1] = c
    BY <1>6, <1>10, <2>1
  <2>3. QED
    BY <2>1, <2>2
<1>12. order \in [1 .. n -> Card] /\ order = [i \in 1 .. n |-> order[i]]
  <2>1. order = [i \in 1 .. n |-> order[i]]
    BY DEF order, InOrder, n
  <2>2. \A i \in 1 .. n : order[i] \in Card
    BY <1>10
  <2>3. QED
    BY <2>1, <2>2
<1>13. order \in Seq(Card) /\ Len(order) = n
  <2>1. order \in Seq(Card)
    BY <1>1, <1>12
  <2>2. DOMAIN order = 1 .. n /\ DOMAIN order = 1 .. Len(order) /\ Len(order) \in Nat
    BY <1>12, <2>1, LenProperties
  <2>3. QED
    BY <1>1, <2>1, <2>2
<1>14. {order[i] : i \in 1 .. n} = hand
  BY <1>10, <1>11
<1>15. \A i, j \in 1 .. n : order[i] = order[j] => i = j
  <2> SUFFICES ASSUME NEW i \in 1 .. n, NEW j \in 1 .. n, order[i] = order[j] PROVE i = j
    OBVIOUS
  <2>1. i - 1 = j - 1
    BY <1>10
  <2>2. QED
    BY <1>1, <2>1
<1>16. QED
  BY <1>1, <1>13, <1>14, <1>15 DEF order, n

(***************************************************************************)
(* There are four suits.                                                   *)
(***************************************************************************)
LEMMA FourSuits == IsFiniteSet(SuitChars) /\ Cardinality(SuitChars) <= 4
PROOF
<1> DEFINE g == [i \in 1 .. 4 |-> <<72, 68, 67, 83>>[i]]
<1>1. g[1] = 72 /\ g[2] = 68 /\ g[3] = 67 /\ g[4] = 83
  OBVIOUS
<1>2. DOMAIN g = 1 .. 4 /\ g = [i \in 1 .. 4 |-> g[i]]
  OBVIOUS
<1> HIDE DEF g
<1>3. \A i \in 1 .. 4 : g[i] \in SuitChars
  <2>1. 1 .. 4 = {1, 2, 3, 4}
    OBVIOUS
  <2>2. QED
    BY <1>1, <2>1 DEF SuitChars, HEARTS
<1>4. \A c \in SuitChars : \E i \in 1 .. 4 : g[i] = c
  BY <1>1 DEF SuitChars, HEARTS
<1>5. g \in Surjection(1 .. 4, SuitChars)
  BY <1>2, <1>3, <1>4 DEF Surjection
<1>6. 4 \in Nat /\ ExistsSurjection(1 .. 4, SuitChars)
  BY <1>5 DEF ExistsSurjection
<1>7. IsFiniteSet(SuitChars)
  BY <1>6, FS_NatSurjection
<1>8. Cardinality(SuitChars) <= 4
  <2>1. \A n \in Nat : ExistsSurjection(1 .. n, SuitChars) => Cardinality(SuitChars) <= n
    BY FS_SurjCardinalityBound
  <2>2. QED
    BY <1>6, <2>1
<1>9. QED
  BY <1>7, <1>8

(***************************************************************************)
(* There are four tens.                                                    *)
(***************************************************************************)
LEMMA FourTens ==
    ASSUME NEW cards \in Seq(Card), \A i, j \in 1 .. Len(cards) : cards[i] = cards[j] => i = j
    PROVE  Cardinality(TensIn(cards, Len(cards))) \in 0 .. 4
PROOF
<1> DEFINE tens == TensIn(cards, Len(cards))
           f == [k \in tens |-> cards[k].suit]
<1>1. \A k \in tens : k \in 1 .. Len(cards) /\ cards[k].value = 10
  BY DEF TensIn
<1>2. \A k \in 1 .. Len(cards) : cards[k] \in Card
  OBVIOUS
<1> HIDE DEF tens
<1>3. \A k \in tens : cards[k].suit \in SuitChars /\ cards[k] = [suit |-> cards[k].suit, value |-> 10]
  <2> TAKE k \in tens
  <2>1. cards[k] \in Card /\ cards[k].value = 10
    BY <1>1, <1>2
  <2>2. \A c \in Card : c.suit \in SuitChars /\ c = [suit |-> c.suit, value |-> c.value]
    BY DEF Card
  <2>3. QED
    BY <2>1, <2>2
<1>4. f \in Injection(tens, SuitChars)
  <2>1. f \in [tens -> SuitChars]
    BY <1>3
  <2>2. \A j, k \in tens : f[j] = f[k] => j = k
    <3> SUFFICES ASSUME NEW j \in tens, NEW k \in tens, f[j] = f[k] PROVE j = k
      OBVIOUS
    <3>1. cards[j].suit = cards[k].suit
      OBVIOUS
    <3>2. cards[j] = cards[k]
      BY <1>3, <3>1
    <3>3. QED
      BY <1>1, <3>2
  <2> HIDE DEF f
  <2>3. QED
    BY <2>1, <2>2 DEF Injection, IsInjective
<1>5. IsFiniteSet(SuitChars) /\ Cardinality(SuitChars) <= 4
  BY FourSuits
<1> HIDE DEF f
<1>6. IsFiniteSet(tens) /\ Cardinality(tens) <= Cardinality(SuitChars)
  BY <1>4, <1>5, FS_Injection
<1>7. Cardinality(tens) \in Nat /\ Cardinality(SuitChars) \in Nat
  BY <1>5, <1>6, FS_CardinalityType
<1>8. QED
  BY <1>5, <1>6, <1>7 DEF tens

(***************************************************************************)
(* There are finitely many cards.                                          *)
(***************************************************************************)
LEMMA CardIsFinite == IsFiniteSet(Card)
PROOF
<1> DEFINE pairs == SuitChars \X (2 .. A)
           f == [c \in Card |-> <<c.suit, c.value>>]
<1>1. IsFiniteSet(SuitChars) /\ IsFiniteSet(2 .. A)
  <2>1. 2 \in Int /\ A \in Int
    BY DEF A
  <2>2. QED
    BY <2>1, FourSuits, FS_Interval
<1>2. IsFiniteSet(pairs)
  BY <1>1, FS_Product
<1>3. \A c \in Card : /\ c.suit \in SuitChars /\ c.value \in 2 .. A
                      /\ c = [suit |-> c.suit, value |-> c.value]
  BY DEF Card
<1>4. f \in [Card -> pairs]
  BY <1>3
<1>5. \A c, d \in Card : f[c] = f[d] => c = d
  <2> SUFFICES ASSUME NEW c \in Card, NEW d \in Card, f[c] = f[d] PROVE c = d
    OBVIOUS
  <2>1. c.suit = d.suit /\ c.value = d.value
    OBVIOUS
  <2>2. QED
    BY <1>3, <2>1
<1> HIDE DEF f, pairs
<1>6. f \in Injection(Card, pairs)
  BY <1>4, <1>5 DEF Injection, IsInjective
<1>7. QED
  BY <1>2, <1>6, FS_Injection

(***************************************************************************)
(* DEAL, of any kind of deal and with any hand.                            *)
(***************************************************************************)
DEALBody(m) == <<m.type + 48, SeatChar[m.seat]>> \o HandChars(m.hand)

(***************************************************************************)
(* The text of a DEAL fits its buffer and is read as the same DEAL.        *)
(***************************************************************************)
LEMMA DEALReads ==
    ASSUME NEW m \in DEALs
    PROVE  /\ WriteDEAL(m) = Packet("DEAL", DEALBody(m))
           /\ DEALBody(m) \in Seq(Plain)
           /\ Len(DEALBody(m)) + 2 <= MaxSize.DEAL
           /\ \A buff : Holds(buff, DEALBody(m)) => ReadDEAL(buff) = m
PROOF
<1> DEFINE body == DEALBody(m)
           hand == m.hand
           cards == InOrder(hand)
           chars == CardsChars(cards)
           t == m.type + 48
           c == SeatChar[m.seat]
           start == <<t, c>>
<1>1. /\ m.type \in 1 .. 7 /\ m.seat \in 0 .. 3 /\ hand \subseteq Card /\ Cardinality(hand) = 13
      /\ m = [name |-> "DEAL", type |-> m.type, seat |-> m.seat, hand |-> hand]
  BY DEF DEALs
<1> HIDE DEF hand
<1>2. /\ cards \in Seq(Card) /\ Len(cards) = 13
      /\ {cards[i] : i \in 1 .. 13} = hand
      /\ \A i, j \in 1 .. 13 : cards[i] = cards[j] => i = j
  <2>1. IsFiniteSet(hand)
    BY <1>1, CardIsFinite, FS_Subset
  <2>2. /\ InOrder(hand) \in Seq(Card) /\ Len(InOrder(hand)) = Cardinality(hand)
        /\ {InOrder(hand)[i] : i \in 1 .. Cardinality(hand)} = hand
        /\ \A i, j \in 1 .. Cardinality(hand) : InOrder(hand)[i] = InOrder(hand)[j] => i = j
    BY <1>1, <2>1, HandInOrder
  <2>3. QED
    BY <1>1, <2>2
<1>3. HandChars(hand) = chars
  BY DEF HandChars, InOrder, Below
<1> HIDE DEF cards
<1>4. chars \in Seq(Plain) /\ Len(chars) \in 26 .. 30
  <2>1. chars \in Seq(Plain)
    BY <1>2, CardTextsAre
  <2> DEFINE tens == Cardinality(TensIn(cards, Len(cards)))
             len == Len(chars)
  <2>2. tens \in 0 .. 4
    BY <1>2, FourTens
  <2>3. len = 2 * Len(cards) + tens
    BY <1>2, CardsLength
  <2> HIDE DEF tens, len
  <2>4. len \in 26 .. 30
    BY <1>2, <2>2, <2>3
  <2>5. QED
    BY <2>1, <2>4 DEF len
<1>5. c \in SeatChars /\ SeatOf(c) = m.seat /\ c \in Plain
  <2>1. c \in {78, 69, 83, 87} /\ c \in SeatChars /\ SeatOf(c) = m.seat
    BY <1>1, SeatReads
  <2> HIDE DEF c
  <2>2. QED
    BY <2>1 DEF Plain
<1>6. t \in 49 .. 55 /\ DigitOf(t) = m.type /\ t \in Plain
  BY <1>1 DEF DigitOf, Plain
<1> HIDE DEF c, t
<1>7. start \in Seq(Plain) /\ Len(start) = 2 /\ start[1] = t /\ start[2] = c
  BY <1>5, <1>6
<1> HIDE DEF chars, start
<1>8. /\ body \in Seq(Plain) /\ Len(chars) \in Nat
      /\ Len(body) = 2 + Len(chars)
      /\ body[1] = t /\ body[2] = c
      /\ \A i \in 1 .. Len(chars) : body[2 + i] = chars[i]
  <2>1. body = start \o chars
    BY <1>3 DEF DEALBody, start, t, c, hand
  <2> HIDE DEF body
  <2>2. /\ body \in Seq(Plain) /\ Len(chars) \in Nat
        /\ Len(body) = Len(start) + Len(chars)
        /\ \A i \in 1 .. Len(start) : body[i] = start[i]
        /\ \A i \in 1 .. Len(chars) : body[Len(start) + i] = chars[i]
    <3>1. start \in Seq(Plain) /\ chars \in Seq(Plain)
      BY <1>4, <1>7
    <3>2. /\ start \o chars \in Seq(Plain) /\ Len(chars) \in Nat
          /\ Len(start \o chars) = Len(start) + Len(chars)
          /\ \A i \in 1 .. Len(start) : (start \o chars)[i] = start[i]
          /\ \A i \in 1 .. Len(chars) : (start \o chars)[Len(start) + i] = chars[i]
      BY <3>1, TwoParts
    <3>3. QED
      BY <2>1, <3>2, Zenon
  <2>3. 1 \in 1 .. Len(start) /\ 2 \in 1 .. Len(start)
    BY <1>7
  <2>4. body[1] = t /\ body[2] = c
    BY <1>7, <2>2, <2>3
  <2>5. QED
    BY <1>7, <2>2, <2>4
<1> HIDE DEF body
<1>9. ASSUME NEW buff, Holds(buff, body)
      PROVE  ReadDEAL(buff) = m
  <2> DEFINE last == Len(buff) - 3
  <2>1. /\ buff \in Seq(0 .. 255) /\ Len(buff) = Len(body) + 2
        /\ \A i \in 1 .. Len(body) : buff[i] = body[i]
    BY <1>9 DEF Holds
  <2>2. buff[1] = t /\ buff[2] = c
    <3>1. 1 \in 1 .. Len(body) /\ 2 \in 1 .. Len(body)
      BY <1>8
    <3>2. QED
      BY <1>8, <2>1, <3>1
  <2>3. StandsAt(buff, 3, chars)
    <3>1. 3 >= 1 /\ 3 + Len(chars) - 1 <= Len(buff)
      BY <1>8, <2>1
    <3>2. ASSUME NEW i \in 1 .. Len(chars) PROVE buff[3 + i - 1] = chars[i]
      <4>1. 3 + i - 1 = 2 + i /\ 2 + i \in 1 .. Len(body)
        BY <1>8
      <4>2. QED
        BY <1>8, <2>1, <4>1
    <3>3. QED
      BY <3>1, <3>2 DEF StandsAt
  <2>4. PICK pos : /\ CardsStandAt(buff, cards, pos)
                   /\ pos[1] = 3
                   /\ pos[14] = 3 + Len(chars)
    <3>1. ASSUME NEW first \in Nat, StandsAt(buff, first, chars)
          PROVE  \E pos : /\ CardsStandAt(buff, cards, pos)
                          /\ pos[1] = first
                          /\ pos[Len(cards) + 1] = first + Len(chars)
      <4>1. cards \in Seq(Card) /\ buff \in Seq(0 .. 255)
        BY <1>2, <2>1
      <4>2. StandsAt(buff, first, CardsChars(cards))
        BY <3>1 DEF chars
      <4>3. QED
        BY <4>1, <4>2, CardsStand, Zenon DEF chars
    <3>2. 3 \in Nat /\ Len(cards) + 1 = 14
      BY <1>2
    <3>3. QED
      BY <2>3, <3>1, <3>2
  <2>5. last \in Int /\ pos[14] - 2 <= last /\ last < pos[14]
    BY <1>8, <2>1, <2>4
  <2>6. CardsIn(buff, 3, last, 14).cards = cards /\ AllCards(cards)
    <3> HIDE DEF last
    <3>1. ASSUME NEW most \in Nat, Len(cards) <= most
          PROVE  CardsIn(buff, pos[1], last, most).cards = cards /\ AllCards(cards)
      <4>1. Len(cards) + 1 = 14
        BY <1>2
      <4>2. pos[Len(cards) + 1] - 2 <= last /\ last < pos[Len(cards) + 1]
        BY <2>5, <4>1
      <4>3. QED
        <5>1. /\ cards \in Seq(Card) /\ buff \in Seq(0 .. 255) /\ last \in Int
              /\ CardsStandAt(buff, cards, pos)
          BY <1>2, <2>1, <2>4, <2>5
        <5>2. QED
          BY <3>1, <4>2, <5>1, CardsRead
    <3>2. 14 \in Nat /\ Len(cards) <= 14
      BY <1>2
    <3>3. QED
      BY <2>4, <3>1, <3>2
  <2>7. Len(buff) >= MinSize.DEAL
    <3>1. \A x \in 26 .. 30 : 2 + x + 2 >= 30
      OBVIOUS
    <3>2. Len(buff) = 2 + Len(chars) + 2 /\ MinSize.DEAL = 30
      BY <1>8, <2>1 DEF MinSize
    <3>3. QED
      BY <1>4, <3>1, <3>2, Zenon
  <2>8. DOMAIN cards = 1 .. 13
    BY <1>2
  <2>9. {cards[i] : i \in DOMAIN cards} = hand
    BY <1>2, <2>8
  <2>10. CardsIn(buff, 3, Len(buff) - 3, 14).cards = cards
    BY <2>6
  <2>11. ReadDEAL(buff) = [name |-> "DEAL", type |-> DigitOf(t), seat |-> SeatOf(c), hand |-> hand]
    <3>1. buff[1] \in 49 .. 55 /\ buff[2] \in SeatChars
      BY <1>5, <1>6, <2>2
    <3>2. AllCards(cards) /\ Len(cards) = 13 /\ Cardinality(hand) = 13
      BY <1>1, <1>2, <2>6
    <3> DEFINE read == CardsIn(buff, 3, Len(buff) - 3, 14).cards
    <3>3. read = cards
      BY <2>10
    <3> HIDE DEF read
    <3>4. ReadDEAL(buff) =
            IF /\ Len(buff) >= MinSize.DEAL
               /\ buff[1] \in 49 .. 55 /\ buff[2] \in SeatChars
               /\ AllCards(read) /\ Len(read) = 13
               /\ Cardinality({read[i] : i \in DOMAIN read}) = 13
            THEN [name |-> "DEAL", type |-> DigitOf(buff[1]), seat |-> SeatOf(buff[2]),
                  hand |-> {read[i] : i \in DOMAIN read}]
            ELSE Rejected
      BY Zenon DEF ReadDEAL, read
    <3>5. QED
      BY <2>2, <2>7, <2>9, <3>1, <3>2, <3>3, <3>4, Zenon
  <2>12. QED
    BY <1>1, <1>5, <1>6, <2>11, Zenon
<1>10. Len(body) + 2 <= MaxSize.DEAL
  <2>1. \A x \in 26 .. 30 : 2 + x + 2 <= 34
    OBVIOUS
  <2>2. MaxSize.DEAL = 34
    BY DEF MaxSize
  <2>3. QED
    BY <1>4, <1>8, <2>1, <2>2, Zenon
<1>11. WriteDEAL(m) = Packet("DEAL", body)
  BY DEF WriteDEAL, DEALBody, body
<1>12. QED
  BY <1>8, <1>9, <1>10, <1>11 DEF body

-----------------------------------------------------------------------------
(* Scores.                                                                 *)

(***************************************************************************)
(* Where the letters of the seats stand in a text with their scores: each  *)
(* before the score's numeral, one behind the other.                       *)
(***************************************************************************)
ScoreOf(scores, k) == Numeral[scores[k - 1]]

ScoresStandAt(chars, scores, at) ==
    /\ at \in [1 .. 5 -> Nat] /\ at[1] = 1 /\ at[5] = Len(chars) + 1
    /\ \A k \in 1 .. 4 :
            /\ at[k + 1] = at[k] + 1 + Len(ScoreOf(scores, k))
            /\ chars[at[k]] = SeatChar[k - 1]
            /\ \A j \in 1 .. Len(ScoreOf(scores, k)) : chars[at[k] + j] = ScoreOf(scores, k)[j]

(***************************************************************************)
(* So they stand in the text of the scores.                                *)
(***************************************************************************)
LEMMA ScoresStand ==
    ASSUME NEW scores \in [0 .. 3 -> Nat]
    PROVE  /\ ScoresChars(scores) \in Seq(Plain)
           /\ \E at : ScoresStandAt(ScoresChars(scores), scores, at)
PROOF
<1> DEFINE parts == [i \in 1 .. 4 |-> <<SeatChar[i - 1]>> \o Numeral[scores[i - 1]]]
           all == ScoresChars(scores)
           upto(k) == Len(FlattenSeq(SubSeq(parts, 1, k)))
           at == [k \in 1 .. 5 |-> upto(k - 1) + 1]
<1>1. all = FlattenSeq(parts)
  BY Zenon DEF ScoresChars
<1>2. ASSUME NEW k \in 1 .. 4
      PROVE  /\ ScoreOf(scores, k) \in Seq(Plain) /\ SeatChar[k - 1] \in Plain
             /\ parts[k] \in Seq(Plain) /\ Len(parts[k]) = 1 + Len(ScoreOf(scores, k))
             /\ parts[k][1] = SeatChar[k - 1]
             /\ \A j \in 1 .. Len(ScoreOf(scores, k)) : parts[k][1 + j] = ScoreOf(scores, k)[j]
             /\ Len(ScoreOf(scores, k)) \in Nat
  <2> DEFINE c == SeatChar[k - 1]
             numeral == ScoreOf(scores, k)
             letter == <<c>>
  <2>1. k - 1 \in 0 .. 3
    OBVIOUS
  <2>2. c \in Plain
    <3>1. c \in {78, 69, 83, 87}
      BY <2>1, SeatReads
    <3> HIDE DEF c
    <3>2. QED
      BY <3>1 DEF Plain
  <2>3. numeral \in Seq(Plain)
    <3>1. scores[k - 1] \in Nat
      BY <2>1
    <3>2. numeral \in Seq(Digits)
      BY <3>1, NumeralDigits DEF ScoreOf
    <3>3. Digits \subseteq Plain
      BY DEF Digits, Plain
    <3>4. QED
      BY <3>2, <3>3, SeqMonotonic
  <2>4. parts[k] = letter \o numeral
    BY DEF ScoreOf
  <2> HIDE DEF c, numeral, parts
  <2>5. letter \in Seq(Plain) /\ Len(letter) = 1 /\ letter[1] = c
    BY <2>2
  <2> HIDE DEF letter
  <2>6. /\ letter \o numeral \in Seq(Plain) /\ Len(numeral) \in Nat
        /\ Len(letter \o numeral) = Len(letter) + Len(numeral)
        /\ \A i \in 1 .. Len(letter) : (letter \o numeral)[i] = letter[i]
        /\ \A i \in 1 .. Len(numeral) : (letter \o numeral)[Len(letter) + i] = numeral[i]
    <3>1. letter \in Seq(Plain) /\ numeral \in Seq(Plain)
      BY <2>3, <2>5
    <3>2. QED
      BY <3>1, TwoParts
  <2>7. (letter \o numeral)[1] = letter[1]
    BY <2>5, <2>6
  <2>8. QED
    BY <2>2, <2>3, <2>4, <2>5, <2>6, <2>7 DEF c, numeral
<1>3. DOMAIN parts = 1 .. 4 /\ parts = [i \in 1 .. 4 |-> parts[i]]
  OBVIOUS
<1> HIDE DEF all, parts
<1>4. parts \in Seq(Seq(Plain)) /\ Len(parts) = 4
  <2>1. parts \in [1 .. 4 -> Seq(Plain)]
    BY <1>2, <1>3
  <2>2. parts \in Seq(Seq(Plain))
    <3>1. 4 \in Nat /\ \A n \in Nat : \A f \in [1 .. n -> Seq(Plain)] : f \in Seq(Seq(Plain))
      OBVIOUS
    <3>2. QED
      BY <2>1, <3>1, Zenon
  <2>3. DOMAIN parts = 1 .. Len(parts) /\ Len(parts) \in Nat
    BY <2>2, LenProperties
  <2>4. QED
    BY <1>3, <2>2, <2>3
<1>5. all \in Seq(Plain)
  <2>1. 0 \in 0 .. Len(parts)
    BY <1>4
  <2>2. FlattenSeq(parts) \in Seq(Plain)
    BY <1>4, <2>1, FlattenPrefix
  <2>3. QED
    BY <1>1, <2>2
<1>6. ASSUME NEW k \in 1 .. 4
      PROVE  /\ upto(k - 1) \in Nat
             /\ upto(k) = upto(k - 1) + Len(parts[k])
             /\ \A j \in 1 .. Len(parts[k]) : all[upto(k - 1) + j] = parts[k][j]
  <2>1. k \in 1 .. Len(parts)
    BY <1>4
  <2> DEFINE part == parts[k]
  <2>2. /\ upto(k - 1) \in Nat
        /\ upto(k) = upto(k - 1) + Len(part)
        /\ \A j \in 1 .. Len(part) : FlattenSeq(parts)[upto(k - 1) + j] = part[j]
    <3>1. parts \in Seq(Seq(Plain))
      BY <1>4
    <3>2. QED
      BY <2>1, <3>1, FlattenPart, Zenon
  <2> HIDE DEF upto, part
  <2>3. /\ upto(k - 1) \in Nat
        /\ upto(k) = upto(k - 1) + Len(part)
        /\ \A j \in 1 .. Len(part) : all[upto(k - 1) + j] = part[j]
    BY <1>1, <2>2, Zenon
  <2>4. QED
    BY <2>3, Zenon DEF part
<1>7. upto(0) = 0
  <2>1. SubSeq(parts, 1, 0) = << >>
    BY SubSeqEmpty
  <2>2. FlattenSeq(<< >>) = << >> /\ Len(<< >>) = 0
    BY DEF FlattenSeq
  <2>3. QED
    BY <2>1, <2>2, Zenon
<1>8. upto(4) = Len(all)
  <2>1. SubSeq(parts, 1, 4) = parts
    BY <1>4, SubSeqFull
  <2>2. QED
    BY <1>1, <2>1, Zenon
<1>9. \A k \in 0 .. 4 : upto(k) \in Nat
  <2>1. upto(1 - 1) \in Nat /\ upto(2 - 1) \in Nat /\ upto(3 - 1) \in Nat /\ upto(4 - 1) \in Nat
    <3>1. 1 \in 1 .. 4 /\ 2 \in 1 .. 4 /\ 3 \in 1 .. 4 /\ 4 \in 1 .. 4
      OBVIOUS
    <3>2. QED
      BY <1>6, <3>1, Zenon
  <2>2. upto(4) \in Nat
    BY <1>5, <1>8
  <2>3. \A k \in 0 .. 4 : k = 1 - 1 \/ k = 2 - 1 \/ k = 3 - 1 \/ k = 4 - 1 \/ k = 4
    OBVIOUS
  <2> HIDE DEF upto
  <2>4. QED
    BY <2>1, <2>2, <2>3, Zenon
<1> HIDE DEF upto
<1>10. /\ at \in [1 .. 5 -> Nat]
       /\ \A k \in 1 .. 5 : at[k] = upto(k - 1) + 1
  <2>1. \A k \in 1 .. 5 : k - 1 \in 0 .. 4
    OBVIOUS
  <2>2. QED
    BY <1>9, <2>1
<1>11. at[1] = 1 /\ at[5] = Len(all) + 1
  <2>1. 1 - 1 = 0 /\ 5 - 1 = 4
    OBVIOUS
  <2>2. at[1] = upto(0) + 1 /\ at[5] = upto(4) + 1
    BY <1>10, <2>1
  <2>3. QED
    BY <1>7, <1>8, <2>2
<1> HIDE DEF at
<1>12. ASSUME NEW k \in 1 .. 4
       PROVE  /\ at[k + 1] = at[k] + 1 + Len(ScoreOf(scores, k))
              /\ all[at[k]] = SeatChar[k - 1]
              /\ \A j \in 1 .. Len(ScoreOf(scores, k)) : all[at[k] + j] = ScoreOf(scores, k)[j]
  <2> DEFINE u == upto(k - 1)
             v == upto(k)
             len == Len(ScoreOf(scores, k))
             plen == Len(parts[k])
  <2>1. at[k] = u + 1 /\ at[k + 1] = v + 1
    <3>1. k \in 1 .. 5 /\ k + 1 \in 1 .. 5 /\ (k + 1) - 1 = k
      OBVIOUS
    <3>2. at[k + 1] = upto((k + 1) - 1) + 1 /\ at[k] = upto(k - 1) + 1
      BY <1>10, <3>1
    <3>3. QED
      BY <3>1, <3>2
  <2>2. /\ u \in Nat /\ v = u + plen
        /\ \A j \in 1 .. plen : all[u + j] = parts[k][j]
    BY <1>6
  <2>3. plen = 1 + len /\ len \in Nat /\ parts[k][1] = SeatChar[k - 1]
        /\ \A j \in 1 .. len : parts[k][1 + j] = ScoreOf(scores, k)[j]
    BY <1>2
  <2> HIDE DEF u, v, len, plen
  <2>4. at[k + 1] = at[k] + 1 + len
    BY <2>1, <2>2, <2>3
  <2>5. all[at[k]] = SeatChar[k - 1]
    <3>1. 1 \in 1 .. plen
      BY <2>3
    <3>2. QED
      BY <2>1, <2>2, <2>3, <3>1
  <2>6. ASSUME NEW j \in 1 .. len PROVE all[at[k] + j] = ScoreOf(scores, k)[j]
    <3>1. 1 + j \in 1 .. plen /\ at[k] + j = u + (1 + j)
      BY <2>1, <2>2, <2>3
    <3>2. QED
      BY <2>2, <2>3, <3>1
  <2>7. QED
    BY <2>4, <2>5, <2>6 DEF len
<1>13. ScoresStandAt(all, scores, at)
  BY <1>10, <1>11, <1>12 DEF ScoresStandAt
<1>14. QED
  BY <1>5, <1>13 DEF all

(***************************************************************************)
(* Each character of the text is a letter of a seat where one stands, or a *)
(* digit behind it.                                                        *)
(***************************************************************************)
LEMMA ScoreChars ==
    ASSUME NEW scores \in [0 .. 3 -> Nat], NEW chars \in Seq(Plain), NEW at,
           ScoresStandAt(chars, scores, at)
    PROVE  /\ \A k \in 1 .. 4 : /\ at[k] \in 1 .. Len(chars) /\ at[k + 1] \in Nat
                                /\ at[k] < at[k + 1] /\ at[k + 1] <= Len(chars) + 1
           /\ \A i \in 1 .. Len(chars) : chars[i] \in SeatChars => \E k \in 1 .. 4 : i = at[k]
           /\ \A i \in 1 .. Len(chars) : chars[i] \in SeatChars \cup Digits
           /\ \A j, k \in 1 .. 4 : j < k => at[j + 1] <= at[k]
PROOF
<1> DEFINE len == [k \in 1 .. 4 |-> Len(ScoreOf(scores, k))]
           n == Len(chars)
<1>1. /\ at \in [1 .. 5 -> Nat] /\ at[1] = 1 /\ at[5] = n + 1
      /\ \A k \in 1 .. 4 :
            /\ at[k + 1] = at[k] + 1 + len[k]
            /\ chars[at[k]] = SeatChar[k - 1]
            /\ \A j \in 1 .. len[k] : chars[at[k] + j] = ScoreOf(scores, k)[j]
  BY DEF ScoresStandAt
<1>2. ASSUME NEW k \in 1 .. 4
      PROVE  ScoreOf(scores, k) \in Seq(Digits) /\ len[k] \in Nat
  <2>1. scores[k - 1] \in Nat
    OBVIOUS
  <2>2. ScoreOf(scores, k) \in Seq(Digits)
    BY <2>1, NumeralDigits DEF ScoreOf
  <2>3. QED
    BY <2>2
<1>3. n \in Nat
  OBVIOUS
<1> HIDE DEF len, n
<1>4. 1 .. 4 = {1, 2, 3, 4}
  OBVIOUS
<1>5. /\ at[2] = at[1] + 1 + len[1] /\ at[3] = at[2] + 1 + len[2]
      /\ at[4] = at[3] + 1 + len[3] /\ at[5] = at[4] + 1 + len[4]
  <2>1. /\ at[1 + 1] = at[1] + 1 + len[1] /\ at[2 + 1] = at[2] + 1 + len[2]
        /\ at[3 + 1] = at[3] + 1 + len[3] /\ at[4 + 1] = at[4] + 1 + len[4]
    BY <1>1, <1>4
  <2>2. QED
    BY <2>1
<1> DEFINE a1 == at[1]
           a2 == at[2]
           a3 == at[3]
           a4 == at[4]
           a5 == at[5]
           l1 == len[1]
           l2 == len[2]
           l3 == len[3]
           l4 == len[4]
<1>6. at[1] \in Nat /\ at[2] \in Nat /\ at[3] \in Nat /\ at[4] \in Nat /\ at[5] \in Nat
      /\ len[1] \in Nat /\ len[2] \in Nat /\ len[3] \in Nat /\ len[4] \in Nat
  BY <1>1, <1>2, <1>4
<1> HIDE DEF a1, a2, a3, a4, a5, l1, l2, l3, l4
<1>15. /\ a2 = 1 + 1 + l1 /\ a3 = a2 + 1 + l2 /\ a4 = a3 + 1 + l3 /\ a5 = a4 + 1 + l4
       /\ a1 = 1 /\ a5 = n + 1
       /\ a2 \in Nat /\ a3 \in Nat /\ a4 \in Nat /\ a5 \in Nat
       /\ l1 \in Nat /\ l2 \in Nat /\ l3 \in Nat /\ l4 \in Nat
  BY <1>1, <1>5, <1>6, Zenon DEF a1, a2, a3, a4, a5, l1, l2, l3, l4
<1>7. ASSUME NEW k \in 1 .. 4
      PROVE  at[k] \in 1 .. n /\ at[k + 1] \in Nat /\ at[k] < at[k + 1] /\ at[k + 1] <= n + 1
  <2>1. /\ 1 <= at[1] /\ at[1] < at[2] /\ at[2] < at[3] /\ at[3] < at[4] /\ at[4] < at[5]
        /\ at[1] <= n /\ at[2] <= n /\ at[3] <= n /\ at[4] <= n
        /\ 1 <= at[2] /\ 1 <= at[3] /\ 1 <= at[4]
        /\ at[2] <= n + 1 /\ at[3] <= n + 1 /\ at[4] <= n + 1 /\ at[5] <= n + 1
    <3>1. /\ 1 <= a1 /\ a1 < a2 /\ a2 < a3 /\ a3 < a4 /\ a4 < a5
          /\ a1 <= n /\ a2 <= n /\ a3 <= n /\ a4 <= n
          /\ 1 <= a2 /\ 1 <= a3 /\ 1 <= a4
          /\ a2 <= n + 1 /\ a3 <= n + 1 /\ a4 <= n + 1 /\ a5 <= n + 1
      BY <1>3, <1>15
    <3>2. QED
      BY <3>1 DEF a1, a2, a3, a4, a5
  <2>2. \/ k = 1 /\ k + 1 = 2
        \/ k = 2 /\ k + 1 = 3
        \/ k = 3 /\ k + 1 = 4
        \/ k = 4 /\ k + 1 = 5
    OBVIOUS
  <2>3. /\ at[k] \in Nat /\ 1 <= at[k] /\ at[k] <= n
        /\ at[k + 1] \in Nat /\ at[k] < at[k + 1] /\ at[k + 1] <= n + 1
    BY <1>6, <2>1, <2>2, Zenon
  <2>4. QED
    BY <1>3, <2>3
<1>8. ASSUME NEW j \in 1 .. 4, NEW k \in 1 .. 4, j < k
      PROVE  at[j + 1] <= at[k]
  <2>1. /\ at[2] <= at[2] /\ at[2] <= at[3] /\ at[2] <= at[4] /\ at[3] <= at[3]
        /\ at[3] <= at[4] /\ at[4] <= at[4]
    <3>1. /\ a2 <= a2 /\ a2 <= a3 /\ a2 <= a4 /\ a3 <= a3 /\ a3 <= a4 /\ a4 <= a4
      BY <1>15
    <3>2. QED
      BY <3>1 DEF a2, a3, a4
  <2>2. \/ j = 1 /\ j + 1 = 2 /\ (k = 2 \/ k = 3 \/ k = 4)
        \/ j = 2 /\ j + 1 = 3 /\ (k = 3 \/ k = 4)
        \/ j = 3 /\ j + 1 = 4 /\ k = 4
    BY <1>8
  <2>3. QED
    BY <2>1, <2>2, Zenon
<1>9. ASSUME NEW i \in 1 .. n
      PROVE  \E k \in 1 .. 4 : i = at[k] \/ \E j \in 1 .. len[k] : i = at[k] + j
  <2>1. i \in Nat
    BY <1>3
  <2>2. \E k \in 1 .. 4 : at[k] <= i /\ i < at[k] + 1 + len[k]
    <3>1. \/ at[1] <= i /\ i < at[1] + 1 + len[1]
          \/ at[2] <= i /\ i < at[2] + 1 + len[2]
          \/ at[3] <= i /\ i < at[3] + 1 + len[3]
          \/ at[4] <= i /\ i < at[4] + 1 + len[4]
      <4>1. i >= 1 /\ i < n + 1 /\ i \in Nat
        BY <1>3
      <4>2. \/ a1 <= i /\ i < a1 + 1 + l1
            \/ a2 <= i /\ i < a2 + 1 + l2
            \/ a3 <= i /\ i < a3 + 1 + l3
            \/ a4 <= i /\ i < a4 + 1 + l4
        BY <1>3, <1>15, <4>1
      <4>3. QED
        BY <4>2, Zenon DEF a1, a2, a3, a4, l1, l2, l3, l4
    <3>2. QED
      BY <1>4, <3>1, Zenon
  <2>3. PICK k \in 1 .. 4 : at[k] <= i /\ i < at[k] + 1 + len[k]
    BY <2>2
  <2>4. at[k] \in Nat /\ len[k] \in Nat
    <3>1. at[k] \in 1 .. n /\ len[k] \in Nat
      BY <1>2, <1>7, Zenon
    <3>2. \A a \in 1 .. n : a \in Nat
      BY <1>3
    <3>3. QED
      BY <3>1, <3>2, Zenon
  <2>5. CASE i # at[k]
    <3> DEFINE a == at[k]
               l == len[k]
    <3>1. a \in Nat /\ l \in Nat /\ a <= i /\ i < a + 1 + l /\ i # a /\ i \in Nat
      BY <2>1, <2>3, <2>4, <2>5
    <3> HIDE DEF a, l
    <3>2. i - a \in 1 .. l /\ i = a + (i - a)
      BY <3>1
    <3>3. i - at[k] \in 1 .. len[k] /\ i = at[k] + (i - at[k])
      BY <3>2 DEF a, l
    <3>4. QED
      BY <3>3, Zenon
  <2>6. QED
    BY <2>5
<1>10. ASSUME NEW k \in 1 .. 4, NEW j \in 1 .. len[k]
       PROVE  chars[at[k] + j] \in Digits
  <2>1. ScoreOf(scores, k)[j] \in Digits
    <3>1. Len(ScoreOf(scores, k)) = len[k]
      BY DEF len
    <3>2. ASSUME NEW s \in Seq(Digits), NEW i \in 1 .. Len(s) PROVE s[i] \in Digits
      OBVIOUS
    <3>3. j \in 1 .. Len(ScoreOf(scores, k))
      BY <3>1, Zenon
    <3>4. QED
      BY <1>2, <3>2, <3>3, Zenon
  <2>2. QED
    BY <1>1, <2>1
<1>11. Digits \cap SeatChars = {}
  <2>1. \A seat \in 0 .. 3 : SeatChar[seat] \in {78, 69, 83, 87}
    BY SeatReads
  <2>2. SeatChars \subseteq {78, 69, 83, 87}
    BY <2>1, Letters DEF SeatChars
  <2>3. QED
    BY <2>2 DEF Digits
<1>12. ASSUME NEW k \in 1 .. 4 PROVE chars[at[k]] \in SeatChars
  <2>1. k - 1 \in 0 .. 3
    OBVIOUS
  <2>2. SeatChar[k - 1] \in SeatChars
    BY <2>1, SeatReads, Zenon
  <2>3. QED
    BY <1>1, <2>2, Zenon
<1>13. ASSUME NEW i \in 1 .. n
       PROVE  /\ chars[i] \in SeatChars => \E k \in 1 .. 4 : i = at[k]
              /\ chars[i] \in SeatChars \cup Digits
  <2>1. PICK k \in 1 .. 4 : i = at[k] \/ \E j \in 1 .. len[k] : i = at[k] + j
    BY <1>9
  <2>2. CASE i = at[k]
    BY <1>12, <2>2
  <2>3. CASE \E j \in 1 .. len[k] : i = at[k] + j
    BY <1>10, <1>11, <2>3
  <2>4. QED
    BY <2>1, <2>2, <2>3
<1>14. QED
  BY <1>7, <1>8, <1>13 DEF n

(***************************************************************************)
(* The scores are read as the numerals they were written with.             *)
(***************************************************************************)
LEMMA ScoresRead ==
    ASSUME NEW scores \in [0 .. 3 -> Nat], NEW buff,
           SubSeq(buff, 1, Len(buff) - 2) = ScoresChars(scores)
    PROVE  ScoresIn(buff) = [seat \in 0 .. 3 |-> Numeral[scores[seat]]]
PROOF
<1> DEFINE chars == SubSeq(buff, 1, Len(buff) - 2)
           n == Len(chars)
           letters == {i \in DOMAIN chars : chars[i] \in SeatChars}
           end(i) == Min({j \in letters : j > i} \cup {Len(chars) + 1})
           score(i) == SubSeq(chars, i + 1, end(i) - 1)
           read == [seat \in {SeatOf(chars[i]) : i \in letters} |->
                        score(CHOOSE i \in letters : SeatOf(chars[i]) = seat)]
<1>1. ScoresIn(buff) =
        IF /\ letters # {}
           /\ \A i \in DOMAIN chars : chars[i] \in SeatChars \cup Digits
           /\ \A i, j \in letters : chars[i] = chars[j] => i = j
           /\ \A i \in letters : score(i) # << >>
        THEN read
        ELSE << >>
  BY Zenon DEF ScoresIn
<1>2. chars \in Seq(Plain) /\ \E at : ScoresStandAt(chars, scores, at)
  <2>1. chars = ScoresChars(scores)
    OBVIOUS
  <2> HIDE DEF chars
  <2>2. QED
    BY <2>1, ScoresStand
<1> HIDE DEF chars
<1>3. PICK at : ScoresStandAt(chars, scores, at)
  BY <1>2
<1>4. n \in Nat /\ DOMAIN chars = 1 .. n
  BY <1>2
<1>5. /\ \A k \in 1 .. 4 : /\ at[k] \in 1 .. n /\ at[k + 1] \in Nat
                           /\ at[k] < at[k + 1] /\ at[k + 1] <= n + 1
      /\ \A i \in 1 .. n : chars[i] \in SeatChars => \E k \in 1 .. 4 : i = at[k]
      /\ \A i \in 1 .. n : chars[i] \in SeatChars \cup Digits
      /\ \A j, k \in 1 .. 4 : j < k => at[j + 1] <= at[k]
  BY <1>2, <1>3, ScoreChars
<1>6. /\ at[5] = n + 1
      /\ \A k \in 1 .. 4 :
            /\ at[k + 1] = at[k] + 1 + Len(ScoreOf(scores, k))
            /\ chars[at[k]] = SeatChar[k - 1]
            /\ \A j \in 1 .. Len(ScoreOf(scores, k)) : chars[at[k] + j] = ScoreOf(scores, k)[j]
  BY <1>3 DEF ScoresStandAt
<1> HIDE DEF n
<1>7. ASSUME NEW k \in 1 .. 4
      PROVE  /\ at[k] \in letters
             /\ chars[at[k]] \in SeatChars /\ SeatOf(chars[at[k]]) = k - 1 /\ k - 1 \in 0 .. 3
  <2>1. k - 1 \in 0 .. 3
    OBVIOUS
  <2>2. chars[at[k]] \in SeatChars /\ SeatOf(chars[at[k]]) = k - 1
    <3>1. chars[at[k]] = SeatChar[k - 1]
      BY <1>6
    <3>2. QED
      BY <2>1, <3>1, SeatReads, Zenon
  <2>3. QED
    BY <1>4, <1>5, <2>1, <2>2
<1>8. letters = {at[k] : k \in 1 .. 4}
  BY <1>4, <1>5, <1>7
<1>9. ASSUME NEW j \in 1 .. 4, NEW k \in 1 .. 4, at[j] = at[k] PROVE j = k
  <2>1. j - 1 = k - 1
    BY <1>7, <1>9, Zenon
  <2>2. QED
    BY <2>1
<1>10. ASSUME NEW k \in 1 .. 4 PROVE end(at[k]) = at[k + 1]
  <2> DEFINE later == {j \in letters : j > at[k]} \cup {Len(chars) + 1}
             u == at[k]
             v == at[k + 1]
  <2>1. u \in Nat /\ v \in Nat /\ u < v /\ v <= n + 1 /\ n + 1 = Len(chars) + 1
    <3>1. u \in 1 .. n /\ v \in Nat /\ u < v /\ v <= n + 1
      BY <1>5, Zenon
    <3>2. \A a \in 1 .. n : a \in Nat
      BY <1>4
    <3>3. QED
      BY <3>1, <3>2, Zenon DEF n
  <2>2. v \in later
    <3>1. CASE k = 4
      BY <1>6, <3>1 DEF n
    <3>2. CASE k # 4
      <4>1. k + 1 \in 1 .. 4
        BY <3>2
      <4>2. QED
        BY <1>7, <2>1, <4>1
    <3>3. QED
      BY <3>1, <3>2
  <2>3. ASSUME NEW x \in later PROVE x \in Nat /\ v <= x
    <3>1. CASE x = Len(chars) + 1
      BY <1>4, <2>1, <3>1
    <3>2. CASE x \in letters /\ x > u
      <4>1. PICK j \in 1 .. 4 : x = at[j]
        BY <1>8, <3>2
      <4>2. at[j] \in Nat /\ at[j] > at[k]
        <5>1. \A a \in 1 .. n : a \in Nat
          BY <1>4
        <5>2. at[j] \in 1 .. n
          BY <1>5, Zenon
        <5>3. QED
          BY <3>2, <4>1, <5>1, <5>2, Zenon
      <4>3. ~ (j < k) /\ j # k
        <5>1. ASSUME j < k PROVE FALSE
          <6>1. at[j + 1] <= at[k] /\ at[j] < at[j + 1] /\ at[j + 1] \in Nat
            BY <1>5, <5>1
          <6>2. \A x1 \in Nat, x2 \in Nat, x3 \in Nat : ~ (x1 > x2 /\ x1 < x3 /\ x3 <= x2)
            OBVIOUS
          <6>3. QED
            BY <2>1, <4>2, <6>1, <6>2, Zenon DEF u
        <5>2. j # k
          <6>1. \A y \in Nat : ~ (y > y)
            OBVIOUS
          <6>2. QED
            BY <4>2, <6>1, Zenon
        <5>3. QED
          BY <5>1, <5>2
      <4>4. k < j
        BY <4>3
      <4>5. at[k + 1] <= at[j]
        BY <1>5, <4>4
      <4>6. QED
        BY <4>1, <4>2, <4>5
    <3>3. QED
      BY <3>1, <3>2
  <2> HIDE DEF later, u, v
  <2>4. Min(later) = v
    <3>1. \A x \in later : (\A y \in later : x <= y) => x = v
      BY <2>1, <2>2, <2>3
    <3>2. v \in later /\ \A y \in later : v <= y
      BY <2>2, <2>3
    <3>3. QED
      BY <3>1, <3>2, Zenon DEF Min
  <2>5. QED
    BY <2>4 DEF later, u, v
<1> HIDE DEF end
<1>11. ASSUME NEW k \in 1 .. 4 PROVE score(at[k]) = ScoreOf(scores, k)
  <2> DEFINE s == ScoreOf(scores, k)
             part == SubSeq(chars, at[k] + 1, at[k + 1] - 1)
             u == at[k] + 1
             v == at[k + 1] - 1
             len == Len(s)
  <2>1. s \in Seq(Plain)
    <3>1. scores[k - 1] \in Nat
      OBVIOUS
    <3>2. s \in Seq(Digits)
      BY <3>1, NumeralDigits DEF ScoreOf
    <3>3. Digits \subseteq Plain
      BY DEF Digits, Plain
    <3>4. QED
      BY <3>2, <3>3, SeqMonotonic
  <2>2. len \in Nat /\ u \in Int /\ v \in Int /\ v - u + 1 = len /\ 1 <= u /\ v <= n
    <3>1. len \in Nat
      BY <2>1
    <3>2. at[k] \in 1 .. n /\ at[k + 1] \in Nat /\ at[k + 1] <= n + 1
          /\ at[k + 1] = at[k] + 1 + len
      BY <1>5, <1>6
    <3> DEFINE a == at[k]
               b == at[k + 1]
    <3>3. a \in 1 .. n /\ b = a + 1 + len /\ b <= n + 1
      BY <3>2
    <3> HIDE DEF len, a, b
    <3>4. /\ a + 1 \in Int /\ b - 1 \in Int /\ (b - 1) - (a + 1) + 1 = len
          /\ 1 <= a + 1 /\ b - 1 <= n
      BY <1>4, <3>1, <3>3
    <3>5. QED
      BY <3>1, <3>4, Zenon DEF a, b
  <2>3. \A j \in 1 .. len : chars[at[k] + j] = s[j]
    BY <1>6
  <2>4. \A i \in u .. v : chars[i] \in Plain
    <3>1. \A i \in u .. v : i \in 1 .. n
      <4>1. u \in Int /\ v \in Int /\ 1 <= u /\ v <= n
        BY <2>2, Zenon
      <4>2. n \in Int
        BY <1>4
      <4> HIDE DEF u, v, n
      <4>3. QED
        BY <4>1, <4>2
    <3>2. QED
      BY <1>2, <1>4, <3>1
  <2> HIDE DEF s, len
  <2>5. \A j \in 1 .. len : u + j - 1 = at[k] + j
    <3>1. \A a \in 1 .. n : \A j \in 1 .. len : (a + 1) + j - 1 = a + j
      BY <1>4, <2>2
    <3>2. QED
      BY <1>5, <3>1, Zenon
  <2> HIDE DEF u, v
  <2>6. /\ SubSeq(chars, u, v) \in Seq(Plain)
        /\ Len(SubSeq(chars, u, v)) = IF u <= v THEN v - u + 1 ELSE 0
        /\ \A i \in 1 .. v - u + 1 : SubSeq(chars, u, v)[i] = chars[u + i - 1]
    BY <2>2, <2>4, SubSeqProperties, SMT
  <2>7. part = SubSeq(chars, u, v)
    BY DEF u, v
  <2> HIDE DEF part
  <2>8. part \in Seq(Plain) /\ Len(part) = len /\ \A i \in 1 .. len : part[i] = s[i]
    <3>1. Len(part) = len
      <4>1. Len(part) = IF u <= v THEN v - u + 1 ELSE 0
        BY <2>6, <2>7, Zenon
      <4> DEFINE l == Len(part)
      <4> HIDE DEF l
      <4>2. l = len
        BY <2>2, <4>1 DEF l
      <4>3. QED
        BY <4>2 DEF l
    <3>2. ASSUME NEW i \in 1 .. len PROVE part[i] = s[i]
      <4>1. i \in 1 .. v - u + 1 /\ chars[u + i - 1] = chars[at[k] + i]
        BY <2>2, <2>5
      <4>2. QED
        BY <2>3, <2>6, <2>7, <4>1
    <3>3. QED
      BY <2>6, <2>7, <3>1, <3>2
  <2>9. part = s
    <3>1. Len(part) = Len(s) /\ \A i \in 1 .. Len(part) : part[i] = s[i]
      BY <2>8 DEF len
    <3>2. QED
      BY <2>1, <2>8, <3>1, SeqEqual
  <2>10. score(at[k]) = part
    BY <1>10 DEF part
  <2>11. QED
    BY <2>9, <2>10 DEF s
<1> HIDE DEF score
<1>12. letters # {}
  <2>1. 1 \in 1 .. 4
    OBVIOUS
  <2>2. QED
    BY <1>8, <2>1
<1>13. \A i, j \in letters : chars[i] = chars[j] => i = j
  <2> SUFFICES ASSUME NEW i \in letters, NEW j \in letters, chars[i] = chars[j] PROVE i = j
    OBVIOUS
  <2>1. PICK k \in 1 .. 4 : i = at[k]
    BY <1>8
  <2>2. PICK m \in 1 .. 4 : j = at[m]
    BY <1>8
  <2>3. k - 1 = m - 1
    BY <1>7, <2>1, <2>2
  <2>4. QED
    BY <2>1, <2>2, <2>3
<1>14. \A i \in letters : score(i) # << >>
  <2> SUFFICES ASSUME NEW i \in letters PROVE score(i) # << >>
    OBVIOUS
  <2>1. PICK k \in 1 .. 4 : i = at[k]
    BY <1>8
  <2>2. scores[k - 1] \in Nat
    OBVIOUS
  <2>3. Len(ScoreOf(scores, k)) >= 1
    BY <2>2, NumeralDigits DEF ScoreOf
  <2>4. QED
    BY <1>11, <2>1, <2>3
<1> HIDE DEF letters
<1>15. {SeatOf(chars[i]) : i \in letters} = 0 .. 3
  <2>1. \A seat \in 0 .. 3 : seat + 1 \in 1 .. 4 /\ (seat + 1) - 1 = seat
    OBVIOUS
  <2>2. QED
    BY <1>7, <1>8, <2>1
<1>16. ASSUME NEW seat \in 0 .. 3
       PROVE  score(CHOOSE i \in letters : SeatOf(chars[i]) = seat) = Numeral[scores[seat]]
  <2>1. seat + 1 \in 1 .. 4 /\ (seat + 1) - 1 = seat
    OBVIOUS
  <2>2. at[seat + 1] \in letters /\ SeatOf(chars[at[seat + 1]]) = seat
    BY <1>7, <2>1
  <2>3. ASSUME NEW i \in letters, SeatOf(chars[i]) = seat PROVE i = at[seat + 1]
    <3>1. PICK k \in 1 .. 4 : i = at[k]
      BY <1>8
    <3>2. k - 1 = seat
      BY <1>7, <2>3, <3>1
    <3>3. k = seat + 1
      BY <3>2
    <3>4. QED
      BY <3>1, <3>3
  <2>4. (CHOOSE i \in letters : SeatOf(chars[i]) = seat) = at[seat + 1]
    BY <2>2, <2>3, Zenon
  <2>5. score(at[seat + 1]) = ScoreOf(scores, seat + 1)
    BY <1>11, <2>1
  <2>6. ScoreOf(scores, seat + 1) = Numeral[scores[seat]]
    BY <2>1 DEF ScoreOf
  <2>7. QED
    BY <2>4, <2>5, <2>6, Zenon
<1>17. read = [seat \in 0 .. 3 |-> Numeral[scores[seat]]]
  BY <1>15, <1>16
<1>18. \A i \in DOMAIN chars : chars[i] \in SeatChars \cup Digits
  BY <1>4, <1>5
<1> HIDE DEF read
<1>19. QED
  BY <1>1, <1>12, <1>13, <1>14, <1>17, <1>18, Zenon

(***************************************************************************)
(* How long the text of the scores is.                                     *)
(***************************************************************************)
LEMMA ScoresLength ==
    ASSUME NEW scores \in [0 .. 3 -> Nat], NEW most \in Nat,
           \A seat \in 0 .. 3 : Len(Numeral[scores[seat]]) <= most
    PROVE  Len(ScoresChars(scores)) \in 8 .. 4 * most + 4
PROOF
<1> DEFINE chars == ScoresChars(scores)
           n == Len(chars)
           l1 == Len(Numeral[scores[0]])
           l2 == Len(Numeral[scores[1]])
           l3 == Len(Numeral[scores[2]])
           l4 == Len(Numeral[scores[3]])
<1>1. n \in Nat
  BY ScoresStand
<1>2. ASSUME NEW seat \in 0 .. 3
      PROVE  Len(Numeral[scores[seat]]) \in 1 .. most
  <2>1. scores[seat] \in Nat
    OBVIOUS
  <2>2. Numeral[scores[seat]] \in Seq(Digits) /\ Len(Numeral[scores[seat]]) >= 1
    BY <2>1, NumeralDigits
  <2>3. \A s \in Seq(Digits) : Len(s) \in Nat
    OBVIOUS
  <2> DEFINE l == Len(Numeral[scores[seat]])
  <2>4. l \in Nat /\ l >= 1 /\ l <= most
    BY <2>2, <2>3, Zenon
  <2> HIDE DEF l
  <2>5. l \in 1 .. most
    BY <2>4
  <2>6. QED
    BY <2>5 DEF l
<1>3. l1 \in 1 .. most /\ l2 \in 1 .. most /\ l3 \in 1 .. most /\ l4 \in 1 .. most
  <2>1. 0 \in 0 .. 3 /\ 1 \in 0 .. 3 /\ 2 \in 0 .. 3 /\ 3 \in 0 .. 3
    OBVIOUS
  <2>2. QED
    BY <1>2, <2>1, Zenon
<1>4. PICK at : ScoresStandAt(chars, scores, at)
  BY ScoresStand
<1>5. /\ at[1] = 1 /\ at[5] = n + 1
      /\ \A k \in 1 .. 4 : at[k + 1] = at[k] + 1 + Len(ScoreOf(scores, k))
  BY <1>4 DEF ScoresStandAt
<1>6. /\ at[1 + 1] = at[1] + 1 + Len(ScoreOf(scores, 1))
      /\ at[2 + 1] = at[2] + 1 + Len(ScoreOf(scores, 2))
      /\ at[3 + 1] = at[3] + 1 + Len(ScoreOf(scores, 3))
      /\ at[4 + 1] = at[4] + 1 + Len(ScoreOf(scores, 4))
  <2>1. 1 \in 1 .. 4 /\ 2 \in 1 .. 4 /\ 3 \in 1 .. 4 /\ 4 \in 1 .. 4
    OBVIOUS
  <2>2. QED
    BY <1>5, <2>1, Zenon
<1>7. /\ Len(ScoreOf(scores, 1)) = l1 /\ Len(ScoreOf(scores, 2)) = l2
      /\ Len(ScoreOf(scores, 3)) = l3 /\ Len(ScoreOf(scores, 4)) = l4
  <2>1. 1 - 1 = 0 /\ 2 - 1 = 1 /\ 3 - 1 = 2 /\ 4 - 1 = 3
    OBVIOUS
  <2>2. QED
    BY <2>1, Zenon DEF ScoreOf
<1>8. 1 + 1 = 2 /\ 2 + 1 = 3 /\ 3 + 1 = 4 /\ 4 + 1 = 5
  OBVIOUS
<1>9. /\ at[2] = at[1] + 1 + l1 /\ at[3] = at[2] + 1 + l2
      /\ at[4] = at[3] + 1 + l3 /\ at[5] = at[4] + 1 + l4
  BY <1>6, <1>7, <1>8, Zenon
<1> HIDE DEF n, l1, l2, l3, l4
<1>10. n = l1 + l2 + l3 + l4 + 4
  <2>1. at[5] = 1 + 1 + l1 + 1 + l2 + 1 + l3 + 1 + l4
    BY <1>5, <1>9, Zenon
  <2>2. n + 1 = 1 + 1 + l1 + 1 + l2 + 1 + l3 + 1 + l4
    BY <1>5, <2>1, Zenon
  <2>3. QED
    BY <1>1, <1>3, <2>2
<1>11. n \in 8 .. 4 * most + 4
  BY <1>1, <1>3, <1>10
<1>12. QED
  BY <1>11 DEF n, chars

(***************************************************************************)
(* SCORE, of any scores that a round may give.                             *)
(***************************************************************************)
LEMMA SCOREReads ==
    ASSUME NEW m \in SCOREs
    PROVE  /\ WriteSCORE(m) = Packet("SCORE", ScoresChars(m.scores))
           /\ ScoresChars(m.scores) \in Seq(Plain)
           /\ Len(ScoresChars(m.scores)) + 2 <= MaxSize.SCORE
           /\ \A buff : Holds(buff, ScoresChars(m.scores)) => ReadSCORE(buff) = m
PROOF
<1> DEFINE scores == m.scores
           body == ScoresChars(scores)
           n == Len(body)
<1>1. /\ scores \in [0 .. 3 -> 0 .. 254] /\ m = [name |-> "SCORE", scores |-> scores]
  BY DEF SCOREs
<1> HIDE DEF scores
<1>2. /\ scores \in [0 .. 3 -> Nat] /\ DOMAIN scores = 0 .. 3
      /\ scores = [seat \in 0 .. 3 |-> scores[seat]]
      /\ \A seat \in 0 .. 3 : scores[seat] \in 0 .. 254
  BY <1>1
<1>3. \A seat \in 0 .. 3 : Len(Numeral[scores[seat]]) <= 3
  <2> TAKE seat \in 0 .. 3
  <2> DEFINE s == scores[seat]
  <2>1. s \in Nat /\ s \in 0 .. 254
    BY <1>2
  <2> HIDE DEF s
  <2>2. s < 10 \/ s \in 10 .. 99 \/ s \in 100 .. 999
    BY <2>1
  <2>3. CASE s < 10
    <3>1. Numeral[s] = <<s + 48>>
      BY <2>1, <2>3, ShortNumerals
    <3>2. \A x : Len(<<x>>) <= 3
      OBVIOUS
    <3>3. QED
      BY <3>1, <3>2, Zenon DEF s
  <2>4. CASE s \in 10 .. 99
    <3>1. Numeral[s] = <<(s \div 10) + 48, (s % 10) + 48>>
      BY <2>1, <2>4, ShortNumerals
    <3>2. \A x, y : Len(<<x, y>>) <= 3
      OBVIOUS
    <3>3. QED
      BY <3>1, <3>2, Zenon DEF s
  <2>5. CASE s \in 100 .. 999
    <3>1. Len(Numeral[s]) = 3
      BY <2>1, <2>5, ShortNumerals
    <3>2. 3 <= 3
      OBVIOUS
    <3>3. QED
      BY <3>1, <3>2, Zenon DEF s
  <2>6. QED
    BY <2>2, <2>3, <2>4, <2>5, Zenon
<1>4. body \in Seq(Plain) /\ n \in 8 .. 16
  <2>1. body \in Seq(Plain)
    BY <1>2, ScoresStand
  <2>2. ASSUME NEW most \in Nat, most = 3 PROVE n \in 8 .. 4 * most + 4
    <3>1. \A seat \in 0 .. 3 : Len(Numeral[scores[seat]]) <= most
      BY <1>3, <2>2
    <3>2. QED
      BY <1>2, <3>1, ScoresLength
  <2> HIDE DEF n
  <2>3. n \in 8 .. 4 * 3 + 4
    BY <2>2
  <2>4. QED
    BY <2>1, <2>3
<1> HIDE DEF body
<1>5. ASSUME NEW buff, Holds(buff, body)
      PROVE  ReadSCORE(buff) = m
  <2> DEFINE read == [seat \in 0 .. 3 |-> Numeral[scores[seat]]]
  <2>1. ScoresIn(buff) = read
    <3>1. SubSeq(buff, 1, Len(buff) - 2) = ScoresChars(scores)
      BY <1>4, <1>5, Trimmed, Zenon DEF body
    <3>2. QED
      BY <1>2, <3>1, ScoresRead
  <2>2. Len(buff) >= MinSize.SCORE
    <3>1. Len(buff) = n + 2
      BY <1>5 DEF Holds
    <3>2. MinSize.SCORE = 10
      BY DEF MinSize
    <3> HIDE DEF n
    <3>3. QED
      BY <1>4, <3>1, <3>2
  <2>3. read # << >>
    <3>1. DOMAIN read # DOMAIN << >>
      <4>1. DOMAIN read = 0 .. 3 /\ DOMAIN << >> = 1 .. 0 /\ 0 \in 0 .. 3 /\ 0 \notin 1 .. 0
        OBVIOUS
      <4> HIDE DEF read
      <4>2. QED
        BY <4>1
    <3> HIDE DEF read
    <3>2. QED
      BY <3>1
  <2>4. ASSUME NEW seat \in 0 .. 3
        PROVE  /\ (Number(read[seat]) % 65536) < 255
               /\ (Number(read[seat]) % 256) = scores[seat]
    <3>1. scores[seat] \in Nat /\ scores[seat] \in 0 .. 254
      BY <1>2
    <3>2. Number(Numeral[scores[seat]]) = scores[seat]
      BY <3>1, NumberOfNumeral
    <3>3. read[seat] = Numeral[scores[seat]]
      OBVIOUS
    <3>4. \A s \in 0 .. 254 : (s % 65536) < 255 /\ (s % 256) = s
      OBVIOUS
    <3> DEFINE number == Number(read[seat])
    <3>5. number = scores[seat]
      BY <3>2, <3>3, Zenon
    <3> HIDE DEF number, read
    <3>6. QED
      BY <3>1, <3>4, <3>5 DEF number
  <2>5. DOMAIN read = 0 .. 3
    OBVIOUS
  <2> HIDE DEF read
  <2>6. [seat \in DOMAIN read |-> (Number(read[seat]) % 256)] = scores
    <3>1. [seat \in 0 .. 3 |-> (Number(read[seat]) % 256)] = [seat \in 0 .. 3 |-> scores[seat]]
      BY <2>4
    <3>2. QED
      BY <1>2, <2>5, <3>1, Zenon
  <2>7. \A seat \in DOMAIN read : (Number(read[seat]) % 65536) < 255
    BY <2>4, <2>5
  <2>8. ReadSCORE(buff) = [name |-> "SCORE", scores |-> scores]
    BY <2>1, <2>2, <2>3, <2>6, <2>7 DEF ReadSCORE
  <2>9. QED
    BY <1>1, <2>8, Zenon
<1>6. n + 2 <= MaxSize.SCORE
  <2>1. MaxSize.SCORE = 18
    BY DEF MaxSize
  <2> HIDE DEF n
  <2>2. QED
    BY <1>4, <2>1
<1>7. WriteSCORE(m) = Packet("SCORE", body)
  BY DEF WriteSCORE, body, scores
<1>8. QED
  BY <1>4, <1>5, <1>6, <1>7 DEF body, scores

(***************************************************************************)
(* TOTAL, of any totals of no more than ten digits.                        *)
(***************************************************************************)
LEMMA TOTALReads ==
    ASSUME NEW m \in TOTALs
    PROVE  /\ WriteTOTAL(m) = Packet("TOTAL", ScoresChars(m.scores))
           /\ ScoresChars(m.scores) \in Seq(Plain)
           /\ Len(ScoresChars(m.scores)) + 2 <= MaxSize.TOTAL
           /\ \A buff : Holds(buff, ScoresChars(m.scores)) => ReadTOTAL(buff) = m
PROOF
<1> DEFINE scores == m.scores
           body == ScoresChars(scores)
           n == Len(body)
<1>1. /\ scores \in [0 .. 3 -> {k \in Nat : Len(Numeral[k]) <= 10}]
      /\ m = [name |-> "TOTAL", scores |-> scores]
  BY DEF TOTALs
<1> HIDE DEF scores
<1>2. /\ scores \in [0 .. 3 -> Nat] /\ DOMAIN scores = 0 .. 3
      /\ scores = [seat \in 0 .. 3 |-> scores[seat]]
      /\ \A seat \in 0 .. 3 : scores[seat] \in Nat
      /\ \A seat \in 0 .. 3 : Len(Numeral[scores[seat]]) <= 10
  BY <1>1
<1>3. body \in Seq(Plain) /\ n \in 8 .. 44
  <2>1. body \in Seq(Plain)
    BY <1>2, ScoresStand
  <2>2. ASSUME NEW most \in Nat, most = 10 PROVE n \in 8 .. 4 * most + 4
    <3>1. \A seat \in 0 .. 3 : Len(Numeral[scores[seat]]) <= most
      BY <1>2, <2>2
    <3>2. QED
      BY <1>2, <3>1, ScoresLength
  <2> HIDE DEF n
  <2>3. n \in 8 .. 4 * 10 + 4
    BY <2>2
  <2>4. QED
    BY <2>1, <2>3
<1> HIDE DEF body
<1>4. ASSUME NEW buff, Holds(buff, body)
      PROVE  ReadTOTAL(buff) = m
  <2> DEFINE read == [seat \in 0 .. 3 |-> Numeral[scores[seat]]]
  <2>1. ScoresIn(buff) = read
    <3>1. SubSeq(buff, 1, Len(buff) - 2) = ScoresChars(scores)
      BY <1>3, <1>4, Trimmed, Zenon DEF body
    <3>2. QED
      BY <1>2, <3>1, ScoresRead
  <2>2. Len(buff) >= MinSize.TOTAL
    <3>1. Len(buff) = n + 2
      BY <1>4 DEF Holds
    <3>2. MinSize.TOTAL = 10
      BY DEF MinSize
    <3> HIDE DEF n
    <3>3. QED
      BY <1>3, <3>1, <3>2
  <2>3. read # << >>
    <3>1. DOMAIN read # DOMAIN << >>
      <4>1. DOMAIN read = 0 .. 3 /\ DOMAIN << >> = 1 .. 0 /\ 0 \in 0 .. 3 /\ 0 \notin 1 .. 0
        OBVIOUS
      <4> HIDE DEF read
      <4>2. QED
        BY <4>1
    <3> HIDE DEF read
    <3>2. QED
      BY <3>1
  <2>4. ASSUME NEW seat \in 0 .. 3 PROVE Number(read[seat]) = scores[seat]
    <3>1. read[seat] = Numeral[scores[seat]]
      OBVIOUS
    <3>2. QED
      BY <1>2, <3>1, NumberOfNumeral, Zenon
  <2>5. DOMAIN read = 0 .. 3
    OBVIOUS
  <2> HIDE DEF read
  <2>6. [seat \in DOMAIN read |-> Number(read[seat])] = scores
    <3>1. [seat \in 0 .. 3 |-> Number(read[seat])] = [seat \in 0 .. 3 |-> scores[seat]]
      BY <2>4
    <3>2. QED
      BY <1>2, <2>5, <3>1, Zenon
  <2>7. ReadTOTAL(buff) = [name |-> "TOTAL", scores |-> scores]
    BY <2>1, <2>2, <2>3, <2>6, Zenon DEF ReadTOTAL
  <2>8. QED
    BY <1>1, <2>7, Zenon
<1>5. n + 2 <= MaxSize.TOTAL
  <2>1. MaxSize.TOTAL = 95
    BY DEF MaxSize
  <2> HIDE DEF n
  <2>2. QED
    BY <1>3, <2>1
<1>6. WriteTOTAL(m) = Packet("TOTAL", body)
  BY DEF WriteTOTAL, body, scores
<1>7. QED
  BY <1>3, <1>4, <1>5, <1>6 DEF body, scores

-----------------------------------------------------------------------------
(* A reader that expects an id of another length.                          *)

(***************************************************************************)
(* A zero or a suit's letter is no value of a card.                        *)
(***************************************************************************)
LEMMA NoValue ==
    \A x : x = 48 \/ x = 67 \/ x = 68 \/ x = 72 \/ x = 83
            => x \notin Digits \ {48} /\ x \notin {65, 74, 75, 81}
  BY DEF Digits

(***************************************************************************)
(* What no card begins with: a zero or a suit's letter, a one without a    *)
(* zero, and a figure or digit without a suit.                             *)
(***************************************************************************)
LEMMA NoCard ==
    ASSUME NEW buff \in Seq(0 .. 255), NEW i \in Nat, i >= 1, i + 1 <= Len(buff),
           \/ buff[i] \in {48, 67, 68, 72, 83}
           \/ buff[i] = 49 /\ buff[i + 1] # 48
           \/ buff[i] \in {50, 51} /\ buff[i + 1] \notin SuitChars
    PROVE  ~ IsCard(CardAt(buff, i))
PROOF
<1> DEFINE c == buff[i]
           d == buff[i + 1]
<1>1. CharAt(buff, i) = c /\ CharAt(buff, i + 1) = d
  <2>1. i \in DOMAIN buff /\ i + 1 \in DOMAIN buff
    OBVIOUS
  <2>2. QED
    BY <2>1, Zenon DEF CharAt
<1>2. /\ c \in {48, 67, 68, 72, 83} \/ (c = 49 /\ d # 48) \/ (c \in {50, 51} /\ d \notin SuitChars)
  OBVIOUS
<1> HIDE DEF c, d
<1>3. CASE c \in {48, 67, 68, 72, 83} \/ (c = 49 /\ d # 48)
  <2>1. \A v \in J .. A : FigureChar[v] \in {65, 74, 75, 81}
    <3>1. J .. A = 11 .. 14
      BY DEF J, A
    <3>2. QED
      BY <3>1, FiguresDiffer, Zenon
  <2>2. c # 49 => c \notin Digits \ {48} /\ ~ \E v \in J .. A : FigureChar[v] = c
    <3>1. c # 49 => c \notin Digits \ {48} /\ c \notin {65, 74, 75, 81}
      <4>1. c # 49 => c = 48 \/ c = 67 \/ c = 68 \/ c = 72 \/ c = 83
        BY <1>3
      <4>2. QED
        BY <4>1, NoValue
    <3>2. ASSUME NEW v \in J .. A, FigureChar[v] = c PROVE c \in {65, 74, 75, 81}
      BY <2>1, <3>2
    <3>3. QED
      BY <3>1, <3>2, Zenon
  <2>3. c = 49 => d # 48
    BY <1>3
  <2>4. Value(buff, i) = 0
    BY <1>1, <2>2, <2>3, Zenon DEF Value
  <2>5. QED
    BY <2>4 DEF IsCard, CardAt
<1>4. CASE c \in {50, 51} /\ d \notin SuitChars
  <2>1. CardWidth(buff, i) = 2
    BY <1>1, <1>4 DEF CardWidth
  <2>2. i + 2 - 1 = i + 1
    OBVIOUS
  <2>3. CardAt(buff, i).suit = d
    BY <1>1, <2>1, <2>2 DEF CardAt
  <2>4. QED
    BY <1>4, <2>3 DEF IsCard
<1>5. QED
  BY <1>2, <1>3, <1>4

(***************************************************************************)
(* The loop looks at the first position it is given.                       *)
(***************************************************************************)
LEMMA FirstLooked ==
    ASSUME NEW buff, NEW first \in Int, NEW last \in Int, first <= last,
           NEW most \in Nat, most >= 1,
           ~ IsCard(CardAt(buff, first))
    PROVE  ~ AllCards(CardsIn(buff, first, last, most).cards)
PROOF
<1> DEFINE Pass(f) == f = [k \in 1 .. most + 1 |->
                             IF k = 1 THEN first ELSE f[k - 1] + CardWidth(buff, f[k - 1])]
           start == CHOOSE f : Pass(f)
           looked == {k \in 1 .. most : start[k] <= last}
           count == Cardinality(looked)
           cards == [k \in 1 .. count |-> CardAt(buff, start[k])]
<1>1. CardsIn(buff, first, last, most) = [cards |-> cards, next |-> start[count + 1]]
  BY DEF CardsIn
<1>2. Pass(start)
  <2>1. most + 1 \in Nat
    OBVIOUS
  <2>2. \E f : Pass(f)
    <3>1. PICK f : StartsFrom(buff, first, most + 1, f)
      BY <2>1, StartsExist
    <3>2. Pass(f)
      BY <3>1 DEF StartsFrom
    <3> HIDE DEF Pass
    <3>3. QED
      BY <3>2
  <2> HIDE DEF Pass
  <2>3. QED
    BY <2>2
<1> HIDE DEF start
<1>3. start[1] = first
  <2>1. 1 \in 1 .. most + 1
    OBVIOUS
  <2>2. QED
    BY <1>2, <2>1
<1>4. 1 \in looked
  BY <1>3
<1>5. IsFiniteSet(looked)
  <2>1. IsFiniteSet(1 .. most) /\ looked \subseteq 1 .. most
    BY FS_Interval
  <2>2. QED
    BY <2>1, FS_Subset
<1> HIDE DEF looked
<1>6. count \in Nat /\ count # 0
  <2>1. count \in Nat
    BY <1>5, FS_CardinalityType
  <2>2. count = 0 => looked = {}
    BY <1>5, FS_EmptySet
  <2>3. QED
    BY <1>4, <2>1, <2>2
<1> HIDE DEF count
<1>7. 1 \in 1 .. count
  BY <1>6
<1>8. 1 \in DOMAIN cards /\ cards[1] = CardAt(buff, start[1])
  BY <1>7
<1> HIDE DEF cards
<1>9. ~ IsCard(cards[1])
  BY <1>3, <1>8
<1>10. CardsIn(buff, first, last, most).cards = cards
  BY <1>1
<1>11. ~ AllCards(cards)
  BY <1>8, <1>9, Zenon DEF AllCards
<1>12. QED
  BY <1>10, <1>11, Zenon

(***************************************************************************)
(* Where the first character of cards stands, no suit and no zero does,    *)
(* and where the second does, no card can begin.                           *)
(***************************************************************************)
LEMMA FirstTwo ==
    ASSUME NEW cards \in Seq(Card), Len(cards) >= 1
    PROVE  /\ Len(CardsChars(cards)) \in Nat /\ Len(CardsChars(cards)) >= 2
           /\ CardsChars(cards)[1] \notin {48} \cup SuitChars
           /\ CardsChars(cards)[2] \in {48, 67, 68, 72, 83}
PROOF
<1> DEFINE texts == CardTexts(cards)
           all == CardsChars(cards)
           card == cards[1]
           text == CardChars(card)
           l == Len(all)
           n == Len(text)
<1>1. 1 \in 1 .. Len(cards) /\ card \in Card
  OBVIOUS
<1>2. /\ texts \in Seq(Seq(Plain)) /\ Len(texts) = Len(cards)
      /\ texts[1] = text
      /\ all = FlattenSeq(texts) /\ all \in Seq(Plain)
  BY <1>1, CardTextsAre
<1> HIDE DEF texts
<1>3. /\ Len(FlattenSeq(SubSeq(texts, 1, 1))) = Len(FlattenSeq(SubSeq(texts, 1, 0))) + n
      /\ Len(FlattenSeq(SubSeq(texts, 1, 1))) <= l
      /\ \A j \in 1 .. n : all[Len(FlattenSeq(SubSeq(texts, 1, 0))) + j] = text[j]
  <2>1. 1 \in 1 .. Len(texts) /\ 1 - 1 = 0
    BY <1>1, <1>2
  <2>2. /\ Len(FlattenSeq(SubSeq(texts, 1, 1))) =
              Len(FlattenSeq(SubSeq(texts, 1, 1 - 1))) + Len(texts[1])
        /\ Len(FlattenSeq(SubSeq(texts, 1, 1))) <= Len(FlattenSeq(texts))
        /\ \A j \in 1 .. Len(texts[1]) :
              FlattenSeq(texts)[Len(FlattenSeq(SubSeq(texts, 1, 1 - 1))) + j] = texts[1][j]
    <3>1. ASSUME NEW k \in 1 .. Len(texts)
          PROVE  /\ Len(FlattenSeq(SubSeq(texts, 1, k))) =
                       Len(FlattenSeq(SubSeq(texts, 1, k - 1))) + Len(texts[k])
                 /\ Len(FlattenSeq(SubSeq(texts, 1, k))) <= Len(FlattenSeq(texts))
                 /\ \A j \in 1 .. Len(texts[k]) :
                       FlattenSeq(texts)[Len(FlattenSeq(SubSeq(texts, 1, k - 1))) + j] =
                         texts[k][j]
      BY <1>2, FlattenPart
    <3>2. QED
      BY <2>1, <3>1, Zenon
  <2>3. QED
    BY <1>2, <2>1, <2>2, Zenon
<1>4. Len(FlattenSeq(SubSeq(texts, 1, 0))) = 0
  <2>1. SubSeq(texts, 1, 0) = << >>
    BY SubSeqEmpty
  <2>2. FlattenSeq(<< >>) = << >> /\ Len(<< >>) = 0
    BY DEF FlattenSeq
  <2>3. QED
    BY <2>1, <2>2, Zenon
<1>5. /\ n = IF card.value = 10 THEN 3 ELSE 2
      /\ text[n] = card.suit
      /\ card.value < 10 => text[1] = card.value + 48
      /\ card.value = 10 => text[1] = 49 /\ text[2] = 48
      /\ card.value > 10 => text[1] = FigureChar[card.value]
  BY <1>1, CardWritten
<1>6. card.suit \in {67, 68, 72, 83} /\ card.value \in 2 .. 14
  BY <1>1 DEF Card, SuitChars, HEARTS, A
<1>7. l \in Nat
  BY <1>2
<1> DEFINE v == card.value
           c == text[1]
           d == text[2]
<1> HIDE DEF l, n, all, text, card
<1>8. n \in {2, 3} /\ 0 + n <= l /\ \A j \in 1 .. n : all[0 + j] = text[j]
  BY <1>3, <1>4, <1>5, SMT
<1>9. l >= 2 /\ all[1] = c /\ all[2] = d
  <2>1. \A j \in 1 .. n : 0 + j = j
    BY <1>8
  <2>2. \A j \in 1 .. n : all[j] = text[j]
    BY <1>8, <2>1, Zenon
  <2>3. l >= 2 /\ 1 \in 1 .. n /\ 2 \in 1 .. n
    BY <1>7, <1>8
  <2>4. QED
    BY <2>2, <2>3, Zenon
<1>10. /\ v \in 2 .. 14
       /\ v < 10 => c = v + 48
       /\ v = 10 => c = 49 /\ d = 48
       /\ v > 10 => c = FigureChar[v]
       /\ v # 10 => d \in {67, 68, 72, 83}
  BY <1>5, <1>6
<1> HIDE DEF v, c, d
<1>11. c \notin {48} \cup SuitChars
  <2>1. v > 10 => c \in {65, 74, 75, 81}
    <3>1. v > 10 => v \in {11, 12, 13, 14}
      BY <1>10
    <3>2. QED
      BY <1>10, <3>1, Letters
  <2>2. v < 10 => c \in 50 .. 57
    BY <1>10
  <2>3. v = 10 => c = 49
    BY <1>10
  <2>4. c \in {49, 65, 74, 75, 81} \cup 50 .. 57
    BY <1>10, <2>1, <2>2, <2>3
  <2>5. QED
    BY <2>4 DEF SuitChars, HEARTS
<1>12. d \in {48, 67, 68, 72, 83}
  BY <1>10
<1>13. QED
  BY <1>7, <1>9, <1>11, <1>12 DEF l, all

(***************************************************************************)
(* With an id of another length, what is read does not begin with a card,  *)
(* unless there is none and the id is short.                               *)
(***************************************************************************)
LEMMA OtherLength ==
    ASSUME NEW id \in 1 .. 13, NEW readers_id \in Nat, ~ AsLong(id, readers_id),
           NEW cards \in Seq(Card), NEW buff \in Seq(0 .. 255),
           Len(IdChars(id)) + Len(CardsChars(cards)) + 1 <= Len(buff),
           \A i \in 1 .. Len(IdChars(id)) : buff[i] = IdChars(id)[i],
           \A i \in 1 .. Len(CardsChars(cards)) :
                buff[Len(IdChars(id)) + i] = CardsChars(cards)[i],
           cards = << >> => buff[Len(IdChars(id)) + 1] = CR,
           NEW last \in Int, Len(IdChars(id)) + Len(CardsChars(cards)) <= last,
           NEW most \in Nat, most >= 1
    PROVE  \/ ~ AllCards(CardsIn(buff, IdLength(readers_id) + 1, last, most).cards)
           \/ id < 10 /\ cards = << >>
PROOF
<1> DEFINE chars == CardsChars(cards)
           lc == Len(chars)
           il == Len(IdChars(id))
           lb == Len(buff)
<1>1. /\ il = IF id >= 10 THEN 2 ELSE 1
      /\ id >= 10 => IdChars(id)[2] = id - 10 + 48
  BY IdWritten
<1>2. lb \in Nat
  OBVIOUS
<1>3. cards # << >> => /\ lc \in Nat /\ lc >= 2
                       /\ chars[1] \notin {48} \cup SuitChars
                       /\ chars[2] \in {48, 67, 68, 72, 83}
  <2>1. ASSUME cards # << >> PROVE Len(cards) >= 1
    BY <2>1
  <2>2. QED
    BY <2>1, FirstTwo
<1>4. lc \in Nat
  <2>1. chars \in Seq(Plain)
    BY CardTextsAre
  <2>2. QED
    BY <2>1
<1>5. /\ il + lc + 1 <= lb /\ il + lc <= last
      /\ \A i \in 1 .. il : buff[i] = IdChars(id)[i]
      /\ \A i \in 1 .. lc : buff[il + i] = chars[i]
      /\ cards = << >> => buff[il + 1] = CR
  OBVIOUS
<1> HIDE DEF chars, lc, il, lb
<1>6. CASE id >= 10
  <2>1. IdLength(readers_id) = 1 /\ il = 2
    BY <1>1, <1>6 DEF AsLong, IdLength
  <2>2. buff[2] \in {48, 49, 50, 51}
    <3>1. 2 \in 1 .. il
      BY <2>1
    <3>2. buff[2] = id - 10 + 48
      BY <1>1, <1>5, <1>6, <3>1
    <3>3. QED
      BY <1>6, <3>2
  <2>3. buff[3] \notin {48} \cup SuitChars
    <3>1. CASE cards = << >>
      <4>1. il + 1 = 3
        BY <2>1
      <4>2. buff[3] = CR
        BY <1>5, <3>1, <4>1, Zenon
      <4>3. QED
        BY <4>2 DEF CR, SuitChars, HEARTS
    <3>2. CASE cards # << >>
      <4>1. il + 1 = 3 /\ 1 \in 1 .. lc
        BY <1>3, <2>1, <3>2
      <4>2. buff[3] = chars[1]
        BY <1>5, <4>1, Zenon
      <4>3. QED
        BY <1>3, <3>2, <4>2, Zenon
    <3>3. QED
      BY <3>1, <3>2
  <2>4. 2 \in Nat /\ 2 >= 1 /\ 2 + 1 <= Len(buff) /\ 2 <= last /\ 2 + 1 = 3 /\ 2 \in Int
    BY <1>2, <1>4, <1>5, <2>1 DEF lb
  <2>5. \/ buff[2] \in {48, 67, 68, 72, 83}
        \/ buff[2] = 49 /\ buff[2 + 1] # 48
        \/ buff[2] \in {50, 51} /\ buff[2 + 1] \notin SuitChars
    <3>1. buff[2 + 1] # 48 /\ buff[2 + 1] \notin SuitChars
      BY <2>3, <2>4, Zenon
    <3>2. QED
      BY <2>2, <3>1
  <2>6. ASSUME NEW i \in Nat, i = 2 PROVE ~ AllCards(CardsIn(buff, i, last, most).cards)
    <3>1. ~ IsCard(CardAt(buff, i))
      BY <2>4, <2>5, <2>6, NoCard
    <3>2. i \in Int /\ i <= last
      BY <2>4, <2>6
    <3>3. QED
      BY <3>1, <3>2, FirstLooked
  <2>7. IdLength(readers_id) + 1 = 2
    BY <2>1
  <2>8. QED
    BY <2>4, <2>6, <2>7
<1>7. CASE id < 10 /\ cards # << >>
  <2>1. IdLength(readers_id) = 2 /\ il = 1
    BY <1>1, <1>7 DEF AsLong, IdLength
  <2>2. buff[3] \in {48, 67, 68, 72, 83}
    <3>1. il + 2 = 3 /\ 2 \in 1 .. lc
      BY <1>3, <1>7, <2>1
    <3>2. buff[3] = chars[2]
      BY <1>5, <3>1, Zenon
    <3>3. QED
      BY <1>3, <1>7, <3>2
  <2>3. 3 \in Nat /\ 3 >= 1 /\ 3 + 1 <= Len(buff) /\ 3 <= last /\ 3 \in Int
    BY <1>2, <1>3, <1>4, <1>5, <1>7, <2>1 DEF lb
  <2>4. ASSUME NEW i \in Nat, i = 3 PROVE ~ AllCards(CardsIn(buff, i, last, most).cards)
    <3>1. ~ IsCard(CardAt(buff, i))
      BY <2>2, <2>3, <2>4, NoCard
    <3>2. i \in Int /\ i <= last
      BY <2>3, <2>4
    <3>3. QED
      BY <3>1, <3>2, FirstLooked
  <2>5. IdLength(readers_id) + 1 = 3
    BY <2>1
  <2>6. QED
    BY <2>3, <2>4, <2>5
<1>8. QED
  BY <1>6, <1>7

(***************************************************************************)
(* No cards have no text.                                                  *)
(***************************************************************************)
LEMMA NoCards == CardsChars(<< >>) = << >>
PROOF
<1>1. [i \in DOMAIN << >> |-> CardChars(<< >>[i])] = << >>
  OBVIOUS
<1>2. FlattenSeq(<< >>) = << >>
  BY DEF FlattenSeq
<1>3. QED
  BY <1>1, <1>2, Zenon DEF CardsChars

(***************************************************************************)
(* So only a TRICK without cards may be taken for another one, and only    *)
(* TRICK 4 is: its CR makes it a 5.                                        *)
(***************************************************************************)
LEMMA TRICKOfOtherLength ==
    ASSUME NEW m \in TRICKs, NEW readers_id \in Nat, ~ AsLong(m.id, readers_id),
           NEW buff, Holds(buff, TRICKBody(m))
    PROVE  \/ ReadTRICK(buff, readers_id) = Rejected
           \/ m.id = 4 /\ m.cards = << >>
PROOF
<1> DEFINE body == TRICKBody(m)
           id == IdChars(m.id)
           cards == m.cards
           chars == CardsChars(cards)
           lb == Len(buff)
           li == Len(id)
           lc == Len(chars)
<1>1. m.id \in 1 .. 13 /\ cards \in Seq(Card)
  BY TRICKCards
<1>2. /\ id \in Seq(Plain) /\ li \in {1, 2}
      /\ m.id < 10 => li = 1 /\ id[1] = m.id + 48
  <2>1. ASSUME NEW d \in 1 .. 13
        PROVE  /\ IdChars(d) \in Seq(Plain) /\ Len(IdChars(d)) \in {1, 2}
               /\ d < 10 => Len(IdChars(d)) = 1 /\ IdChars(d)[1] = d + 48
    <3>1. ~ (d < 10 /\ d >= 10) /\ (d >= 10 \/ d < 10)
      OBVIOUS
    <3>2. QED
      BY <3>1, IdWritten
  <2>2. QED
    BY <1>1, <2>1, Zenon
<1>3. chars \in Seq(Plain) /\ lc \in Nat
  <2>1. chars \in Seq(Plain)
    BY <1>1, CardTextsAre
  <2>2. QED
    BY <2>1
<1>4. cards = << >> => lc = 0
  <2>1. ASSUME cards = << >> PROVE lc = 0
    <3>1. chars = << >>
      BY <2>1, NoCards, Zenon
    <3>2. QED
      BY <3>1
  <2>2. QED
    BY <2>1
<1>5. /\ buff \in Seq(0 .. 255) /\ Len(buff) = Len(body) + 2
      /\ \A i \in 1 .. Len(body) : buff[i] = body[i]
      /\ buff[Len(body) + 1] = CR
  BY DEF Holds
<1> HIDE DEF id, chars, cards
<1>6. /\ Len(body) = li + lc
      /\ \A i \in 1 .. li : body[i] = id[i]
      /\ \A i \in 1 .. lc : body[li + i] = chars[i]
  <2>1. body = id \o chars
    BY DEF TRICKBody, id, chars, cards
  <2> HIDE DEF body
  <2>2. QED
    BY <1>2, <1>3, <2>1, TwoParts
<1> HIDE DEF body, lb, li, lc
<1>7. lb = li + lc + 2 /\ buff[li + lc + 1] = CR
  BY <1>5, <1>6, Zenon DEF lb
<1>8. /\ \A i \in 1 .. li : buff[i] = id[i]
      /\ \A i \in 1 .. lc : buff[li + i] = chars[i]
  <2>1. /\ \A i \in 1 .. li : i \in 1 .. li + lc
        /\ \A i \in 1 .. lc : li + i \in 1 .. li + lc
    BY <1>2, <1>3
  <2>2. QED
    BY <1>5, <1>6, <2>1, Zenon
<1>9. lb - 2 \in Int /\ li + lc + 1 <= lb /\ li + lc <= lb - 2
  BY <1>2, <1>3, <1>7
<1>10. cards = << >> => buff[li + 1] = CR
  <2>1. cards = << >> => li + lc + 1 = li + 1
    BY <1>2, <1>4
  <2>2. QED
    BY <1>7, <2>1, Zenon
<1>11. \/ ~ AllCards(CardsIn(buff, IdLength(readers_id) + 1, lb - 2, 5).cards)
       \/ m.id < 10 /\ cards = << >>
  <2>1. ASSUME NEW last \in Int, li + lc <= last, NEW most \in Nat, most >= 1
        PROVE  \/ ~ AllCards(CardsIn(buff, IdLength(readers_id) + 1, last, most).cards)
               \/ m.id < 10 /\ cards = << >>
    BY <1>1, <1>5, <1>8, <1>9, <1>10, <2>1, OtherLength DEF lb, li, lc, id, chars
  <2>2. 5 \in Nat /\ 5 >= 1
    OBVIOUS
  <2>3. QED
    BY <1>9, <2>1, <2>2, Zenon
<1>12. CASE ~ AllCards(CardsIn(buff, IdLength(readers_id) + 1, lb - 2, 5).cards)
  BY <1>12, Zenon DEF ReadTRICK, lb
<1>13. CASE m.id < 10 /\ cards = << >>
  <2>1. readers_id >= 10 /\ IdLength(readers_id) = 2
    <3> DEFINE d == m.id
    <3>1. d \in 1 .. 13 /\ d < 10 /\ ~ ((d >= 10) = (readers_id >= 10))
      BY <1>1, <1>13 DEF AsLong
    <3> HIDE DEF d
    <3>2. readers_id >= 10
      BY <3>1
    <3>3. QED
      BY <3>2 DEF IdLength
  <2>2. buff[1] = m.id + 48 /\ buff[2] = 13
    <3>1. li = 1 /\ li + 1 = 2 /\ 1 \in 1 .. li
      BY <1>2, <1>13
    <3>2. buff[1] = id[1] /\ buff[2] = CR
      BY <1>8, <1>10, <1>13, <3>1, Zenon
    <3>3. QED
      BY <1>2, <1>13, <3>2 DEF CR
  <2>3. LewaId(buff, readers_id) = ((10 * (m.id + 48 - 48) + (13 - 48)) % 256)
    <3>1. LewaId(buff, readers_id) = ((10 * (buff[1] - 48) + (buff[2] - 48)) % 256)
      BY <2>1 DEF LewaId, DigitOf
    <3> DEFINE d == m.id
               one == buff[1]
               two == buff[2]
               id256 == LewaId(buff, readers_id)
    <3>2. d \in 1 .. 13 /\ one = d + 48 /\ two = 13
      BY <1>1, <2>2
    <3>3. id256 = ((10 * (one - 48) + (two - 48)) % 256)
      BY <3>1
    <3> HIDE DEF d, one, two, id256
    <3>4. id256 = ((10 * (d + 48 - 48) + (13 - 48)) % 256)
      BY <3>2, <3>3
    <3>5. QED
      BY <3>4 DEF id256, d
  <2>4. IdInRange(LewaId(buff, readers_id)) => m.id = 4
    <3>1. \A x \in 1 .. 9 : ((10 * (x + 48 - 48) + (13 - 48)) % 256) \in 1 .. 13 => x = 4
      OBVIOUS
    <3>2. m.id \in 1 .. 9
      BY <1>1, <1>13
    <3>3. QED
      BY <2>3, <3>1, <3>2, Zenon DEF IdInRange
  <2>5. QED
    BY <1>13, <2>4, Zenon DEF ReadTRICK, cards
<1>14. QED
  BY <1>11, <1>12, <1>13

(***************************************************************************)
(* A TAKEN has its cards, and is never taken for another one.              *)
(***************************************************************************)
LEMMA TAKENOfOtherLength ==
    ASSUME NEW m \in TAKENs, NEW readers_id \in Nat, ~ AsLong(m.id, readers_id),
           NEW buff, Holds(buff, TAKENBody(m))
    PROVE  ReadTAKEN(buff, readers_id) = Rejected
PROOF
<1> DEFINE body == TAKENBody(m)
           id == IdChars(m.id)
           cards == m.cards
           chars == CardsChars(cards)
           c == SeatChar[m.seat]
           end == <<c>>
           lb == Len(buff)
           li == Len(id)
           lc == Len(chars)
<1>1. m.id \in 1 .. 13 /\ cards \in [1 .. 4 -> Card] /\ m.seat \in 0 .. 3
  BY DEF TAKENs
<1>2. id \in Seq(Plain) /\ li \in {1, 2}
  BY <1>1, IdWritten
<1> HIDE DEF cards
<1>3. cards \in Seq(Card) /\ cards # << >>
  <2>1. 4 \in Nat /\ \A k \in Nat : \A f \in [1 .. k -> Card] : f \in Seq(Card)
    OBVIOUS
  <2>2. cards \in Seq(Card)
    BY <1>1, <2>1, Zenon
  <2>3. DOMAIN cards = 1 .. 4 /\ DOMAIN cards = 1 .. Len(cards) /\ Len(cards) \in Nat
    BY <1>1, <2>2, LenProperties
  <2>4. cards # << >>
    <3>1. 1 \in DOMAIN cards /\ 1 \notin DOMAIN << >>
      BY <2>3
    <3>2. QED
      BY <3>1, Zenon
  <2>5. QED
    BY <2>2, <2>4
<1>4. chars \in Seq(Plain) /\ lc \in Nat
  <2>1. chars \in Seq(Plain)
    BY <1>3, CardTextsAre
  <2>2. QED
    BY <2>1
<1>5. end \in Seq(Plain) /\ Len(end) = 1
  <2>1. c \in {78, 69, 83, 87}
    BY <1>1, SeatReads
  <2> HIDE DEF c
  <2>2. c \in Plain
    BY <2>1 DEF Plain
  <2>3. QED
    BY <2>2
<1>6. /\ buff \in Seq(0 .. 255) /\ Len(buff) = Len(body) + 2
      /\ \A i \in 1 .. Len(body) : buff[i] = body[i]
  BY DEF Holds
<1> HIDE DEF id, chars, end
<1>7. /\ Len(body) = li + lc + 1
      /\ \A i \in 1 .. li : body[i] = id[i]
      /\ \A i \in 1 .. lc : body[li + i] = chars[i]
  <2>1. body = id \o chars \o end
    BY DEF TAKENBody, id, chars, cards, end, c
  <2> HIDE DEF body
  <2>2. ASSUME NEW s \in Seq(Plain), NEW t \in Seq(Plain), NEW u \in Seq(Plain), NEW x,
               x = s \o t \o u
        PROVE  /\ Len(x) = Len(s) + Len(t) + Len(u)
               /\ \A i \in 1 .. Len(s) : x[i] = s[i]
               /\ \A i \in 1 .. Len(t) : x[Len(s) + i] = t[i]
    BY <2>2, ThreeParts
  <2>3. id \in Seq(Plain) /\ chars \in Seq(Plain) /\ end \in Seq(Plain)
    BY <1>2, <1>4, <1>5
  <2>4. /\ Len(body) = Len(id) + Len(chars) + Len(end)
        /\ \A i \in 1 .. Len(id) : body[i] = id[i]
        /\ \A i \in 1 .. Len(chars) : body[Len(id) + i] = chars[i]
    BY <2>1, <2>2, <2>3
  <2>5. QED
    BY <1>5, <2>4
<1> HIDE DEF body, lb, li, lc
<1>8. lb = li + lc + 1 + 2
  BY <1>6, <1>7, Zenon DEF lb
<1>9. /\ \A i \in 1 .. li : buff[i] = id[i]
      /\ \A i \in 1 .. lc : buff[li + i] = chars[i]
  <2>1. /\ \A i \in 1 .. li : i \in 1 .. li + lc + 1
        /\ \A i \in 1 .. lc : li + i \in 1 .. li + lc + 1
    BY <1>2, <1>4
  <2>2. QED
    BY <1>6, <1>7, <2>1, Zenon
<1>10. lb - 3 \in Int /\ li + lc + 1 <= lb /\ li + lc <= lb - 3
  BY <1>2, <1>4, <1>8
<1>11. ~ AllCards(CardsIn(buff, IdLength(readers_id) + 1, lb - 3, 4).cards)
  <2>1. ASSUME NEW last \in Int, li + lc <= last, NEW most \in Nat, most >= 1
        PROVE  ~ AllCards(CardsIn(buff, IdLength(readers_id) + 1, last, most).cards)
    BY <1>1, <1>3, <1>6, <1>9, <1>10, <2>1, OtherLength DEF lb, li, lc, id, chars
  <2>2. 4 \in Nat /\ 4 >= 1
    OBVIOUS
  <2>3. QED
    BY <1>10, <2>1, <2>2, Zenon
<1>12. QED
  BY <1>11, Zenon DEF ReadTAKEN, lb

=============================================================================
