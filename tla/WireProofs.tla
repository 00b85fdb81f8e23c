----------------------------- MODULE WireProofs -----------------------------
(***************************************************************************)
(* A packet never exceeds its buffer; as long as nothing times out and     *)
(* nothing else is written, each message is read as it was written, from   *)
(* its first character to its last; and wherever reads time out, the       *)
(* answers the server takes are messages that were written.                *)
(***************************************************************************)
EXTENDS WireInv, MessagesProofs, TLAPS

-----------------------------------------------------------------------------
(* Buffers.                                                                *)

(***************************************************************************)
(* The buffers have the sizes of the packets.                              *)
(***************************************************************************)
Sizes == {4, 6, 13, 17, 18, 34, 95}

(***************************************************************************)
(* A reader always has one of these, and TOTAL's when it has stopped.      *)
(***************************************************************************)
LEMMA SizeIs == Size \in Sizes /\ (program = "closed" => Size = 95)
PROOF
<1>1. /\ MaxSize.IAM = 6 /\ MaxSize.BUSY = 6 /\ MaxSize.DEAL = 34 /\ MaxSize.TRICK = 13
      /\ MaxSize.WRONG = 4 /\ MaxSize.TAKEN = 17 /\ MaxSize.SCORE = 18 /\ MaxSize.TOTAL = 95
  BY DEF MaxSize
<1>2. Known \subseteq {"IAM", "BUSY", "DEAL", "TRICK", "WRONG", "TAKEN", "SCORE", "TOTAL"}
  BY DEF Known
<1>3. Name \in Known \cup {"IAM", "unknown"}
  <2>1. CASE \E n \in Known : NameChars[n] = name
    <3>1. (CHOOSE n \in Known : NameChars[n] = name) \in Known
      BY <2>1, Zenon
    <3>2. QED
      BY <2>1, <3>1, Zenon DEF Name
  <2>2. CASE ~ \E n \in Known : NameChars[n] = name
    BY <2>2, Zenon DEF Name
  <2>3. QED
    BY <2>1, <2>2
<1>4. Name \in {"IAM", "BUSY", "DEAL", "TRICK", "WRONG", "TAKEN", "SCORE", "TOTAL", "unknown"}
  BY <1>2, <1>3
<1>5. MaxSize[Name] \in Sizes \/ Name = "unknown"
  <2>1. \A n \in {"IAM", "BUSY", "DEAL", "TRICK", "WRONG", "TAKEN", "SCORE", "TOTAL"} :
            MaxSize[n] \in Sizes
    BY <1>1 DEF Sizes
  <2>2. QED
    BY <1>4, <2>1
<1>6. Size \in Sizes
  BY <1>1, <1>5 DEF Size, Sizes
<1>7. program = "closed" => Size = 95
  <2>1. ASSUME program = "closed" PROVE Size = 95
    <3>1. Known = {}
      BY <2>1 DEF Known
    <3>2. Name = "unknown"
      BY <2>1, <3>1 DEF Name
    <3>3. QED
      BY <1>1, <2>1, <3>2 DEF Size
  <2>2. QED
    BY <2>1
<1>8. QED
  BY <1>6, <1>7

(***************************************************************************)
(* So they have after every step.                                          *)
(***************************************************************************)
LEMMA SizeNext == Size' \in Sizes /\ (program' = "closed" => Size' = 95)
PROOF
<1>1. Size \in Sizes /\ (program = "closed" => Size = 95)
  BY SizeIs
<1>2. (Size \in Sizes /\ (program = "closed" => Size = 95))'
  BY <1>1, PTL
<1>3. QED
  BY <1>2 DEF Sizes

(***************************************************************************)
(* The length of two joined texts.                                         *)
(***************************************************************************)
LEMMA JoinedLength ==
    ASSUME NEW S, NEW s \in Seq(S), NEW t \in Seq(S)
    PROVE  Len(s \o t) = Len(s) + Len(t)
  OBVIOUS

(***************************************************************************)
(* Two characters in the place of the last two.                            *)
(***************************************************************************)
LEMMA LastTwo ==
    ASSUME NEW S, NEW s \in Seq(S), NEW t \in Seq(S), Len(s) >= 2, Len(t) = 2
    PROVE  Len(SubSeq(s, 1, Len(s) - 2) \o t) = Len(s)
PROOF
<1>1. Len(s) \in Nat /\ Len(s) - 2 \in 0 .. Len(s)
  OBVIOUS
<1> DEFINE most == SubSeq(s, 1, Len(s) - 2)
<1>2. most \in Seq(S) /\ Len(most) = Len(s) - 2
  BY <1>1, Beginning
<1> HIDE DEF most
<1>3. Len(most \o t) = Len(most) + Len(t)
  BY <1>2, JoinedLength, Zenon
<1>4. QED
  BY <1>1, <1>2, <1>3 DEF most

(***************************************************************************)
(* The end characters always find room in the buffer they belong to.       *)
(***************************************************************************)
LEMMA EndFits ==
    ASSUME NEW chars \in Seq(0 .. 255), NEW size \in Sizes, Len(chars) <= size
    PROVE  Len(WithEndChars(chars, size)) <= size
PROOF
<1> DEFINE n == Len(chars)
           end == EndChars
           most == SubSeq(chars, 1, n - 2)
<1>1. n \in Nat /\ n <= size /\ size \in Nat /\ size >= 4
  BY DEF Sizes
<1>2. end \in Seq(0 .. 255) /\ Len(end) = 2
  BY DEF EndChars, CR, LF
<1> HIDE DEF end
<1>3. Len(chars \o end) = n + 2
  <2>1. Len(chars \o end) = Len(chars) + Len(end)
    BY <1>2, JoinedLength, Zenon
  <2>2. QED
    BY <1>2, <2>1, Zenon DEF n
<1>4. n >= 2 => Len(most \o end) = n
  BY <1>2, LastTwo, Zenon
<1> DEFINE with == WithEndChars(chars, size)
<1>5. \/ with = chars
      \/ with = end
      \/ with = chars \o end /\ (n < 2 \/ n < size - 2)
      \/ with = most \o end /\ ~ (n < 2)
  BY Zenon DEF WithEndChars, end, most, n
<1> HIDE DEF n, most, with
<1>6. Len(with) \in {n, 2} \/ (Len(with) = n + 2 /\ (n < 2 \/ n < size - 2))
  <2>1. CASE with = chars
    BY <2>1, Zenon DEF n
  <2>2. CASE with = end
    BY <1>2, <2>2, Zenon
  <2>3. CASE with = chars \o end /\ (n < 2 \/ n < size - 2)
    BY <1>3, <2>3, Zenon
  <2>4. CASE with = most \o end /\ ~ (n < 2)
    <3>1. n >= 2
      BY <1>1, <2>4
    <3>2. QED
      BY <1>4, <2>4, <3>1, Zenon
  <2>5. QED
    BY <1>5, <2>1, <2>2, <2>3, <2>4
<1> DEFINE l == Len(with)
<1>7. l \in {n, 2} \/ (l = n + 2 /\ (n < 2 \/ n < size - 2))
  BY <1>6
<1> HIDE DEF l
<1>8. l <= size
  BY <1>1, <1>7
<1>9. QED
  BY <1>8 DEF l, with

-----------------------------------------------------------------------------
(* The text of a message.                                                  *)

(***************************************************************************)
(* The names of the packets that have a body of their own.                 *)
(***************************************************************************)
PacketNames == {"BUSY", "DEAL", "TRICK", "WRONG", "TAKEN", "SCORE", "TOTAL"}

(***************************************************************************)
(* Names are four or five letters, told apart by their texts.              *)
(***************************************************************************)
LEMMA NameIs ==
    ASSUME NEW n \in PacketNames
    PROVE  /\ NameChars[n] \in Seq(65 .. 90)
           /\ Len(NameChars[n]) = IF n \in {"BUSY", "DEAL"} THEN 4 ELSE 5
           /\ NameChars[n][1] \in {68, 66} <=> n \in {"BUSY", "DEAL"}
           /\ \A k \in PacketNames : NameChars[k] = NameChars[n] => k = n
PROOF
<1> DEFINE busy == <<66, 85, 83, 89>>
           deal == <<68, 69, 65, 76>>
           trick == <<84, 82, 73, 67, 75>>
           wrong == <<87, 82, 79, 78, 71>>
           taken == <<84, 65, 75, 69, 78>>
           score == <<83, 67, 79, 82, 69>>
           total == <<84, 79, 84, 65, 76>>
<1>1. /\ NameChars["BUSY"] = busy /\ NameChars["DEAL"] = deal
      /\ NameChars["TRICK"] = trick /\ NameChars["WRONG"] = wrong
      /\ NameChars["TAKEN"] = taken /\ NameChars["SCORE"] = score
      /\ NameChars["TOTAL"] = total
  BY DEF NameChars
<1>2. busy \in Seq(65 .. 90) /\ Len(busy) = 4 /\ busy[1] = 66
  OBVIOUS
<1>3. deal \in Seq(65 .. 90) /\ Len(deal) = 4 /\ deal[1] = 68
  OBVIOUS
<1>4. trick \in Seq(65 .. 90) /\ Len(trick) = 5 /\ trick[1] = 84 /\ trick[2] = 82
  OBVIOUS
<1>5. wrong \in Seq(65 .. 90) /\ Len(wrong) = 5 /\ wrong[1] = 87 /\ wrong[2] = 82
  OBVIOUS
<1>6. taken \in Seq(65 .. 90) /\ Len(taken) = 5 /\ taken[1] = 84 /\ taken[2] = 65
  OBVIOUS
<1>7. score \in Seq(65 .. 90) /\ Len(score) = 5 /\ score[1] = 83 /\ score[2] = 67
  OBVIOUS
<1>8. total \in Seq(65 .. 90) /\ Len(total) = 5 /\ total[1] = 84 /\ total[2] = 79
  OBVIOUS
<1> HIDE DEF busy, deal, trick, wrong, taken, score, total
<1>9. \A k \in PacketNames : k = "BUSY" \/ k = "DEAL" \/ k = "TRICK" \/ k = "WRONG"
                             \/ k = "TAKEN" \/ k = "SCORE" \/ k = "TOTAL"
  BY DEF PacketNames
<1>10. ASSUME NEW j \in PacketNames
       PROVE  /\ NameChars[j] \in Seq(65 .. 90)
              /\ Len(NameChars[j]) = IF j \in {"BUSY", "DEAL"} THEN 4 ELSE 5
              /\ NameChars[j][1] \in {68, 66} <=> j \in {"BUSY", "DEAL"}
  <2> DEFINE c == NameChars[j]
  <2>1. CASE j = "BUSY"
    <3>1. c = busy
      BY <1>1, <2>1
    <3>2. QED
      BY <1>2, <2>1, <3>1
  <2>2. CASE j = "DEAL"
    <3>1. c = deal
      BY <1>1, <2>2
    <3>2. QED
      BY <1>3, <2>2, <3>1
  <2>3. CASE j = "TRICK"
    <3>1. c = trick
      BY <1>1, <2>3
    <3>2. QED
      BY <1>4, <2>3, <3>1
  <2>4. CASE j = "WRONG"
    <3>1. c = wrong
      BY <1>1, <2>4
    <3>2. QED
      BY <1>5, <2>4, <3>1
  <2>5. CASE j = "TAKEN"
    <3>1. c = taken
      BY <1>1, <2>5
    <3>2. QED
      BY <1>6, <2>5, <3>1
  <2>6. CASE j = "SCORE"
    <3>1. c = score
      BY <1>1, <2>6
    <3>2. QED
      BY <1>7, <2>6, <3>1
  <2>7. CASE j = "TOTAL"
    <3>1. c = total
      BY <1>1, <2>7
    <3>2. QED
      BY <1>8, <2>7, <3>1
  <2>8. QED
    BY <1>9, <2>1, <2>2, <2>3, <2>4, <2>5, <2>6, <2>7
<1>11. ASSUME NEW j \in PacketNames, NEW k \in PacketNames, NameChars[j] = NameChars[k]
       PROVE  j = k
  <2>1. /\ busy[1] # deal[1] /\ busy[1] # trick[1] /\ busy[1] # wrong[1] /\ busy[1] # taken[1]
        /\ busy[1] # score[1] /\ busy[1] # total[1]
        /\ deal[1] # trick[1] /\ deal[1] # wrong[1] /\ deal[1] # taken[1] /\ deal[1] # score[1]
        /\ deal[1] # total[1]
        /\ trick[1] # wrong[1] /\ trick[2] # taken[2] /\ trick[1] # score[1] /\ trick[2] # total[2]
        /\ wrong[1] # taken[1] /\ wrong[1] # score[1] /\ wrong[1] # total[1]
        /\ taken[1] # score[1] /\ taken[2] # total[2] /\ score[1] # total[1]
    BY <1>2, <1>3, <1>4, <1>5, <1>6, <1>7, <1>8
  <2>2. /\ busy # deal /\ busy # trick /\ busy # wrong /\ busy # taken /\ busy # score
        /\ busy # total /\ deal # trick /\ deal # wrong /\ deal # taken /\ deal # score
        /\ deal # total /\ trick # wrong /\ trick # taken /\ trick # score /\ trick # total
        /\ wrong # taken /\ wrong # score /\ wrong # total /\ taken # score /\ taken # total
        /\ score # total
    BY <2>1, Zenon
  <2>3. QED
    BY <1>1, <1>9, <1>11, <2>2
<1>12. QED
  BY <1>10, <1>11

(***************************************************************************)
(* What stands where in a packet: the name, then characters that are no    *)
(* end of a line, then the end characters.                                 *)
(***************************************************************************)
PacketOf(n, body, t) ==
    /\ t \in Seq(0 .. 255)
    /\ Len(NameChars[n]) \in Nat /\ Len(body) \in Nat
    /\ Len(t) = Len(NameChars[n]) + Len(body) + 2
    /\ \A i \in 1 .. Len(t) - 1 : t[i] # LF
    /\ t[Len(t) - 1] = CR /\ t[Len(t)] = LF
    /\ \A i \in 1 .. Len(NameChars[n]) : t[i] = NameChars[n][i]
    /\ \A read \in Seq(0 .. 255) :
            /\ Len(read) = Len(t) - Len(NameChars[n])
            /\ \A i \in 1 .. Len(t) - Len(NameChars[n]) : read[i] = t[Len(NameChars[n]) + i]
            => Holds(read, body)

(***************************************************************************)
(* A packet with a plain body is laid out like this.                       *)
(***************************************************************************)
LEMMA PacketIs ==
    ASSUME NEW n \in PacketNames, NEW body \in Seq(Plain)
    PROVE  PacketOf(n, body, Packet(n, body))
PROOF
<1> DEFINE t == Packet(n, body)
           head == NameChars[n]
           end == EndChars
           h == Len(head)
           b == Len(body)
<1>1. head \in Seq(65 .. 90)
  BY NameIs
<1>2. end \in Seq({CR, LF}) /\ Len(end) = 2 /\ end[1] = CR /\ end[2] = LF
  BY DEF EndChars
<1>3. /\ 65 .. 90 \subseteq 0 .. 255 /\ Plain \subseteq 0 .. 255 /\ {CR, LF} \subseteq 0 .. 255
      /\ \A c \in 65 .. 90 : c # LF
      /\ \A c \in Plain : c # LF
      /\ CR # LF
  BY DEF Plain, CR, LF
<1> HIDE DEF head, end
<1>4. /\ head \in Seq(0 .. 255) /\ body \in Seq(0 .. 255) /\ end \in Seq(0 .. 255)
  <2> DEFINE C == 0 .. 255
             N == 65 .. 90
             E == {CR, LF}
  <2>1. N \subseteq C /\ Plain \subseteq C /\ E \subseteq C
    BY <1>3
  <2>2. head \in Seq(N) /\ end \in Seq(E)
    BY <1>1, <1>2
  <2> HIDE DEF C, N, E
  <2>3. head \in Seq(C)
    BY <2>1, <2>2, SeqMonotonic
  <2>4. body \in Seq(C)
    BY <2>1, SeqMonotonic
  <2>5. end \in Seq(C)
    BY <2>1, <2>2, SeqMonotonic
  <2>6. QED
    BY <2>3, <2>4, <2>5 DEF C
<1>5. /\ \A i \in 1 .. h : head[i] # LF
      /\ \A i \in 1 .. b : body[i] # LF
  <2>1. ASSUME NEW S, NEW s \in Seq(S), NEW i \in 1 .. Len(s) PROVE s[i] \in S
    OBVIOUS
  <2>2. /\ \A i \in 1 .. h : head[i] \in 65 .. 90
        /\ \A i \in 1 .. b : body[i] \in Plain
    BY <1>1, <2>1
  <2> HIDE DEF h, b
  <2>3. \A c : (c \in 65 .. 90 \/ c \in Plain) => c # LF
    BY <1>3
  <2>4. QED
    BY <2>2, <2>3, Zenon
<1>6. t = head \o body \o end
  BY DEF Packet, head, end
<1> HIDE DEF t
<1>7. /\ t \in Seq(0 .. 255) /\ h \in Nat /\ b \in Nat
      /\ Len(t) = h + b + Len(end)
      /\ \A i \in 1 .. h : t[i] = head[i]
      /\ \A i \in 1 .. b : t[h + i] = body[i]
      /\ \A i \in 1 .. Len(end) : t[h + b + i] = end[i]
  <2>1. ASSUME NEW S, NEW s \in Seq(S), NEW u \in Seq(S), NEW v \in Seq(S), NEW x,
               x = s \o u \o v
        PROVE  /\ x \in Seq(S) /\ Len(s) \in Nat /\ Len(u) \in Nat
               /\ Len(x) = Len(s) + Len(u) + Len(v)
               /\ \A i \in 1 .. Len(s) : x[i] = s[i]
               /\ \A i \in 1 .. Len(u) : x[Len(s) + i] = u[i]
               /\ \A i \in 1 .. Len(v) : x[Len(s) + Len(u) + i] = v[i]
    BY <2>1, ThreeParts
  <2>2. QED
    BY <1>4, <1>6, <2>1
<1> HIDE DEF h, b
<1>8. Len(t) = h + b + 2
  BY <1>2, <1>7
<1>9. t[h + b + 1] = CR /\ t[h + b + 2] = LF
  <2>1. 1 \in 1 .. Len(end) /\ 2 \in 1 .. Len(end)
    BY <1>2
  <2>2. QED
    BY <1>2, <1>7, <2>1
<1> DEFINE l == Len(t)
<1>10. l = h + b + 2 /\ l - 1 = h + b + 1
  BY <1>7, <1>8
<1> HIDE DEF l
<1>11. t[l - 1] = CR /\ t[l] = LF
  BY <1>9, <1>10, Zenon
<1>12. ASSUME NEW i \in 1 .. l - 1 PROVE t[i] # LF
  <2>1. \/ i \in 1 .. h
        \/ i - h \in 1 .. b /\ i = h + (i - h)
        \/ i = h + b + 1
    BY <1>7, <1>10
  <2>2. CASE i \in 1 .. h
    BY <1>5, <1>7, <2>2, Zenon
  <2>3. CASE i - h \in 1 .. b /\ i = h + (i - h)
    <3>1. t[h + (i - h)] = body[i - h] /\ body[i - h] # LF
      BY <1>5, <1>7, <2>3, Zenon
    <3>2. QED
      BY <2>3, <3>1, Zenon
  <2>4. CASE i = h + b + 1
    BY <1>3, <1>9, <2>4, Zenon
  <2>5. QED
    BY <2>1, <2>2, <2>3, <2>4
<1>13. ASSUME NEW read \in Seq(0 .. 255), Len(read) = l - h, \A i \in 1 .. l - h : read[i] = t[h + i]
       PROVE  Holds(read, body)
  <2>1. l - h = b + 2 /\ \A i \in 1 .. b : i \in 1 .. l - h
    BY <1>7, <1>10
  <2>2. \A i \in 1 .. b : read[i] = body[i]
    BY <1>7, <1>13, <2>1, Zenon
  <2>3. /\ b + 1 \in 1 .. l - h /\ b + 2 \in 1 .. l - h
        /\ h + (b + 1) = h + b + 1 /\ h + (b + 2) = h + b + 2
    BY <1>7, <1>10
  <2>4. read[b + 1] = t[h + (b + 1)] /\ read[b + 2] = t[h + (b + 2)]
    BY <1>13, <2>3, Zenon
  <2>5. read[b + 1] = CR /\ read[b + 2] = LF
    BY <1>9, <2>3, <2>4, Zenon
  <2>6. Len(read) = b + 2
    BY <1>13, <2>1, Zenon
  <2>7. QED
    BY <2>2, <2>5, <2>6, Zenon DEF Holds, b
<1>14. QED
  <2>1. PacketOf(n, body, t)
    BY <1>7, <1>8, <1>11, <1>12, <1>13, Zenon DEF PacketOf, head, h, b, l
  <2>2. QED
    BY <2>1 DEF t

(***************************************************************************)
(* What a reader of packets of this name makes of a buffer.                *)
(***************************************************************************)
ReadOf(n, packet, id) ==
    CASE n = "IAM" -> ReadIAM(packet)
      [] n = "BUSY" -> ReadBUSY(packet)
      [] n = "DEAL" -> ReadDEAL(packet)
      [] n = "TRICK" -> ReadTRICK(packet, id)
      [] n = "WRONG" -> ReadWRONG(packet, id)
      [] n = "TAKEN" -> ReadTAKEN(packet, id)
      [] n = "SCORE" -> ReadSCORE(packet)
      [] n = "TOTAL" -> ReadTOTAL(packet)

(***************************************************************************)
(* How much of the text is read as its name.                               *)
(***************************************************************************)
Head1(m) == IF m.name = "IAM" THEN 0 ELSE Len(NameChars[m.name])

(***************************************************************************)
(* A text has one end, that is no further from the name than the buffer's  *)
(* size; and a buffer with all of it, up to this end, is read as the       *)
(* message.                                                                *)
(***************************************************************************)
Framed(m) ==
    /\ Text(m) \in Seq(0 .. 255)
    /\ Head1(m) \in Nat
    /\ Head1(m) + 2 <= Len(Text(m)) /\ Len(Text(m)) <= Head1(m) + MaxSize[m.name]
    /\ \A i \in 1 .. Len(Text(m)) - 1 : Text(m)[i] # LF
    /\ Text(m)[Len(Text(m)) - 1] = CR /\ Text(m)[Len(Text(m))] = LF
    /\ \A i \in 1 .. Head1(m) : Text(m)[i] = NameChars[m.name][i]
    /\ \A read \in Seq(0 .. 255) : \A id \in Nat :
            /\ Len(read) = Len(Text(m)) - Head1(m)
            /\ \A i \in 1 .. Len(Text(m)) - Head1(m) : read[i] = Text(m)[Head1(m) + i]
            /\ HasId(m) => SameLength(m.id, id)
            => ReadOf(m.name, read, id) = m

(***************************************************************************)
(* So has a packet whose body is read as the message.                      *)
(***************************************************************************)
LEMMA PacketFramed ==
    ASSUME NEW m, m.name \in PacketNames, NEW body \in Seq(Plain),
           Text(m) = Packet(m.name, body),
           Len(body) + 2 <= MaxSize[m.name],
           \A read : \A id \in Nat :
                Holds(read, body) /\ (HasId(m) => SameLength(m.id, id))
                    => ReadOf(m.name, read, id) = m
    PROVE  Framed(m)
PROOF
<1> DEFINE t == Text(m)
           h == Len(NameChars[m.name])
           l == Len(t)
           b == Len(body)
           max == MaxSize[m.name]
<1>1. t = Packet(m.name, body)
  OBVIOUS
<1> HIDE DEF t
<1>2. /\ t \in Seq(0 .. 255) /\ h \in Nat /\ b \in Nat
      /\ l = h + b + 2
      /\ \A i \in 1 .. l - 1 : t[i] # LF
      /\ t[l - 1] = CR /\ t[l] = LF
      /\ \A i \in 1 .. h : t[i] = NameChars[m.name][i]
      /\ \A read \in Seq(0 .. 255) :
            /\ Len(read) = l - h
            /\ \A i \in 1 .. l - h : read[i] = t[h + i]
            => Holds(read, body)
  <2>1. PacketOf(m.name, body, t)
    BY <1>1, PacketIs, Zenon
  <2>2. QED
    BY <2>1, Zenon DEF PacketOf
<1>3. Head1(m) = h
  BY DEF Head1, PacketNames
<1>4. max \in Nat /\ b + 2 <= max
  BY DEF PacketNames, MaxSize
<1> HIDE DEF h, l, b, max
<1>5. h + 2 <= l /\ l <= h + max
  BY <1>2, <1>4
<1>6. ASSUME NEW read \in Seq(0 .. 255), NEW id \in Nat,
             Len(read) = l - h, \A i \in 1 .. l - h : read[i] = t[h + i],
             HasId(m) => SameLength(m.id, id)
      PROVE  ReadOf(m.name, read, id) = m
  BY <1>2, <1>6, Zenon
<1>7. QED
  BY <1>2, <1>3, <1>5, <1>6, Zenon DEF Framed, t, l, max

(***************************************************************************)
(* Every message that is written has such a text.                          *)
(***************************************************************************)
THEOREM TextFramed ==
    ASSUME NEW m \in IAMs \cup BUSYs \cup Playing
    PROVE  Framed(m)
PROOF
<1>1. CASE m \in IAMs
  <2> DEFINE t == Text(m)
             h == Head1(m)
             l == Len(t)
             max == MaxSize[m.name]
  <2>1. m.name = "IAM"
    BY <1>1 DEF IAMs
  <2>2. t = WriteIAM(m) /\ h = 0 /\ max = 6
    BY <2>1 DEF Text, Head1, MaxSize
  <2> HIDE DEF t
  <2>3. /\ t \in Seq(0 .. 255) /\ l = 6
        /\ \A i \in 1 .. 4 : t[i] # LF
        /\ t[5] = CR /\ t[6] = LF
        /\ ReadIAM(t) = m
    <3>1. MaxSize.IAM = 6
      BY DEF MaxSize
    <3>2. QED
      <4>1. /\ WriteIAM(m) \in Seq(0 .. 255)
            /\ Len(WriteIAM(m)) = MaxSize.IAM
            /\ \A i \in 1 .. 4 : WriteIAM(m)[i] # LF
            /\ WriteIAM(m)[5] = CR /\ WriteIAM(m)[6] = LF
            /\ ReadIAM(WriteIAM(m)) = m
        BY <1>1, IAMReads
      <4>2. QED
        BY <2>2, <3>1, <4>1, Zenon
  <2> HIDE DEF h, l, max
  <2>4. \A i \in 1 .. l - 1 : t[i] # LF
    <3>1. \A i \in 1 .. l - 1 : i \in 1 .. 4 \/ i = 5
      BY <2>3
    <3>2. CR # LF
      BY DEF CR, LF
    <3>3. QED
      BY <2>3, <3>1, <3>2, Zenon
  <2>5. ASSUME NEW read \in Seq(0 .. 255), NEW id \in Nat,
               Len(read) = l - h, \A i \in 1 .. l - h : read[i] = t[h + i]
        PROVE  ReadOf(m.name, read, id) = m
    <3>1. l - h = l /\ \A i \in 1 .. l : h + i = i
      BY <2>2, <2>3
    <3>2. Len(read) = Len(t) /\ \A i \in 1 .. Len(read) : read[i] = t[i]
      <4>1. Len(read) = l
        BY <2>5, <3>1, Zenon
      <4>2. ASSUME NEW i \in 1 .. l PROVE read[i] = t[i]
        <5>1. i \in 1 .. l - h /\ h + i = i
          BY <3>1, Zenon
        <5>2. read[i] = t[h + i]
          BY <2>5, <5>1, Zenon
        <5>3. QED
          BY <5>1, <5>2, Zenon
      <4>3. QED
        BY <4>1, <4>2, Zenon DEF l
    <3>3. read = t
      BY <2>3, <3>2, SeqEqual
    <3>4. ReadOf(m.name, read, id) = ReadIAM(read)
      BY <2>1 DEF ReadOf
    <3>5. QED
      BY <2>3, <3>3, <3>4, Zenon
  <2>6. /\ l - 1 = 5 /\ h + 2 <= l /\ l <= h + max /\ h \in Nat /\ \A i : i \notin 1 .. h
    BY <2>2, <2>3
  <2>7. t[l - 1] = CR /\ t[l] = LF
    BY <2>3, <2>6, Zenon
  <2>8. QED
    BY <2>3, <2>4, <2>5, <2>6, <2>7, Zenon DEF Framed, t, h, l, max
<1>2. CASE m \in BUSYs
  <2>1. m.name = "BUSY"
    BY <1>2 DEF BUSYs
  <2>2. Text(m) = WriteBUSY(m) /\ \A read, id : ReadOf(m.name, read, id) = ReadBUSY(read)
    BY <2>1 DEF Text, ReadOf
  <2>3. m.name \in PacketNames
    BY <2>1 DEF PacketNames
  <2>4. QED
    BY <1>2, <2>1, <2>2, <2>3, BUSYReads, PacketFramed
<1>3. CASE m \in DEALs
  <2>1. m.name = "DEAL"
    BY <1>3 DEF DEALs
  <2>2. Text(m) = WriteDEAL(m) /\ \A read, id : ReadOf(m.name, read, id) = ReadDEAL(read)
    BY <2>1 DEF Text, ReadOf
  <2>3. m.name \in PacketNames
    BY <2>1 DEF PacketNames
  <2>4. QED
    BY <1>3, <2>1, <2>2, <2>3, DEALReads, PacketFramed
<1>4. CASE m \in TRICKs
  <2>1. m.name = "TRICK" /\ HasId(m)
    BY <1>4 DEF TRICKs, HasId
  <2>2. Text(m) = WriteTRICK(m) /\ \A read, id : ReadOf(m.name, read, id) = ReadTRICK(read, id)
    BY <2>1 DEF Text, ReadOf
  <2>3. m.name \in PacketNames /\ \A id : SameLength(m.id, id) = AsLong(m.id, id)
    BY <2>1 DEF PacketNames, SameLength, AsLong
  <2>4. QED
    BY <1>4, <2>1, <2>2, <2>3, TRICKReads, PacketFramed
<1>5. CASE m \in WRONGs
  <2>1. m.name = "WRONG" /\ HasId(m)
    BY <1>5 DEF WRONGs, HasId
  <2>2. Text(m) = WriteWRONG(m) /\ \A read, id : ReadOf(m.name, read, id) = ReadWRONG(read, id)
    BY <2>1 DEF Text, ReadOf
  <2>3. m.name \in PacketNames /\ \A id : SameLength(m.id, id) = AsLong(m.id, id)
    BY <2>1 DEF PacketNames, SameLength, AsLong
  <2>4. QED
    BY <1>5, <2>1, <2>2, <2>3, WRONGReads, PacketFramed
<1>6. CASE m \in TAKENs
  <2>1. m.name = "TAKEN" /\ HasId(m)
    BY <1>6 DEF TAKENs, HasId
  <2>2. Text(m) = WriteTAKEN(m) /\ \A read, id : ReadOf(m.name, read, id) = ReadTAKEN(read, id)
    BY <2>1 DEF Text, ReadOf
  <2>3. m.name \in PacketNames /\ \A id : SameLength(m.id, id) = AsLong(m.id, id)
    BY <2>1 DEF PacketNames, SameLength, AsLong
  <2>4. QED
    BY <1>6, <2>1, <2>2, <2>3, TAKENReads, PacketFramed
<1>7. CASE m \in SCOREs
  <2>1. m.name = "SCORE"
    BY <1>7 DEF SCOREs
  <2>2. Text(m) = WriteSCORE(m) /\ \A read, id : ReadOf(m.name, read, id) = ReadSCORE(read)
    BY <2>1 DEF Text, ReadOf
  <2>3. m.name \in PacketNames
    BY <2>1 DEF PacketNames
  <2>4. QED
    BY <1>7, <2>1, <2>2, <2>3, SCOREReads, PacketFramed
<1>8. CASE m \in TOTALs
  <2>1. m.name = "TOTAL"
    BY <1>8 DEF TOTALs
  <2>2. Text(m) = WriteTOTAL(m) /\ \A read, id : ReadOf(m.name, read, id) = ReadTOTAL(read)
    BY <2>1 DEF Text, ReadOf
  <2>3. m.name \in PacketNames
    BY <2>1 DEF PacketNames
  <2>4. QED
    BY <1>8, <2>1, <2>2, <2>3, TOTALReads, PacketFramed
<1>9. QED
  BY <1>1, <1>2, <1>3, <1>4, <1>5, <1>6, <1>7, <1>8 DEF Playing

-----------------------------------------------------------------------------
(* What was written.                                                       *)

(***************************************************************************)
(* What was written are messages and other texts, all of them characters.  *)
(***************************************************************************)
LEMMA TextsAre ==
    ASSUME written \in ToServer \cup ToWaiting \cup ToPlaying
    PROVE  /\ written \in Seq(IAMs \cup BUSYs \cup Playing \cup OTHERs)
           /\ Len(written) \in Nat /\ DOMAIN written = 1 .. Len(written)
           /\ Texts \in Seq(Seq(0 .. 255)) /\ Len(Texts) = Len(written)
           /\ \A k \in 1 .. Len(written) : Texts[k] = Text(written[k])
           /\ All \in Seq(0 .. 255)
PROOF
<1> DEFINE M == IAMs \cup BUSYs \cup Playing \cup OTHERs
           n == Len(written)
<1>1. written \in Seq(M)
  <2>1. CASE written \in ToServer
    <3>1. written \in Seq(IAMs \cup TRICKs \cup OTHERs)
      BY <2>1, WireAssumption
    <3>2. IAMs \cup TRICKs \cup OTHERs \subseteq M
      BY DEF Playing
    <3> HIDE DEF M
    <3>3. QED
      BY <3>1, <3>2, SeqMonotonic
  <2>2. CASE written \in ToWaiting
    <3>1. written \in Seq(BUSYs \cup Playing)
      BY <2>2, WireAssumption
    <3>2. BUSYs \cup Playing \subseteq M
      OBVIOUS
    <3> HIDE DEF M
    <3>3. QED
      BY <3>1, <3>2, SeqMonotonic
  <2>3. CASE written \in ToPlaying
    <3>1. written \in Seq(Playing)
      BY <2>3, WireAssumption
    <3>2. Playing \subseteq M
      OBVIOUS
    <3> HIDE DEF M
    <3>3. QED
      BY <3>1, <3>2, SeqMonotonic
  <2>4. QED
    BY <2>1, <2>2, <2>3
<1>2. \A m \in M : Text(m) \in Seq(0 .. 255)
  <2>1. ASSUME NEW m \in IAMs \cup BUSYs \cup Playing PROVE Text(m) \in Seq(0 .. 255)
    BY TextFramed DEF Framed
  <2>2. ASSUME NEW m \in OTHERs PROVE Text(m) \in Seq(0 .. 255)
    <3>1. m.name = "OTHER" /\ m.text \in Seq(0 .. 255)
      BY DEF OTHERs
    <3>2. Text(m) = m.text
      BY <3>1 DEF Text
    <3>3. QED
      BY <3>1, <3>2
  <2>3. QED
    BY <2>1, <2>2
<1> HIDE DEF M
<1>3. n \in Nat /\ DOMAIN written = 1 .. n /\ \A k \in 1 .. n : written[k] \in M
  BY <1>1
<1> HIDE DEF n
<1>4. DOMAIN Texts = 1 .. n /\ \A k \in 1 .. n : Texts[k] = Text(written[k])
  BY <1>3 DEF Texts
<1>5. Texts = [k \in 1 .. n |-> Text(written[k])]
  BY <1>3 DEF Texts
<1> DEFINE C == Seq(0 .. 255)
<1>6. Texts \in [1 .. n -> C]
  <2>1. \A k \in 1 .. n : Text(written[k]) \in C
    BY <1>2, <1>3
  <2> HIDE DEF C
  <2>2. QED
    BY <1>5, <2>1
<1>7. Texts \in Seq(C) /\ Len(Texts) = n
  <2> HIDE DEF C
  <2>1. Texts \in Seq(C)
    BY <1>3, <1>6
  <2>2. DOMAIN Texts = 1 .. Len(Texts) /\ Len(Texts) \in Nat
    BY <2>1, LenProperties
  <2>3. QED
    BY <1>3, <1>4, <2>1, <2>2
<1>8. All \in Seq(0 .. 255)
  <2>1. 0 \in 0 .. Len(Texts)
    BY <1>3, <1>7
  <2>2. FlattenSeq(Texts) \in Seq(0 .. 255)
    BY <1>7, <2>1, FlattenPrefix
  <2>3. QED
    BY <2>2 DEF All
<1>9. QED
  BY <1>1, <1>3, <1>4, <1>7, <1>8 DEF n, M

(***************************************************************************)
(* Where each of the texts stands among what was written.                  *)
(***************************************************************************)
LEMMA Starts ==
    ASSUME written \in ToServer \cup ToWaiting \cup ToPlaying
    PROVE  /\ Start(0) = 0 /\ Start(Len(written)) = Len(All)
           /\ \A k \in 0 .. Len(written) - 1 :
                /\ Start(k) \in Nat
                /\ Start(k + 1) = Start(k) + Len(Text(written[k + 1]))
                /\ Start(k + 1) <= Len(All)
                /\ \A i \in 1 .. Len(Text(written[k + 1])) :
                        All[Start(k) + i] = Text(written[k + 1])[i]
PROOF
<1> DEFINE n == Len(written)
<1>1. /\ n \in Nat /\ Texts \in Seq(Seq(0 .. 255)) /\ Len(Texts) = n
      /\ \A k \in 1 .. n : Texts[k] = Text(written[k])
  BY TextsAre
<1> HIDE DEF n
<1>2. Start(0) = 0
  <2>1. SubSeq(Texts, 1, 0) = << >>
    BY SubSeqEmpty
  <2>2. FlattenSeq(<< >>) = << >> /\ Len(<< >>) = 0
    BY DEF FlattenSeq
  <2>3. QED
    BY <2>1, <2>2, Zenon DEF Start
<1>3. Start(n) = Len(All)
  <2>1. SubSeq(Texts, 1, n) = Texts
    BY <1>1, SubSeqFull
  <2>2. QED
    BY <2>1, Zenon DEF Start, All
<1>4. ASSUME NEW k \in 0 .. n - 1
      PROVE  /\ Start(k) \in Nat
             /\ Start(k + 1) = Start(k) + Len(Text(written[k + 1]))
             /\ Start(k + 1) <= Len(All)
             /\ \A i \in 1 .. Len(Text(written[k + 1])) :
                    All[Start(k) + i] = Text(written[k + 1])[i]
  <2> DEFINE j == k + 1
  <2>1. j \in 1 .. n /\ j - 1 = k
    BY <1>1
  <2> HIDE DEF j
  <2>2. j \in 1 .. Len(Texts)
    BY <1>1, <2>1
  <2>3. /\ Len(FlattenSeq(SubSeq(Texts, 1, j - 1))) \in Nat
        /\ Len(FlattenSeq(SubSeq(Texts, 1, j))) =
               Len(FlattenSeq(SubSeq(Texts, 1, j - 1))) + Len(Texts[j])
        /\ Len(FlattenSeq(SubSeq(Texts, 1, j))) <= Len(FlattenSeq(Texts))
        /\ \A i \in 1 .. Len(Texts[j]) :
               FlattenSeq(Texts)[Len(FlattenSeq(SubSeq(Texts, 1, j - 1))) + i] = Texts[j][i]
    BY <1>1, <2>2, FlattenPart, Zenon
  <2>4. /\ Start(j - 1) \in Nat
        /\ Start(j) = Start(j - 1) + Len(Texts[j])
        /\ Start(j) <= Len(All)
        /\ \A i \in 1 .. Len(Texts[j]) : All[Start(j - 1) + i] = Texts[j][i]
    BY <2>3, Zenon DEF Start, All
  <2>5. Texts[j] = Text(written[j])
    BY <1>1, <2>1
  <2>6. /\ Start(k) \in Nat
        /\ Start(j) = Start(k) + Len(Text(written[j]))
        /\ Start(j) <= Len(All)
        /\ \A i \in 1 .. Len(Text(written[j])) : All[Start(k) + i] = Text(written[j])[i]
    BY <2>1, <2>4, <2>5, Zenon
  <2>7. QED
    BY <2>6, Zenon DEF j
<1>5. QED
  BY <1>2, <1>3, <1>4 DEF n

-----------------------------------------------------------------------------
(* Every step.                                                             *)

(***************************************************************************)
(* The first packet, and who writes it.                                    *)
(***************************************************************************)
LEMMA InitTyped == Init => PacketInv /\ Origin
PROOF
<1> SUFFICES ASSUME Init PROVE PacketInv /\ Origin
  OBVIOUS
<1>1. /\ \/ program = "iam" /\ written \in ToServer /\ readers_id \in ReadersIds
         \/ program = "waiting" /\ written \in ToWaiting /\ readers_id = 1
         \/ program = "playing" /\ written \in ToPlaying /\ readers_id \in ReadersIds
      /\ stream = All
      /\ at = IF program = "iam" THEN "body" ELSE "name"
      /\ name = << >> /\ buff = << >> /\ readings = << >> /\ timeouts = 0
  BY DEF Init, All, Texts
<1>2. written \in ToServer \cup ToWaiting \cup ToPlaying
  BY <1>1
<1>3. stream \in Seq(0 .. 255)
  BY <1>1, <1>2, TextsAre
<1>4. << >> \in Seq(0 .. 255) /\ Len(<< >>) = 0 /\ DOMAIN << >> = 1 .. 0
  OBVIOUS
<1>5. Len(buff) <= Size
  <2>1. \A size \in Sizes : 0 <= size
    BY DEF Sizes
  <2>2. QED
    BY <1>1, <1>4, <2>1, SizeIs, Zenon
<1>6. readers_id \in Nat /\ timeouts \in 0 .. MaxTimeouts
  <2>1. ReadersIds \subseteq Nat /\ MaxTimeouts \in Nat
    BY WireAssumption
  <2>2. 0 \in 0 .. MaxTimeouts /\ 1 \in Nat
    BY <2>1
  <2>3. QED
    BY <1>1, <2>1, <2>2, Zenon
<1>7. PacketInv
  <2>1. program \in Server \cup Client \cup {"closed"}
    BY <1>1 DEF Server, Client
  <2>2. Len(name) <= 5
    BY <1>1, <1>4
  <2>3. program \notin {"closed", "iam"} => at # "body"
    BY <1>1
  <2>4. QED
    BY <1>1, <1>3, <1>4, <1>5, <1>6, <2>1, <2>2, <2>3 DEF PacketInv
<1>8. Origin
  <2>1. Done = 0 /\ 0 \in Nat
    BY <1>1, <1>4 DEF Done
  <2>3. readings = [i \in 1 .. Done |-> readings[i]]
    <3>1. << >> = [i \in 1 .. 0 |-> << >>[i]]
      OBVIOUS
    <3>2. QED
      BY <1>1, <2>1, <3>1, Zenon
  <2>2. QED
    BY <1>1, <1>2, <2>1, <2>3 DEF Origin
<1>9. QED
  BY <1>7, <1>8

(***************************************************************************)
(* A character is taken from the stream.                                   *)
(***************************************************************************)
LEMMA Taken ==
    ASSUME NEW s \in Seq(0 .. 255), s # << >>, NEW to \in Seq(0 .. 255)
    PROVE  /\ Append(to, Head(s)) \in Seq(0 .. 255) /\ Len(Append(to, Head(s))) = Len(to) + 1
           /\ Tail(s) \in Seq(0 .. 255) /\ Len(s) = Len(Tail(s)) + 1
           /\ Len(s) \in Nat /\ Len(to) \in Nat /\ Len(Tail(s)) \in Nat
           /\ \A i \in 1 .. Len(to) : Append(to, Head(s))[i] = to[i]
           /\ Append(to, Head(s))[Len(to) + 1] = s[1]
           /\ \A i \in 1 .. Len(Tail(s)) : Tail(s)[i] = s[i + 1]
PROOF
<1> DEFINE c == Head(s)
           t == Append(to, c)
           n == Len(to)
<1>1. /\ c \in 0 .. 255 /\ c = s[1]
      /\ Tail(s) \in Seq(0 .. 255) /\ Len(Tail(s)) = Len(s) - 1
      /\ \A i \in 1 .. Len(Tail(s)) : Tail(s)[i] = s[i + 1]
  BY HeadTailProperties
<1>2. Len(s) \in Nat /\ n \in Nat /\ Len(s) # 0
  OBVIOUS
<1> HIDE DEF c
<1>3. /\ t \in Seq(0 .. 255) /\ Len(t) = n + 1
      /\ \A i \in 1 .. n : t[i] = to[i]
      /\ t[n + 1] = c
  BY <1>1, AppendProperties
<1> HIDE DEF t, n
<1>4. Len(s) = Len(Tail(s)) + 1 /\ Len(Tail(s)) \in Nat
  BY <1>1, <1>2
<1>5. QED
  BY <1>1, <1>2, <1>3, <1>4, Zenon DEF t, n, c

(***************************************************************************)
(* What was written stays so.                                              *)
(***************************************************************************)
LEMMA WrittenStays == [Next]_vars => written' = written
PROOF
  BY DEF Next, vars, ReadNameChar, ReadChar, ServerTakes, WaitingTakes, PlayingTakes, TakePacket,
         WrongAfterLastTrick, ReadTimesOut

(***************************************************************************)
(* A reading is put behind the others.                                     *)
(***************************************************************************)
LEMMA ReadingAdded ==
    ASSUME NEW s, NEW n \in Nat, s = [i \in 1 .. n |-> s[i]], NEW x
    PROVE  /\ Len(s) = n /\ Len(Append(s, x)) = n + 1
           /\ Append(s, x) = [i \in 1 .. n + 1 |-> Append(s, x)[i]]
           /\ \A i \in 1 .. n : Append(s, x)[i] = s[i]
           /\ Append(s, x)[n + 1] = x
           /\ Append(s, x) # << >>
PROOF
<1> DEFINE S == {s[i] : i \in 1 .. n} \cup {x}
           t == Append(s, x)
<1>1. s \in [1 .. n -> S] /\ DOMAIN s = 1 .. n
  <2>1. \A i \in 1 .. n : s[i] \in S
    OBVIOUS
  <2> HIDE DEF S
  <2>2. QED
    BY <2>1
<1>2. x \in S
  OBVIOUS
<1> HIDE DEF S
<1>3. s \in Seq(S) /\ Len(s) = n
  <2>1. s \in Seq(S)
    BY <1>1
  <2>2. DOMAIN s = 1 .. Len(s) /\ Len(s) \in Nat
    BY <2>1, LenProperties
  <2>3. QED
    BY <1>1, <2>1, <2>2
<1>4. /\ t \in Seq(S) /\ Len(t) = Len(s) + 1
      /\ \A i \in 1 .. Len(s) : t[i] = s[i]
      /\ t[Len(s) + 1] = x
  BY <1>2, <1>3, AppendProperties
<1> HIDE DEF t
<1>5. t = [i \in 1 .. Len(t) |-> t[i]] /\ Len(t) = n + 1
  BY <1>3, <1>4
<1>6. t # << >>
  <2>1. Len(t) # 0
    BY <1>5
  <2>2. QED
    BY <2>1
<1>7. QED
  BY <1>3, <1>4, <1>5, <1>6, Zenon DEF t

(***************************************************************************)
(* The length of a name is settled by its first character.                 *)
(***************************************************************************)
LEMMA NameLengths ==
    ASSUME NEW chars
    PROVE  /\ NameLength(chars) \in {4, 5}
           /\ \A more : more[1] = chars[1] => NameLength(more) = NameLength(chars)
PROOF
  BY DEF NameLength

(***************************************************************************)
(* Every step keeps a packet within its buffer.                            *)
(***************************************************************************)
LEMMA NextTyped == PacketInv /\ Origin /\ [Next]_vars => PacketInv' /\ Origin'
PROOF
<1> SUFFICES ASSUME PacketInv, Origin, [Next]_vars PROVE PacketInv' /\ Origin'
  OBVIOUS
<1>1. Size' \in Sizes /\ (program' = "closed" => Size' = 95)
  BY SizeNext
<1>2. /\ Size \in Sizes
      /\ \A size \in Sizes : 0 <= size /\ size <= 95 /\ size \in Nat
  BY SizeIs DEF Sizes
<1>3. /\ << >> \in Seq(0 .. 255) /\ Len(<< >>) = 0 /\ 0 <= 5
      /\ \A s \in Seq(0 .. 255) : Len(s) \in Nat
  OBVIOUS
<1>4. Len(<< >>) <= Size'
  BY <1>1, <1>2, <1>3, Zenon
<1> DEFINE Takes == /\ TakePacket("name")
                    /\ \/ program \in Server /\ program' \in {"closed", "trick", "unasked"}
                       \/ program = "waiting" /\ program' \in {"closed", "waiting", "playing"}
                       \/ program = "playing" /\ program' \in {"closed", "playing"}
                    /\ readers_id' \in Nat
<1>5. ASSUME Takes PROVE PacketInv' /\ Origin'
  <2>1. /\ readings' = Append(readings, [message |-> Reading, at_id |-> readers_id])
        /\ at' = "name" /\ name' = << >> /\ buff' = << >>
        /\ stream' = stream /\ written' = written /\ timeouts' = timeouts
    BY <1>5 DEF TakePacket
  <2>2. /\ readings' # << >> /\ Done' = Done + 1 /\ Done' \in Nat
        /\ readings' = [i \in 1 .. Done' |-> readings'[i]]
    <3> DEFINE r == [message |-> Reading, at_id |-> readers_id]
    <3>1. Done \in Nat /\ readings = [i \in 1 .. Done |-> readings[i]]
      BY DEF Origin
    <3>2. readings' = Append(readings, r)
      BY <2>1
    <3> HIDE DEF r
    <3>3. /\ Len(Append(readings, r)) = Done + 1
          /\ Append(readings, r) = [i \in 1 .. Done + 1 |-> Append(readings, r)[i]]
          /\ Append(readings, r) # << >>
      <4> DEFINE q == readings
                 n == Done
      <4>1. n \in Nat /\ q = [i \in 1 .. n |-> q[i]]
        BY <3>1
      <4> HIDE DEF q, n
      <4>2. /\ Len(Append(q, r)) = n + 1
            /\ Append(q, r) = [i \in 1 .. n + 1 |-> Append(q, r)[i]]
            /\ Append(q, r) # << >>
        BY <4>1, ReadingAdded
      <4>3. QED
        BY <4>2 DEF q, n
    <3>4. Done' = Done + 1
      BY <3>2, <3>3, Zenon DEF Done
    <3>5. QED
      BY <3>1, <3>2, <3>3, <3>4
  <2>3. PacketInv'
    <3>1. /\ program' \in Server \cup Client \cup {"closed"}
          /\ program' # "iam" /\ at' # "body"
      BY <1>5, <2>1 DEF Server, Client
    <3>2. Len(name') <= 5 /\ Len(buff') <= Size'
      BY <1>3, <1>4, <2>1, Zenon
    <3>3. stream' \in Seq(0 .. 255) /\ timeouts' \in 0 .. MaxTimeouts /\ readers_id' \in Nat
      BY <1>5, <2>1 DEF PacketInv
    <3>4. QED
      BY <1>3, <2>1, <3>1, <3>2, <3>3 DEF PacketInv
  <2>4. Origin'
    <3>1. written' \in ToServer \cup ToWaiting \cup ToPlaying
      BY <2>1 DEF Origin
    <3>2. program' # "iam"
      BY <1>5 DEF Server
    <3>3. program' \in {"trick", "unasked"} => written' \in ToServer
      BY <1>5, <2>1 DEF Origin, Server
    <3>4. program' = "waiting" => written' \in ToWaiting
      BY <1>5, <2>1 DEF Origin
    <3>5. program' = "playing" => written' \in ToPlaying \/ written' \in ToWaiting
      BY <1>5, <2>1 DEF Origin
    <3>6. program' \in Client => timeouts' = 0
      BY <1>5, <2>1 DEF Origin, Client
    <3>7. QED
      BY <2>2, <3>1, <3>2, <3>3, <3>4, <3>5, <3>6 DEF Origin
  <2>5. QED
    BY <2>3, <2>4
<1>6. ASSUME ReadNameChar PROVE PacketInv' /\ Origin'
  <2>1. /\ program # "closed" /\ at = "name" /\ stream # << >>
        /\ name' = Append(name, Head(stream)) /\ stream' = Tail(stream)
        /\ at' = IF Len(name') = NameLength(name') THEN "body" ELSE "name"
        /\ UNCHANGED <<program, buff, readers_id, written, readings, timeouts>>
    BY <1>6 DEF ReadNameChar
  <2>2. /\ name \in Seq(0 .. 255) /\ stream \in Seq(0 .. 255)
        /\ buff = << >> /\ (name = << >> \/ Len(name) < NameLength(name))
    BY <2>1 DEF PacketInv
  <2>3. /\ name' \in Seq(0 .. 255) /\ Len(name') = Len(name) + 1
        /\ stream' \in Seq(0 .. 255) /\ Len(name) \in Nat
        /\ \A i \in 1 .. Len(name) : name'[i] = name[i]
    <3> DEFINE s == stream
               to == name
    <3>1. s \in Seq(0 .. 255) /\ s # << >> /\ to \in Seq(0 .. 255)
      BY <2>1, <2>2
    <3> HIDE DEF s, to
    <3>2. /\ Append(to, Head(s)) \in Seq(0 .. 255) /\ Len(Append(to, Head(s))) = Len(to) + 1
          /\ Tail(s) \in Seq(0 .. 255) /\ Len(to) \in Nat
          /\ \A i \in 1 .. Len(to) : Append(to, Head(s))[i] = to[i]
      BY <3>1, Taken
    <3>3. name' = Append(to, Head(s)) /\ stream' = Tail(s)
      BY <2>1 DEF s, to
    <3>4. QED
      BY <3>2, <3>3, Zenon DEF to
  <2> DEFINE n == Len(name)
             m == Len(name')
             l == NameLength(name')
  <2>4. n # 0 => n < l
    <3>1. ASSUME n # 0 PROVE n < l
      <4>1. 1 \in 1 .. n /\ name # << >>
        BY <2>2, <2>3, <3>1
      <4>2. name'[1] = name[1]
        BY <2>3, <4>1, Zenon
      <4>3. NameLength(name') = NameLength(name)
        BY <4>2, NameLengths
      <4>4. QED
        BY <2>2, <4>1, <4>3
    <3>2. QED
      BY <3>1
  <2>5. l \in {4, 5} /\ n \in Nat /\ m = n + 1
    BY <2>3, NameLengths
  <2>6. NameLength(name)' = NameLength(name')
    BY <2>1 DEF NameLength
  <2> HIDE DEF n, m, l
  <2>7. m <= 5 /\ (m # l => m < l)
    BY <2>4, <2>5
  <2>8. PacketInv'
    <3>1. /\ Len(name') <= 5
          /\ at' = "name" => Len(name') < NameLength(name)'
          /\ at' = "body" => Len(name') = NameLength(name)'
          /\ at' \in {"name", "body"}
      BY <2>1, <2>6, <2>7 DEF m, l
    <3>2. Len(buff') <= Size' /\ buff' = << >>
      BY <1>4, <2>1, <2>2
    <3>3. /\ program' \in Server \cup Client \cup {"closed"}
          /\ readers_id' \in Nat /\ timeouts' \in 0 .. MaxTimeouts
      BY <2>1 DEF PacketInv
    <3>4. QED
      BY <1>3, <2>3, <3>1, <3>2, <3>3 DEF PacketInv
  <2>9. Origin'
    <3>1. program # "iam"
      BY <2>1 DEF Origin
    <3>2. QED
      BY <2>1, <3>1 DEF Origin, Done
  <2>10. QED
    BY <2>8, <2>9
<1>7. ASSUME ReadChar PROVE PacketInv' /\ Origin'
  <2>1. /\ program # "closed" /\ at = "body" /\ ~ PacketEnds /\ stream # << >>
        /\ buff' = Append(buff, Head(stream)) /\ stream' = Tail(stream)
        /\ UNCHANGED <<program, at, name, readers_id, written, readings, timeouts>>
    BY <1>7 DEF ReadChar
  <2>2. buff \in Seq(0 .. 255) /\ stream \in Seq(0 .. 255) /\ Len(buff) <= Size
    BY DEF PacketInv
  <2>3. /\ buff' \in Seq(0 .. 255) /\ Len(buff') = Len(buff) + 1
        /\ stream' \in Seq(0 .. 255) /\ Len(buff) \in Nat
    BY <2>1, <2>2, Taken, SMT
  <2>4. Size' = Size
    <3>1. Known' = Known
      BY <2>1 DEF Known
    <3>2. Name' = Name
      BY <2>1, <3>1 DEF Name
    <3>3. QED
      BY <2>1, <3>2 DEF Size
  <2>5. Len(buff') <= Size'
    <3> DEFINE n == Len(buff)
               m == Len(buff')
    <3>1. n # Size
      BY <2>1 DEF PacketEnds
    <3>2. Size \in Nat
      BY <1>2, Zenon
    <3>3. n <= Size /\ n \in Nat /\ m = n + 1
      BY <2>2, <2>3
    <3> HIDE DEF n, m
    <3>4. m <= Size
      BY <3>1, <3>2, <3>3
    <3>5. QED
      BY <2>4, <3>4, Zenon DEF m
  <2>6. PacketInv'
    <3>1. /\ program' \in Server \cup Client \cup {"closed"} /\ at' = "body"
          /\ name' \in Seq(0 .. 255) /\ Len(name') <= 5
          /\ readers_id' \in Nat /\ timeouts' \in 0 .. MaxTimeouts
      BY <2>1 DEF PacketInv
    <3>2. program' \notin {"closed", "iam"} => Len(name') = NameLength(name)'
      BY <2>1 DEF PacketInv, NameLength
    <3>3. QED
      BY <2>3, <2>5, <3>1, <3>2 DEF PacketInv
  <2>7. Origin'
    BY <2>1 DEF Origin, Done
  <2>8. QED
    BY <2>6, <2>7
<1>8. ASSUME ServerTakes PROVE Takes
  BY <1>8 DEF ServerTakes, PacketInv
<1>9. ASSUME WaitingTakes PROVE Takes
  BY <1>9 DEF WaitingTakes, PacketInv
<1>10. ASSUME PlayingTakes PROVE Takes
  <2>1. readers_id' \in Nat
    <3>1. readers_id \in Nat /\ readers_id' \in {1, readers_id + 1, readers_id}
      BY <1>10 DEF PlayingTakes, PacketInv
    <3>2. QED
      BY <3>1
  <2>2. QED
    BY <1>10, <2>1 DEF PlayingTakes
<1>11. ASSUME WrongAfterLastTrick PROVE PacketInv' /\ Origin'
  <2>1. /\ program' = "closed"
        /\ UNCHANGED <<at, name, buff, readers_id, stream, written, readings, timeouts>>
    BY <1>11 DEF WrongAfterLastTrick
  <2>2. Len(buff') <= Size'
    <3> DEFINE n == Len(buff)
    <3>1. Size' = 95
      BY <1>1, <2>1
    <3>2. buff \in Seq(0 .. 255) /\ n <= Size
      BY DEF PacketInv
    <3>3. n \in Nat /\ Size \in Nat /\ Size <= 95
      BY <1>2, <1>3, <3>2, Zenon
    <3> HIDE DEF n
    <3>4. n <= 95
      BY <3>2, <3>3
    <3>5. QED
      BY <2>1, <3>1, <3>4, Zenon DEF n
  <2>3. PacketInv'
    BY <2>1, <2>2 DEF PacketInv
  <2>4. Origin'
    BY <2>1 DEF Origin, Done, Client
  <2>5. QED
    BY <2>3, <2>4
<1>12. ASSUME ReadTimesOut PROVE PacketInv' /\ Origin'
  <2>1. /\ program \in Server /\ timeouts < MaxTimeouts /\ timeouts' = timeouts + 1
        /\ program' = IF program = "trick" THEN "trick" ELSE "closed"
        /\ at' = "name" /\ name' = << >> /\ buff' = << >>
        /\ UNCHANGED <<readers_id, stream, written, readings>>
    BY <1>12 DEF ReadTimesOut
  <2>2. timeouts' \in 0 .. MaxTimeouts
    <3>1. MaxTimeouts \in Nat
      BY WireAssumption
    <3>2. timeouts \in 0 .. MaxTimeouts
      BY DEF PacketInv
    <3>3. QED
      BY <2>1, <3>1, <3>2
  <2>3. PacketInv'
    <3>1. program' \in {"trick", "closed"} /\ program' \in Server \cup Client \cup {"closed"}
      BY <2>1 DEF Server
    <3>2. Len(name') <= 5 /\ Len(buff') <= Size'
      BY <1>3, <1>4, <2>1, Zenon
    <3>3. readers_id' \in Nat /\ stream' \in Seq(0 .. 255)
      BY <2>1 DEF PacketInv
    <3>4. QED
      BY <1>3, <2>1, <2>2, <3>1, <3>2, <3>3 DEF PacketInv
  <2>4. Origin'
    BY <2>1 DEF Origin, Done, Client
  <2>5. QED
    BY <2>3, <2>4
<1>13. ASSUME vars' = vars PROVE PacketInv' /\ Origin'
  <2>1. UNCHANGED <<program, at, name, buff, readers_id, stream, written, readings, timeouts>>
    BY <1>13 DEF vars
  <2>2. Known' = Known
    BY <2>1 DEF Known
  <2>3. Name' = Name
    BY <2>1, <2>2 DEF Name
  <2>4. Size' = Size
    BY <2>1, <2>3 DEF Size
  <2>5. PacketInv'
    BY <2>1, <2>4 DEF PacketInv, NameLength
  <2>6. Origin'
    BY <2>1 DEF Origin, Done
  <2>7. QED
    BY <2>5, <2>6
<1> HIDE DEF Takes
<1>14. QED
  BY <1>5, <1>6, <1>7, <1>8, <1>9, <1>10, <1>11, <1>12, <1>13 DEF Next

(***************************************************************************)
(* The reader always is where it may be: the fact the theorems rest on.    *)
(***************************************************************************)
LEMMA AlwaysTyped == Spec => [](PacketInv /\ Origin)
PROOF
<1>1. Init => PacketInv /\ Origin
  BY InitTyped
<1>2. (PacketInv /\ Origin) /\ [Next]_vars => (PacketInv /\ Origin)'
  BY NextTyped
<1>3. QED
  BY <1>1, <1>2, PTL DEF Spec

(***************************************************************************)
(* Every variable keeps its type, however long the packets and whatever is *)
(* written: no name has more than five characters, and no packet more than *)
(* its buffer (TCP_read_till_newline).                                     *)
(***************************************************************************)
THEOREM WireTypes == Spec => []TypeOK
PROOF
<1>1. PacketInv => TypeOK
  BY DEF PacketInv, TypeOK
<1>2. QED
  BY <1>1, AlwaysTyped, PTL

(***************************************************************************)
(* Wherever a packet is cut, add_rn_to_buff_if_needed writes inside its    *)
(* buffer.                                                                 *)
(***************************************************************************)
THEOREM EndCharsAlwaysFit == Spec => []EndCharsFit
PROOF
<1>1. PacketInv => EndCharsFit
  <2> SUFFICES ASSUME PacketInv PROVE Len(WithEndChars(buff, Size)) <= Size
    BY DEF EndCharsFit
  <2>1. buff \in Seq(0 .. 255) /\ Len(buff) <= Size
    BY DEF PacketInv
  <2>2. Size \in Sizes
    BY SizeIs
  <2>3. QED
    BY <2>1, <2>2, EndFits, Zenon
<1>2. QED
  BY <1>1, AlwaysTyped, PTL

-----------------------------------------------------------------------------
(* The next message.                                                       *)

(***************************************************************************)
(* What a reader in step is to read next is a message it knows.            *)
(***************************************************************************)
Awaited ==
    LET m == written[Done + 1]
    IN /\ m \in IAMs \cup BUSYs \cup Playing
       /\ m.name \in Known
       /\ program = "iam" => m.name = "IAM"
       /\ program # "iam" => m.name \in PacketNames
       /\ program \in {"trick", "unasked"} => m.name = "TRICK"
       /\ program = "waiting" => m.name \in {"BUSY", "DEAL"}

Awaits ==
    /\ PacketInv /\ Origin /\ InStep
    /\ program = "waiting" => readings = << >>
    /\ Done < Len(written)

(***************************************************************************)
(* The message the reader comes to is one it knows.                        *)
(***************************************************************************)
LEMMA NextAwaited == Awaits => Awaited
PROOF
<1> SUFFICES ASSUME Awaits PROVE Awaited
  OBVIOUS
<1> DEFINE k == Done + 1
           m == written[k]
<1>1. /\ program \in Server \cup Client \cup {"closed"} /\ program # "closed"
      /\ Done \in Nat /\ Done < Len(written)
      /\ written \in ToServer \cup ToWaiting \cup ToPlaying
  BY DEF Awaits, PacketInv, Origin, InStep
<1>2. /\ Len(written) \in Nat /\ DOMAIN written = 1 .. Len(written)
  BY <1>1, TextsAre
<1>3. k \in DOMAIN written /\ 1 \in DOMAIN written /\ 1 <= k /\ 1 <= Done + 1 /\ k <= Done + 1
  BY <1>1, <1>2
<1>4. readings = << >> => Done = 0
  BY DEF Done
<1>5. readings # << >> => Done # 0
  <2>1. ASSUME Done = 0 PROVE readings = << >>
    <3>1. readings = [i \in 1 .. 0 |-> readings[i]]
      <4>1. readings = [i \in 1 .. Done |-> readings[i]]
        BY DEF Awaits, Origin
      <4>2. QED
        BY <2>1, <4>1, Zenon
    <3>2. [i \in 1 .. 0 |-> readings[i]] = << >>
      OBVIOUS
    <3>3. QED
      BY <3>1, <3>2, Zenon
  <2>2. QED
    BY <2>1
<1>6. written[1].name # "OTHER" /\ m.name # "OTHER"
  BY <1>1, <1>3 DEF Awaits, InStep
<1> HIDE DEF k
<1>7. ASSUME NEW S, written \in Seq(S) PROVE m \in S
  <2>1. QED
    BY <1>3, <1>7
<1>8. /\ \A x \in IAMs : x.name = "IAM"
      /\ \A x \in TRICKs : x.name = "TRICK"
      /\ \A x \in OTHERs : x.name = "OTHER"
      /\ \A x \in BUSYs : x.name = "BUSY"
      /\ \A x \in DEALs : x.name = "DEAL"
      /\ \A x \in Playing : x.name \in {"DEAL", "TRICK", "WRONG", "TAKEN", "SCORE", "TOTAL"}
  BY DEF IAMs, TRICKs, OTHERs, BUSYs, DEALs, WRONGs, TAKENs, SCOREs, TOTALs, Playing
<1>9. TRICKs \subseteq Playing /\ DEALs \subseteq Playing
  BY DEF Playing
<1>10. /\ m \in IAMs \cup BUSYs \cup Playing
       /\ program = "iam" => m.name = "IAM"
       /\ program \in {"trick", "unasked"} => m.name = "TRICK"
       /\ program = "waiting" => m.name \in {"BUSY", "DEAL"}
       /\ program = "playing" => m \in Playing
  <2>1. CASE program \in {"iam", "trick", "unasked"}
    <3>1. written \in ToServer
      BY <2>1 DEF Awaits, Origin
    <3>2. written \in Seq(IAMs \cup TRICKs \cup OTHERs)
      BY <3>1, WireAssumption
    <3>3. m \in IAMs \cup TRICKs \cup OTHERs
      BY <1>7, <3>2
    <3>4. m.name = "IAM" <=> k = 1
      BY <1>3, <1>6, <3>1, WireAssumption
    <3>5. program = "iam" <=> k = 1
      BY <1>1, <1>4, <1>5, <2>1 DEF Awaits, Origin, k
    <3>6. QED
      BY <1>6, <1>8, <1>9, <2>1, <3>3, <3>4, <3>5
  <2>2. CASE program = "waiting"
    <3>1. written \in ToWaiting /\ k = 1
      BY <1>4, <2>2 DEF Awaits, Origin, k
    <3>2. m \in BUSYs \cup DEALs
      BY <1>3, <3>1, WireAssumption
    <3>3. QED
      BY <1>8, <1>9, <2>2, <3>2
  <2>3. CASE program = "playing"
    <3>1. m \in Playing
      <4>1. CASE written \in ToPlaying
        <5>1. written \in Seq(Playing)
          BY <4>1, WireAssumption
        <5>2. QED
          BY <1>7, <5>1
      <4>2. CASE written \in ToWaiting /\ readings # << >>
        <5>1. k # 1
          BY <1>1, <1>5, <4>2 DEF k
        <5>2. QED
          BY <1>3, <4>2, <5>1, WireAssumption
      <4>3. QED
        BY <2>3, <4>1, <4>2 DEF Awaits, Origin
    <3>2. QED
      BY <2>3, <3>1
  <2>4. QED
    BY <1>1, <2>1, <2>2, <2>3 DEF Server, Client
<1>11. m.name \in Known /\ (program # "iam" => m.name \in PacketNames)
  <2>1. CASE program = "iam"
    BY <1>10, <2>1 DEF Known
  <2>2. CASE program \in {"trick", "unasked"}
    BY <1>10, <2>2 DEF Known, PacketNames
  <2>3. CASE program = "waiting"
    BY <1>10, <2>3 DEF Known, PacketNames
  <2>4. CASE program = "playing"
    BY <1>8, <1>10, <2>4 DEF Known, PacketNames
  <2>5. QED
    BY <1>1, <2>1, <2>2, <2>3, <2>4 DEF Server, Client
<1>12. QED
  BY <1>10, <1>11 DEF Awaited, k

(***************************************************************************)
(* So it is in the next state.                                             *)
(***************************************************************************)
LEMMA ThenAwaited == Awaits' => Awaited'
PROOF
<1>1. (Awaits => Awaited)'
  BY NextAwaited, PTL
<1>2. QED
  BY <1>1

(***************************************************************************)
(* With its name, the reader knows the message and has a buffer for it.    *)
(***************************************************************************)
LEMMA NameKnown ==
    ASSUME NEW n \in Known,
           program = "iam" => n = "IAM",
           program # "iam" => n \in PacketNames /\ name = NameChars[n]
    PROVE  Name = n /\ n # "unknown" /\ Size = MaxSize[n]
PROOF
<1>1. CASE program = "iam"
  <2>1. Name = n
    BY <1>1 DEF Name
  <2>2. QED
    BY <1>1, <2>1 DEF Size
<1>2. CASE program # "iam"
  <2>1. Known \subseteq PacketNames
    BY <1>2 DEF Known, PacketNames
  <2> DEFINE c == CHOOSE j \in Known : NameChars[j] = name
  <2>2. NameChars[n] = name
    BY <1>2
  <2>3. c \in Known /\ NameChars[c] = name
    BY <2>2, Zenon
  <2>4. Name = c
    BY <1>2, <2>2, Zenon DEF Name
  <2> HIDE DEF c
  <2>5. c \in PacketNames /\ n \in PacketNames /\ NameChars[c] = NameChars[n]
    BY <1>2, <2>1, <2>2, <2>3
  <2>6. c = n
    <3>1. \A j \in PacketNames : NameChars[j] = NameChars[n] => j = n
      BY <2>5, NameIs
    <3>2. QED
      BY <2>5, <3>1
  <2>7. Name = n /\ n # "unknown"
    BY <2>4, <2>5, <2>6 DEF PacketNames
  <2>8. Size = MaxSize[n]
    <3>1. CASE program \in {"trick", "unasked"}
      <4>1. n = "TRICK"
        BY <3>1 DEF Known
      <4>2. QED
        BY <3>1, <4>1 DEF Size
    <3>2. CASE program \notin {"trick", "unasked"}
      BY <2>7, <3>2 DEF Size
    <3>3. QED
      BY <3>1, <3>2
  <2>9. QED
    BY <2>7, <2>8
<1>3. QED
  BY <1>1, <1>2

(***************************************************************************)
(* Where a reader in step is in the text of the next message.              *)
(***************************************************************************)
InText(m, t, h) ==
    /\ Framed(m)
    /\ Len(name) \in Nat /\ Len(buff) \in Nat /\ Len(t) \in Nat /\ h \in Nat
    /\ Len(name) + Len(buff) <= Len(t)
    /\ Start(Done) \in Nat /\ Start(Done + 1) = Start(Done) + Len(t)
    /\ \A i \in 1 .. Len(name) : name[i] = t[i]
    /\ \A i \in 1 .. Len(buff) : buff[i] = t[Len(name) + i]
    /\ \A i \in 1 .. Len(t) : All[Start(Done) + i] = t[i]
    /\ program # "iam" => h = Len(NameChars[m.name])
    /\ program # "iam" /\ at = "name" => Len(name) < h
    /\ at = "body" =>
            /\ Len(name) = h /\ Name = m.name /\ m.name # "unknown"
            /\ Size = MaxSize[m.name]

Standing == LET m == written[Done + 1] IN InText(m, Text(m), Head1(m))

Reads == /\ PacketInv /\ Origin /\ InStep /\ Place /\ Within
         /\ Done < Len(written)

(***************************************************************************)
(* A reader in step is inside the text of the next message.                *)
(***************************************************************************)
LEMMA WhereItStands == Reads => Awaited /\ Standing
PROOF
<1> SUFFICES ASSUME Reads PROVE Awaited /\ Standing
  OBVIOUS
<1> DEFINE k == Done + 1
           m == written[k]
           t == Text(m)
           h == Head1(m)
           s == Start(Done)
<1>1. Awaited
  BY NextAwaited DEF Reads, Awaits, Within
<1>2. /\ m \in IAMs \cup BUSYs \cup Playing /\ m.name \in Known
      /\ program = "iam" => m.name = "IAM"
      /\ program # "iam" => m.name \in PacketNames
  BY <1>1 DEF Awaited
<1>3. /\ Done \in Nat /\ Done < Len(written) /\ Len(written) \in Nat
      /\ written \in ToServer \cup ToWaiting \cup ToPlaying
  BY TextsAre DEF Reads, Origin
<1>4. Done \in 0 .. Len(written) - 1
  BY <1>3
<1>5. /\ s \in Nat /\ Start(k) = s + Len(t)
      /\ \A i \in 1 .. Len(t) : All[s + i] = t[i]
  BY <1>3, <1>4, Starts
<1>6. Framed(m)
  BY <1>2, TextFramed
<1>7. /\ Len(t) \in Nat /\ h \in Nat
      /\ \A i \in 1 .. h : t[i] = NameChars[m.name][i]
      /\ h <= Len(t)
  <2>1. t \in Seq(0 .. 255) /\ h \in Nat /\ h + 2 <= Len(t)
        /\ \A i \in 1 .. h : t[i] = NameChars[m.name][i]
    BY <1>6 DEF Framed
  <2>2. Len(t) \in Nat
    BY <2>1
  <2>3. QED
    BY <2>1, <2>2
<1>8. /\ name \in Seq(0 .. 255) /\ Len(name) \in Nat /\ Len(buff) \in Nat
  <2>1. \A x \in Seq(0 .. 255) : Len(x) \in Nat
    OBVIOUS
  <2>2. QED
    BY <2>1 DEF Reads, PacketInv
<1>9. /\ Len(name) + Len(buff) <= Len(t)
      /\ program # "iam" => Len(name) <= Len(NameChars[m.name])
      /\ program # "iam" /\ at = "name" => Len(name) < Len(NameChars[m.name])
      /\ program # "iam" /\ at = "body" => Len(name) = Len(NameChars[m.name])
  BY DEF Reads, Within
<1>10. /\ \A i \in 1 .. Len(name) : name[i] = All[s + i]
       /\ \A i \in 1 .. Len(buff) : buff[i] = All[s + Len(name) + i]
  BY DEF Reads, Place
<1>11. program # "iam" => h = Len(NameChars[m.name])
  BY <1>2 DEF PacketNames, Head1
<1>12. program = "iam" => h = 0 /\ name = << >> /\ Len(name) = 0
  BY <1>2 DEF Head1, Reads, Origin
<1> DEFINE ln == Len(name)
           lb == Len(buff)
           lt == Len(t)
<1> HIDE DEF k, m, t, h, s, ln, lb, lt
<1>13. /\ \A i \in 1 .. ln : name[i] = t[i]
       /\ \A i \in 1 .. lb : buff[i] = t[ln + i]
  <2>1. ln \in Nat /\ lb \in Nat /\ lt \in Nat /\ ln + lb <= lt /\ s \in Nat
    BY <1>5, <1>7, <1>8, <1>9 DEF ln, lb, lt
  <2>2. /\ \A i \in 1 .. ln : i \in 1 .. lt
        /\ \A i \in 1 .. lb : ln + i \in 1 .. lt /\ s + (ln + i) = s + ln + i
    BY <2>1
  <2>3. ASSUME NEW i \in 1 .. ln PROVE name[i] = t[i]
    <3>1. name[i] = All[s + i]
      BY <1>10 DEF ln
    <3>2. All[s + i] = t[i]
      BY <1>5, <2>2, Zenon DEF lt
    <3>3. QED
      BY <3>1, <3>2, Zenon
  <2>4. ASSUME NEW i \in 1 .. lb PROVE buff[i] = t[ln + i]
    <3>1. buff[i] = All[s + ln + i]
      BY <1>10, Zenon DEF lb, ln
    <3>2. All[s + (ln + i)] = t[ln + i]
      BY <1>5, <2>2, Zenon DEF lt
    <3>3. QED
      BY <2>2, <3>1, <3>2, Zenon
  <2>5. QED
    BY <2>3, <2>4
<1>14. at = "body" => /\ ln = h /\ Name = m.name /\ m.name # "unknown"
                      /\ Size = MaxSize[m.name]
  <2>1. ASSUME at = "body" PROVE ln = h /\ Name = m.name /\ m.name # "unknown"
                                 /\ Size = MaxSize[m.name]
    <3>1. ln = h
      BY <1>9, <1>11, <1>12, <2>1 DEF ln
    <3>2. ASSUME program # "iam" PROVE name = NameChars[m.name]
      <4> DEFINE c == NameChars[m.name]
      <4>1. c \in Seq(65 .. 90)
        BY <1>2, <3>2, NameIs
      <4>2. 65 .. 90 \subseteq 0 .. 255
        OBVIOUS
      <4>3. c \in Seq(0 .. 255)
        <5> DEFINE N == 65 .. 90
                   C == 0 .. 255
        <5>1. N \subseteq C /\ c \in Seq(N)
          BY <4>1, <4>2
        <5> HIDE DEF N, C, c
        <5>2. c \in Seq(C)
          BY <5>1, SeqMonotonic
        <5>3. QED
          BY <5>2 DEF C
      <4>4. Len(c) = Len(name)
        BY <1>11, <3>1, <3>2 DEF ln
      <4>5. ASSUME NEW i \in 1 .. Len(name) PROVE name[i] = c[i]
        <5>1. i \in 1 .. ln /\ i \in 1 .. h
          BY <3>1, <4>5 DEF ln
        <5>2. QED
          BY <1>7, <1>13, <5>1, Zenon
      <4> HIDE DEF c
      <4>6. name = c
        BY <1>8, <4>3, <4>4, <4>5, SeqEqual
      <4>7. QED
        BY <4>6 DEF c
    <3>3. QED
      BY <1>2, <3>1, <3>2, NameKnown
  <2>2. QED
    BY <2>1
<1>15. InText(m, t, h)
  BY <1>5, <1>6, <1>7, <1>8, <1>9, <1>11, <1>13, <1>14, Zenon DEF InText, k, s, ln, lb, lt
<1>16. QED
  BY <1>1, <1>15 DEF Standing, k, m, t, h

(***************************************************************************)
(* A reader that has read all the messages has nothing more to read.       *)
(***************************************************************************)
LEMMA NothingLeft ==
    ASSUME PacketInv, Origin, InStep, Place, ~ (Done < Len(written))
    PROVE  stream = << >> /\ ~ (at = "body" /\ PacketEnds)
PROOF
<1> DEFINE n == Len(name)
           b == Len(buff)
           l == Len(stream)
<1>1. /\ Done \in Nat /\ Len(written) \in Nat /\ Done <= Len(written)
      /\ written \in ToServer \cup ToWaiting \cup ToPlaying
  BY TextsAre DEF Origin, Place
<1>2. Done = Len(written)
  BY <1>1
<1>3. Start(Done) = Len(All) /\ All \in Seq(0 .. 255)
  BY <1>1, <1>2, Starts, TextsAre
<1>4. /\ name \in Seq(0 .. 255) /\ buff \in Seq(0 .. 255) /\ stream \in Seq(0 .. 255)
  BY DEF PacketInv
<1>5. Len(All) \in Nat /\ n \in Nat /\ b \in Nat /\ l \in Nat
  BY <1>3, <1>4
<1>6. Len(All) + n + b + l = Len(All)
  BY <1>3 DEF Place
<1> HIDE DEF n, b, l
<1>7. n = 0 /\ b = 0 /\ l = 0
  BY <1>5, <1>6
<1>8. stream = << >> /\ buff = << >>
  BY <1>4, <1>7 DEF l, b
<1>9. ASSUME at = "body" PROVE ~ PacketEnds
  <2>1. program = "iam"
    <3>1. ASSUME program # "iam" PROVE FALSE
      <4>1. Len(name) = NameLength(name)
        BY <1>9, <3>1 DEF PacketInv, InStep
      <4>2. NameLength(name) \in {4, 5}
        BY NameLengths
      <4>3. QED
        BY <1>7, <4>1, <4>2 DEF n
    <3>2. QED
      BY <3>1
  <2>2. Len(buff) # Size
    <3>1. \A size \in Sizes : size # 0
      BY DEF Sizes
    <3>2. QED
      BY <1>7, <3>1, SizeIs DEF b
  <2>3. ~ IsSuffix(EndChars, buff)
    <3>1. buff \in Seq(0 .. 255)
      BY <1>4
    <3>2. IsSuffix(EndChars, buff) => Len(buff) >= 2
      BY <3>1, EndIs
    <3>3. QED
      BY <1>7, <3>2 DEF b
  <2>4. QED
    BY <2>2, <2>3 DEF PacketEnds
<1>10. QED
  BY <1>8, <1>9

-----------------------------------------------------------------------------
(* Reading the next message.                                               *)

(***************************************************************************)
(* A packet ends where the message it is read from ends, and is read as    *)
(* packets of its name are.                                                *)
(***************************************************************************)
Whole(m, t, h) ==
    /\ Awaited
    /\ Done < Len(written)
    /\ Start(Done) \in Nat /\ Len(name) \in Nat /\ Len(buff) \in Nat
    /\ Start(Done + 1) = Start(Done) + Len(name) + Len(buff)
    /\ Name = m.name
    /\ buff \in Seq(0 .. 255)
    /\ Len(buff) = Len(t) - h
    /\ \A i \in 1 .. Len(t) - h : buff[i] = t[h + i]
    /\ Reading = ReadOf(m.name, buff, readers_id)
    /\ (HasId(m) => SameLength(m.id, readers_id)) => Reading = m

WholeNext == LET m == written[Done + 1] IN Whole(m, Text(m), Head1(m))

(***************************************************************************)
(* A packet of a reader in step ends where its message ends.               *)
(***************************************************************************)
LEMMA WholePacket ==
    PacketInv /\ Origin /\ InStep /\ Place /\ Within /\ at = "body" /\ PacketEnds => WholeNext
PROOF
<1> SUFFICES ASSUME PacketInv, Origin, InStep, Place, Within, at = "body", PacketEnds
             PROVE  WholeNext
  OBVIOUS
<1> DEFINE m == written[Done + 1]
           t == Text(m)
           h == Head1(m)
           b == Len(buff)
           l == Len(t)
<1>1. Done < Len(written)
  BY NothingLeft
<1>2. Awaited /\ InText(m, t, h)
  BY <1>1, WhereItStands DEF Reads, Standing
<1>3. /\ Len(name) = h /\ Name = m.name /\ Size = MaxSize[m.name] /\ m.name # "unknown"
      /\ b \in Nat /\ l \in Nat /\ h \in Nat /\ h + b <= l
      /\ Start(Done) \in Nat /\ Start(Done + 1) = Start(Done) + l
      /\ \A i \in 1 .. b : buff[i] = t[h + i]
  BY <1>2 DEF InText
<1>4. /\ h + 2 <= l /\ l <= h + Size
      /\ \A i \in 1 .. l - 1 : t[i] # LF
      /\ t[l - 1] = CR /\ t[l] = LF
  <2>1. Framed(m)
    BY <1>2 DEF InText
  <2>2. QED
    BY <1>3, <2>1, Zenon DEF Framed
<1>5. buff \in Seq(0 .. 255) /\ readers_id \in Nat
  BY DEF PacketInv
<1>6. Size \in Nat
  BY SizeIs DEF Sizes
<1>7. /\ IsSuffix(EndChars, buff) <=> b >= 2 /\ buff[b - 1] = CR /\ buff[b] = LF
      /\ IsSuffix(<<LF>>, buff) <=> b >= 1 /\ buff[b] = LF
  BY <1>5, EndIs
<1>8. IsSuffix(EndChars, buff) \/ b = Size
  BY DEF PacketEnds
<1> HIDE DEF m, t, h, b, l
<1>9. h + b = l
  <2>1. CASE b = Size
    BY <1>3, <1>4, <1>6, <2>1
  <2>2. CASE IsSuffix(EndChars, buff)
    <3>1. b >= 2 /\ buff[b] = LF
      BY <1>7, <2>2
    <3>2. b \in 1 .. b
      BY <1>3, <3>1
    <3>3. t[h + b] = LF
      BY <1>3, <3>1, <3>2, Zenon
    <3>4. h + b \notin 1 .. l - 1
      BY <1>4, <3>3, Zenon
    <3>5. QED
      BY <1>3, <3>1, <3>4
  <2>3. QED
    BY <1>8, <2>1, <2>2
<1>10. buff[b - 1] = CR /\ buff[b] = LF /\ b >= 2 /\ b >= 1
  <2>1. /\ b - 1 \in 1 .. b /\ b \in 1 .. b /\ h + (b - 1) = l - 1 /\ h + b = l
        /\ b >= 2 /\ b >= 1
    BY <1>3, <1>4, <1>9
  <2>2. buff[b - 1] = t[h + (b - 1)] /\ buff[b] = t[h + b]
    BY <1>3, <2>1, Zenon
  <2>3. t[l - 1] = CR /\ t[l] = LF
    BY <1>4, Zenon
  <2>4. h + (b - 1) = l - 1 /\ h + b = l /\ b >= 2 /\ b >= 1
    BY <2>1, Zenon
  <2>5. QED
    BY <2>2, <2>3, <2>4
<1>11. b = l - h /\ Start(Done + 1) = Start(Done) + h + b
  <2>1. /\ h \in Nat /\ b \in Nat /\ l \in Nat /\ Start(Done) \in Nat
        /\ Start(Done + 1) = Start(Done) + l
    BY <1>3, Zenon
  <2> DEFINE before == Start(Done)
             after == Start(Done + 1)
  <2>2. h + b = l /\ before \in Nat /\ after = before + l
    BY <1>9, <2>1, Zenon
  <2> HIDE DEF before, after
  <2>3. b = l - h /\ after = before + h + b
    BY <2>1, <2>2
  <2>4. QED
    BY <2>3 DEF before, after
<1>12. Reading = ReadOf(m.name, buff, readers_id)
  <2>1. WithEndChars(buff, Size) = buff
    BY <1>7, <1>10 DEF WithEndChars
  <2>2. ~ (~ IsSuffix(<<LF>>, buff) \/ Name = "unknown")
    BY <1>3, <1>7, <1>10
  <2>3. Name \in Known \cup {"IAM"}
    BY <1>2, <1>3 DEF Awaited, m
  <2>4. Name \in {"IAM", "BUSY", "DEAL", "TRICK", "WRONG", "TAKEN", "SCORE", "TOTAL"}
    <3>1. Known \subseteq {"IAM", "BUSY", "DEAL", "TRICK", "WRONG", "TAKEN", "SCORE", "TOTAL"}
      BY DEF Known
    <3>2. QED
      BY <2>3, <3>1
  <2>5. Reading = ReadOf(Name, buff, readers_id)
    BY <2>1, <2>2, <2>4 DEF Reading, ReadOf
  <2>6. QED
    BY <1>3, <2>5
<1>13. ASSUME HasId(m) => SameLength(m.id, readers_id) PROVE Reading = m
  <2>1. Framed(m)
    BY <1>2 DEF InText
  <2>2. Len(buff) = l - h /\ \A i \in 1 .. l - h : buff[i] = t[h + i]
    BY <1>3, <1>11 DEF b
  <2>3. ReadOf(m.name, buff, readers_id) = m
    BY <1>5, <1>13, <2>1, <2>2, Zenon DEF Framed, t, h, l
  <2>4. QED
    BY <1>12, <2>3
<1>14. Whole(m, t, h)
  <2>1. Len(buff) = Len(t) - h /\ \A i \in 1 .. Len(t) - h : buff[i] = t[h + i]
    BY <1>3, <1>11 DEF b, l
  <2>2. Start(Done + 1) = Start(Done) + Len(name) + Len(buff) /\ Len(name) \in Nat
    BY <1>3, <1>11, Zenon DEF b
  <2>3. QED
    BY <1>1, <1>2, <1>3, <1>5, <1>12, <1>13, <2>1, <2>2, Zenon DEF Whole, b
<1>15. QED
  BY <1>14 DEF WholeNext, m, t, h

-----------------------------------------------------------------------------
(* Steps of a reader in step.                                              *)

(***************************************************************************)
(* The next character is read behind the others of the body, or of the     *)
(* name if there is no body yet.                                           *)
(***************************************************************************)
LEMMA MovedToBody ==
    ASSUME NEW all, NEW s \in Nat, NEW n \in Seq(0 .. 255), NEW b \in Seq(0 .. 255),
           NEW st \in Seq(0 .. 255), st # << >>, Laid(all, s, n, b, st)
    PROVE  Laid(all, s, n, Append(b, Head(st)), Tail(st))
PROOF
<1> DEFINE bb == Append(b, Head(st))
           tt == Tail(st)
           ln == Len(n)
           lb == Len(b)
           lt == Len(tt)
<1>1. /\ Len(bb) = lb + 1 /\ Len(st) = lt + 1
      /\ Len(st) \in Nat /\ lb \in Nat /\ lt \in Nat
      /\ \A i \in 1 .. lb : bb[i] = b[i]
      /\ bb[lb + 1] = st[1]
      /\ \A i \in 1 .. lt : tt[i] = st[i + 1]
  BY Taken
<1>2. ln \in Nat
  OBVIOUS
<1>3. /\ s + ln + lb + Len(st) = Len(all)
      /\ \A i \in 1 .. ln : n[i] = all[s + i]
      /\ \A i \in 1 .. lb : b[i] = all[s + ln + i]
      /\ \A i \in 1 .. Len(st) : st[i] = all[s + ln + lb + i]
  BY DEF Laid
<1> HIDE DEF bb, tt, ln, lb, lt
<1>4. s + ln + (lb + 1) + lt = Len(all)
  <2> DEFINE la == Len(all)
             ls == Len(st)
  <2>1. s + ln + lb + ls = la /\ ls = lt + 1
    BY <1>1, <1>3
  <2> HIDE DEF la, ls
  <2>2. s + ln + (lb + 1) + lt = la
    BY <1>1, <1>2, <2>1
  <2>3. QED
    BY <2>2 DEF la
<1>5. ASSUME NEW i \in 1 .. lb + 1 PROVE bb[i] = all[s + ln + i]
  <2>1. i \in 1 .. lb \/ i = lb + 1
    BY <1>1
  <2>2. 1 \in 1 .. Len(st) /\ s + ln + lb + 1 = s + ln + (lb + 1)
    BY <1>1, <1>2
  <2>3. CASE i \in 1 .. lb
    BY <1>1, <1>3, <2>3, Zenon
  <2>4. CASE i = lb + 1
    BY <1>1, <1>3, <2>2, <2>4, Zenon
  <2>5. QED
    BY <2>1, <2>3, <2>4
<1>6. ASSUME NEW i \in 1 .. lt PROVE tt[i] = all[s + ln + (lb + 1) + i]
  <2>1. i + 1 \in 1 .. Len(st) /\ s + ln + lb + (i + 1) = s + ln + (lb + 1) + i
    BY <1>1, <1>2
  <2>2. tt[i] = st[i + 1] /\ st[i + 1] = all[s + ln + lb + (i + 1)]
    BY <1>1, <1>3, <2>1, Zenon
  <2>3. QED
    BY <2>1, <2>2, Zenon
<1>7. Laid(all, s, n, bb, tt)
  BY <1>1, <1>3, <1>4, <1>5, <1>6, Zenon DEF Laid, ln, lt
<1>8. QED
  BY <1>7 DEF bb, tt

(***************************************************************************)
(* The next character is read behind the others of the name.               *)
(***************************************************************************)
LEMMA MovedToName ==
    ASSUME NEW all, NEW s \in Nat, NEW n \in Seq(0 .. 255),
           NEW st \in Seq(0 .. 255), st # << >>, Laid(all, s, n, << >>, st)
    PROVE  Laid(all, s, Append(n, Head(st)), << >>, Tail(st))
PROOF
<1> DEFINE nn == Append(n, Head(st))
           tt == Tail(st)
           none == << >>
<1>1. none \in Seq(0 .. 255) /\ Len(none) = 0
  OBVIOUS
<1>2. /\ Len(nn) = Len(n) + 1 /\ Len(n) \in Nat
      /\ nn \in Seq(0 .. 255) /\ tt \in Seq(0 .. 255) /\ Len(tt) \in Nat /\ Len(st) = Len(tt) + 1
      /\ \A i \in 1 .. Len(n) : nn[i] = n[i]
      /\ nn[Len(n) + 1] = st[1]
      /\ \A i \in 1 .. Len(tt) : tt[i] = st[i + 1]
  BY Taken
<1> HIDE DEF nn, tt, none
<1> DEFINE ln == Len(n)
           lt == Len(tt)
           ls == Len(st)
           la == Len(all)
<1>3. /\ s + ln + 0 + ls = la
      /\ \A i \in 1 .. ln : n[i] = all[s + i]
      /\ \A i \in 1 .. ls : st[i] = all[s + ln + 0 + i]
  <2>1. Laid(all, s, n, none, st)
    BY DEF none
  <2>2. QED
    BY <1>1, <2>1, Zenon DEF Laid
<1>4. ln \in Nat /\ lt \in Nat /\ ls = lt + 1
  BY <1>2
<1> HIDE DEF ln, lt, ls, la
<1>5. s + (ln + 1) + 0 + lt = la
  BY <1>3, <1>4
<1>6. ASSUME NEW i \in 1 .. ln + 1 PROVE nn[i] = all[s + i]
  <2>1. i \in 1 .. ln \/ i = ln + 1
    BY <1>4
  <2>2. 1 \in 1 .. ls /\ s + ln + 0 + 1 = s + (ln + 1)
    BY <1>4
  <2>3. CASE i \in 1 .. ln
    BY <1>2, <1>3, <2>3, Zenon DEF ln
  <2>4. CASE i = ln + 1
    BY <1>2, <1>3, <2>2, <2>4, Zenon DEF ln
  <2>5. QED
    BY <2>1, <2>3, <2>4
<1>7. ASSUME NEW i \in 1 .. lt PROVE tt[i] = all[s + (ln + 1) + 0 + i]
  <2>1. i + 1 \in 1 .. ls /\ s + ln + 0 + (i + 1) = s + (ln + 1) + 0 + i
    BY <1>4
  <2>2. tt[i] = st[i + 1] /\ st[i + 1] = all[s + ln + 0 + (i + 1)]
    BY <1>2, <1>3, <2>1, Zenon DEF lt
  <2>3. QED
    BY <2>1, <2>2, Zenon
<1>8. \A i \in 1 .. 0 : none[i] = all[s + (ln + 1) + i]
  OBVIOUS
<1>9. Laid(all, s, nn, none, tt)
  <2>1. Len(nn) = ln + 1 /\ Len(tt) = lt
    BY <1>2 DEF ln, lt
  <2>2. QED
    BY <1>1, <1>5, <1>6, <1>7, <1>8, <2>1, SMT DEF Laid, la
<1>10. QED
  BY <1>9 DEF nn, tt, none

(***************************************************************************)
(* A packet that was read takes its characters away.                       *)
(***************************************************************************)
LEMMA Passed ==
    ASSUME NEW all, NEW s \in Nat, NEW n \in Seq(0 .. 255), NEW b \in Seq(0 .. 255),
           NEW st, Len(st) \in Nat, Laid(all, s, n, b, st),
           NEW e, e = s + Len(n) + Len(b)
    PROVE  Laid(all, e, << >>, << >>, st)
PROOF
<1> DEFINE none == << >>
           ln == Len(n)
           lb == Len(b)
           ls == Len(st)
           la == Len(all)
<1>1. Len(none) = 0
  OBVIOUS
<1>2. /\ s + ln + lb + ls = la /\ e = s + ln + lb
      /\ \A i \in 1 .. ls : st[i] = all[s + ln + lb + i]
  BY DEF Laid
<1>3. ln \in Nat /\ lb \in Nat /\ ls \in Nat
  OBVIOUS
<1> HIDE DEF none, ln, lb, ls, la
<1>4. e \in Nat /\ e + 0 + 0 + ls = la
  BY <1>2, <1>3
<1>5. \A i \in 1 .. ls : st[i] = all[e + 0 + 0 + i]
  <2>1. ASSUME NEW i \in 1 .. ls PROVE st[i] = all[e + 0 + 0 + i]
    <3>1. e + 0 + 0 + i = e + i
      BY <1>4
    <3>2. st[i] = all[e + i]
      BY <1>2, Zenon
    <3>3. QED
      BY <3>1, <3>2, Zenon
  <2>2. QED
    BY <2>1
<1>6. /\ \A i \in 1 .. 0 : none[i] = all[e + i]
      /\ \A i \in 1 .. 0 : none[i] = all[e + 0 + i]
  OBVIOUS
<1>7. Laid(all, e, none, none, st)
  BY <1>1, <1>4, <1>5, <1>6, Zenon DEF Laid, ls, la
<1>8. QED
  BY <1>7 DEF none

(***************************************************************************)
(* What was written does not move.                                         *)
(***************************************************************************)
LEMMA Unmoved ==
    ASSUME written' = written
    PROVE  /\ Len(written)' = Len(written) /\ All' = All
           /\ Done' = Done => Start(Done)' = Start(Done)
           /\ Done' = Done + 1 => Start(Done)' = Start(Done + 1)
PROOF
<1>1. Texts' = Texts
  BY DEF Texts
<1>2. All' = All
  BY <1>1 DEF All
<1>3. ASSUME Done' = Done PROVE Start(Done)' = Start(Done)
  BY <1>1, <1>3 DEF Start
<1>4. ASSUME Done' = Done + 1 PROVE Start(Done)' = Start(Done + 1)
  BY <1>1, <1>4 DEF Start
<1>5. QED
  BY <1>2, <1>3, <1>4

(***************************************************************************)
(* Reading a character of a name keeps a reader in step.                   *)
(***************************************************************************)
LEMMA NameCharInStep ==
    ASSUME PacketInv, Origin, StepInv, ReadNameChar
    PROVE  StepInv'
PROOF
<1> SUFFICES ASSUME InStep' PROVE Place' /\ Within'
  BY DEF StepInv
<1>1. /\ program # "closed" /\ at = "name" /\ stream # << >>
      /\ name' = Append(name, Head(stream)) /\ stream' = Tail(stream)
      /\ at' = IF Len(name') = NameLength(name') THEN "body" ELSE "name"
      /\ UNCHANGED <<program, buff, readers_id, written, readings, timeouts>>
  BY DEF ReadNameChar
<1>2. Done' = Done /\ Len(written)' = Len(written) /\ All' = All /\ Start(Done)' = Start(Done)
  BY <1>1, Unmoved DEF Done
<1>3. InStep
  BY <1>1, <1>2 DEF InStep
<1>4. Place /\ Within
  BY <1>3 DEF StepInv
<1>5. Done < Len(written)
  BY <1>1, <1>3, <1>4, NothingLeft
<1> DEFINE m == written[Done + 1]
           t == Text(m)
           h == Head1(m)
           s == Start(Done)
<1>6. Awaited /\ InText(m, t, h)
  BY <1>3, <1>4, <1>5, WhereItStands DEF Reads, Standing
<1>7. /\ name \in Seq(0 .. 255) /\ stream \in Seq(0 .. 255) /\ buff = << >>
  BY <1>1 DEF PacketInv
<1>8. program # "iam"
  BY <1>1 DEF Origin
<1>9. /\ s \in Nat /\ h = Len(NameChars[m.name]) /\ h \in Nat /\ Len(name) \in Nat
      /\ Len(name) < h
      /\ \A i \in 1 .. Len(t) : All[s + i] = t[i]
  BY <1>1, <1>6, <1>8 DEF InText
<1>10. /\ h + 2 <= Len(t) /\ Len(t) \in Nat
       /\ \A i \in 1 .. h : t[i] = NameChars[m.name][i]
  <2>1. Framed(m) /\ Len(t) \in Nat
    BY <1>6 DEF InText
  <2>2. QED
    BY <2>1, Zenon DEF Framed
<1> HIDE DEF m, t, h, s
<1>11. Laid(All, s, name', buff', stream')
  <2>1. Laid(All, s, name, << >>, stream)
    BY <1>4, <1>7 DEF Place, Laid, s
  <2>2. Laid(All, s, Append(name, Head(stream)), << >>, Tail(stream))
    BY <1>1, <1>7, <1>9, <2>1, MovedToName
  <2>3. QED
    BY <1>1, <1>7, <2>2
<1>12. Place'
  <2>1. Done' <= Len(written)'
    BY <1>2, <1>4 DEF Place
  <2>2. Start(Done)' = s
    BY <1>2 DEF s
  <2>3. QED
    BY <1>2, <1>11, <2>1, <2>2 DEF Place, Laid
<1>13. Len(name') = Len(name) + 1 /\ Len(buff') = 0 /\ name'[1] = All[s + 1]
  <2>1. Len(name') = Len(name) + 1 /\ Len(buff') = 0
    <3>1. Len(Append(name, Head(stream))) = Len(name) + 1
      BY <1>1, <1>7, Taken
    <3>2. QED
      BY <1>1, <1>7, <3>1
  <2>2. 1 \in 1 .. Len(name')
    BY <1>9, <2>1
  <2>3. QED
    BY <1>11, <2>1, <2>2, Zenon DEF Laid
<1>14. NameLength(name') = h
  <2>1. m.name \in PacketNames /\ (program \notin Client => m.name = "TRICK")
    <3>1. program \in Server \cup Client \cup {"closed"}
      BY DEF PacketInv
    <3>2. QED
      BY <1>1, <1>6, <1>8, <3>1 DEF Awaited, Server, Client, m
  <2>2. /\ h = IF m.name \in {"BUSY", "DEAL"} THEN 4 ELSE 5
        /\ NameChars[m.name][1] \in {68, 66} <=> m.name \in {"BUSY", "DEAL"}
    BY <1>9, <2>1, NameIs
  <2>3. 1 \in 1 .. h /\ 1 \in 1 .. Len(t)
    BY <1>9, <1>10
  <2>4. name'[1] = NameChars[m.name][1]
    BY <1>9, <1>10, <1>13, <2>3, Zenon
  <2>5. QED
    BY <2>1, <2>2, <2>4 DEF NameLength
<1>15. Within'
  <2>1. program' = "waiting" => readings' = << >>
    BY <1>1, <1>4 DEF Within
  <2>2. written'[Done' + 1] = m /\ Text(m) = t
    BY <1>1, <1>2 DEF m, t
  <2>3. /\ Len(name') + Len(buff') <= Len(t)
        /\ Len(name') <= h
        /\ at' = "name" => Len(name') < h
        /\ at' = "body" => Len(name') = h
    <3> DEFINE n == Len(name)
               nn == Len(name')
               bb == Len(buff')
               l == Len(t)
    <3>1. n \in Nat /\ n < h /\ h \in Nat /\ h + 2 <= l /\ l \in Nat /\ nn = n + 1 /\ bb = 0
      BY <1>9, <1>10, <1>13
    <3>2. at' = IF nn = h THEN "body" ELSE "name"
      BY <1>1, <1>14
    <3> HIDE DEF n, nn, bb, l
    <3>3. nn + bb <= l /\ nn <= h /\ (nn # h => nn < h)
      BY <3>1
    <3>4. QED
      BY <3>2, <3>3 DEF nn, bb, l
  <2>4. h = Len(NameChars[m.name])
    BY <1>9
  <2>5. QED
    BY <2>1, <2>2, <2>3, <2>4 DEF Within
<1>16. QED
  BY <1>12, <1>15

(***************************************************************************)
(* Reading a character of a body keeps a reader in step.                   *)
(***************************************************************************)
LEMMA CharInStep ==
    ASSUME PacketInv, Origin, StepInv, ReadChar
    PROVE  StepInv'
PROOF
<1> SUFFICES ASSUME InStep' PROVE Place' /\ Within'
  BY DEF StepInv
<1>1. /\ program # "closed" /\ at = "body" /\ ~ PacketEnds /\ stream # << >>
      /\ buff' = Append(buff, Head(stream)) /\ stream' = Tail(stream)
      /\ UNCHANGED <<program, at, name, readers_id, written, readings, timeouts>>
  BY DEF ReadChar
<1>2. Done' = Done /\ Len(written)' = Len(written) /\ All' = All /\ Start(Done)' = Start(Done)
  BY <1>1, Unmoved DEF Done
<1>3. InStep
  BY <1>1, <1>2 DEF InStep
<1>4. Place /\ Within
  BY <1>3 DEF StepInv
<1>5. Done < Len(written)
  BY <1>1, <1>3, <1>4, NothingLeft
<1> DEFINE m == written[Done + 1]
           t == Text(m)
           h == Head1(m)
           s == Start(Done)
           b == Len(buff)
           l == Len(t)
<1>6. Awaited /\ InText(m, t, h)
  BY <1>3, <1>4, <1>5, WhereItStands DEF Reads, Standing
<1>7. /\ name \in Seq(0 .. 255) /\ stream \in Seq(0 .. 255) /\ buff \in Seq(0 .. 255)
  BY <1>1 DEF PacketInv
<1>8. /\ s \in Nat /\ h \in Nat /\ Len(name) = h /\ b \in Nat /\ l \in Nat
      /\ h + b <= l
      /\ \A i \in 1 .. b : buff[i] = t[h + i]
  BY <1>1, <1>6 DEF InText
<1>9. /\ h + 2 <= l /\ t[l - 1] = CR /\ t[l] = LF
  <2>1. Framed(m)
    BY <1>6 DEF InText
  <2>2. QED
    BY <2>1, Zenon DEF Framed
<1>10. ~ (b >= 2 /\ buff[b - 1] = CR /\ buff[b] = LF)
  <2>1. ~ IsSuffix(EndChars, buff)
    BY <1>1 DEF PacketEnds
  <2>2. QED
    BY <1>7, <2>1, EndIs
<1> HIDE DEF m, t, h, s, b, l
<1>11. h + b + 1 <= l
  <2>1. ASSUME h + b = l PROVE FALSE
    <3>1. /\ b - 1 \in 1 .. b /\ b \in 1 .. b /\ h + (b - 1) = l - 1 /\ b >= 2
      BY <1>8, <1>9, <2>1
    <3>2. buff[b - 1] = t[h + (b - 1)] /\ buff[b] = t[h + b]
      BY <1>8, <3>1, Zenon
    <3>3. QED
      BY <1>9, <1>10, <2>1, <3>1, <3>2
  <2>2. QED
    BY <1>8, <2>1
<1>12. Laid(All, s, name', buff', stream')
  <2>1. Laid(All, s, name, buff, stream)
    BY <1>4 DEF Place, Laid, s
  <2>2. Laid(All, s, name, Append(buff, Head(stream)), Tail(stream))
    BY <1>1, <1>7, <1>8, <2>1, MovedToBody
  <2>3. QED
    BY <1>1, <2>2
<1>13. Place'
  <2>1. Done' <= Len(written)'
    BY <1>2, <1>4 DEF Place
  <2>2. Start(Done)' = s
    BY <1>2 DEF s
  <2>3. QED
    BY <1>2, <1>12, <2>1, <2>2 DEF Place, Laid
<1>14. Within'
  <2>1. program' = "waiting" => readings' = << >>
    BY <1>1, <1>4 DEF Within
  <2>2. written'[Done' + 1] = m /\ Text(m) = t
    BY <1>1, <1>2 DEF m, t
  <2>3. Len(name') + Len(buff') <= Len(t)
    <3>1. Len(Append(buff, Head(stream))) = b + 1
      BY <1>1, <1>7, Taken DEF b
    <3>2. Len(name') = h /\ Len(buff') = b + 1 /\ Len(t) = l
      BY <1>1, <1>8, <3>1 DEF l
    <3>3. h + (b + 1) <= l
      BY <1>8, <1>11
    <3>4. QED
      BY <3>2, <3>3, Zenon
  <2>4. program # "iam" => Len(name) = Len(NameChars[m.name])
    BY <1>1, <1>6 DEF InText
  <2>5. Len(name) <= Len(name)
    BY <1>8
  <2>6. QED
    BY <1>1, <2>1, <2>2, <2>3, <2>4, <2>5 DEF Within
<1>15. QED
  BY <1>13, <1>14

(***************************************************************************)
(* What the three readers do alike with a packet.                          *)
(***************************************************************************)
Takes == ServerTakes \/ WaitingTakes \/ PlayingTakes

(***************************************************************************)
(* The packet joins the readings, and nothing of the next one is read.     *)
(***************************************************************************)
LEMMA TakesDo ==
    ASSUME PacketInv, Origin, Takes
    PROVE  /\ program # "closed" /\ at = "body" /\ PacketEnds
           /\ at' = "name" /\ name' = << >> /\ buff' = << >>
           /\ stream' = stream /\ written' = written /\ timeouts' = timeouts
           /\ readings' = Append(readings, [message |-> Reading, at_id |-> readers_id])
           /\ Done \in Nat /\ Done' = Done + 1
           /\ \A i \in 1 .. Done : readings'[i] = readings[i]
           /\ readings'[Done + 1] = [message |-> Reading, at_id |-> readers_id]
           /\ DOMAIN readings = 1 .. Done /\ DOMAIN readings' = 1 .. Done + 1
PROOF
<1>1. TakePacket("name") /\ program \in Server \cup Client
  BY DEF Takes, ServerTakes, WaitingTakes, PlayingTakes, Client
<1> DEFINE q == readings
           n == Done
           r == [message |-> Reading, at_id |-> readers_id]
           a == Append(q, r)
<1>2. /\ at = "body" /\ PacketEnds
      /\ at' = "name" /\ name' = << >> /\ buff' = << >>
      /\ stream' = stream /\ written' = written /\ timeouts' = timeouts
      /\ readings' = a
  BY <1>1 DEF TakePacket
<1>3. n \in Nat /\ q = [i \in 1 .. n |-> q[i]]
  BY DEF Origin
<1> HIDE DEF r
<1>4. Done' = Len(a)
  BY <1>2 DEF Done
<1> HIDE DEF q, n
<1>5. /\ Len(a) = n + 1
      /\ a = [i \in 1 .. n + 1 |-> a[i]]
      /\ \A i \in 1 .. n : a[i] = q[i]
      /\ a[n + 1] = r
  BY <1>3, ReadingAdded
<1> HIDE DEF a
<1>6. DOMAIN q = 1 .. n /\ DOMAIN a = 1 .. n + 1
  BY <1>3, <1>5
<1>7. program # "closed"
  BY <1>1 DEF Server, Client
<1>8. /\ Done' = Done + 1
      /\ \A i \in 1 .. Done : readings'[i] = readings[i]
      /\ readings'[Done + 1] = r
      /\ DOMAIN readings = 1 .. Done /\ DOMAIN readings' = 1 .. Done + 1
  BY <1>2, <1>4, <1>5, <1>6, Zenon DEF q, n
<1>9. readings' = Append(readings, r)
  BY <1>2 DEF a, q
<1>10. QED
  BY <1>2, <1>3, <1>7, <1>8, <1>9 DEF r, n

(***************************************************************************)
(* Taking a packet keeps a reader in step: the next message follows.       *)
(***************************************************************************)
LEMMA TakesInStep ==
    ASSUME PacketInv, Origin, StepInv, PacketInv', Origin', Takes
    PROVE  StepInv'
PROOF
<1> SUFFICES ASSUME InStep' PROVE Place' /\ Within'
  BY DEF StepInv
<1>1. /\ program # "closed" /\ at = "body" /\ PacketEnds
      /\ at' = "name" /\ name' = << >> /\ buff' = << >>
      /\ stream' = stream /\ written' = written /\ timeouts' = timeouts
      /\ Done \in Nat /\ Done' = Done + 1
  BY TakesDo
<1>2. Len(written)' = Len(written) /\ All' = All /\ Start(Done)' = Start(Done + 1)
  BY <1>1, Unmoved
<1>3. InStep
  <2>1. ASSUME NEW j \in DOMAIN written, j <= Done + 1 PROVE written[j].name # "OTHER"
    <3>1. j <= Done' + 1
      <4>1. DOMAIN written = 1 .. Len(written)
        BY TextsAre DEF Origin
      <4>2. j \in Nat
        BY <4>1
      <4>3. QED
        BY <1>1, <2>1, <4>2
    <3>2. j \in DOMAIN written'
      BY <1>1
    <3>3. written'[j].name # "OTHER"
      BY <3>1, <3>2 DEF InStep
    <3>4. QED
      BY <1>1, <3>3
  <2>2. timeouts = 0
    BY <1>1 DEF InStep
  <2>3. QED
    BY <1>1, <2>1, <2>2 DEF InStep
<1>4. Place /\ Within
  BY <1>3 DEF StepInv
<1> DEFINE m == written[Done + 1]
           t == Text(m)
           h == Head1(m)
           s == Start(Done)
           e == Start(Done + 1)
<1>5. Whole(m, t, h)
  BY <1>1, <1>3, <1>4, WholePacket DEF WholeNext
<1>6. /\ Awaited /\ Done < Len(written)
      /\ s \in Nat
      /\ e = s + Len(name) + Len(buff)
      /\ Name = m.name
      /\ (HasId(m) => SameLength(m.id, readers_id)) => Reading = m
  BY <1>5 DEF Whole
<1>7. /\ name \in Seq(0 .. 255) /\ buff \in Seq(0 .. 255) /\ Len(stream) \in Nat
  BY DEF PacketInv
<1>8. Place'
  <2>1. Done' <= Len(written)'
    <3>1. Len(written) \in Nat
      BY TextsAre DEF Origin
    <3>2. QED
      BY <1>1, <1>2, <1>6, <3>1
  <2> HIDE DEF e, s
  <2>2. Laid(All, s, name, buff, stream)
    BY <1>4 DEF Place, Laid, s
  <2>3. Laid(All, e, << >>, << >>, stream)
    BY <1>6, <1>7, <2>2, Passed
  <2>4. Laid(All, e, name', buff', stream')
    BY <1>1, <2>3
  <2>5. Start(Done)' = e
    BY <1>2 DEF e
  <2>6. QED
    BY <1>2, <2>1, <2>4, <2>5 DEF Place, Laid
<1>9. program' # "waiting" /\ program' # "iam"
  <2>1. program' # "iam"
    BY <1>1 DEF Origin
  <2>2. ASSUME program' = "waiting" PROVE FALSE
    <3>1. WaitingTakes
      BY <2>2 DEF Takes, ServerTakes, PlayingTakes
    <3>2. m.name \in {"BUSY", "DEAL"}
      BY <1>6, <3>1 DEF WaitingTakes, Awaited
    <3>3. Reading = m
      BY <1>6, <3>2 DEF HasId
    <3> HIDE DEF m
    <3>4. Name # "BUSY" /\ Reading.name # "DEAL"
      BY <2>2, <3>1 DEF WaitingTakes
    <3>5. QED
      BY <1>6, <3>2, <3>3, <3>4
  <2>3. QED
    BY <2>1, <2>2
<1>10. Within'
  <2>1. program' = "waiting" => readings' = << >>
    BY <1>9
  <2>2. ASSUME Done' < Len(written')
        PROVE  /\ Len(name') + Len(buff') <= Len(Text(written'[Done' + 1]))
               /\ 0 < Len(NameChars[written'[Done' + 1].name])
               /\ Len(name') = 0
    <3> DEFINE mm == written'[Done' + 1]
    <3>1. Awaits'
      BY <1>9, <2>2 DEF Awaits
    <3>2. Awaited'
      BY <3>1, ThenAwaited
    <3>3. mm \in IAMs \cup BUSYs \cup Playing /\ mm.name \in PacketNames
      BY <1>9, <3>2 DEF Awaited
    <3>4. Framed(mm)
      BY <3>3, TextFramed
    <3>5. Len(Text(mm)) \in Nat
      <4>1. Text(mm) \in Seq(0 .. 255)
        BY <3>4 DEF Framed
      <4>2. QED
        BY <4>1
    <3>6. Len(NameChars[mm.name]) \in {4, 5}
      BY <3>3, NameIs
    <3>7. Len(name') = 0 /\ Len(buff') = 0
      BY <1>1
    <3> DEFINE l == Len(Text(mm))
               x == Len(NameChars[mm.name])
    <3>8. l \in Nat /\ x \in {4, 5}
      BY <3>5, <3>6
    <3> HIDE DEF mm, l, x
    <3>9. 0 + 0 <= l /\ 0 < x
      BY <3>8
    <3>10. QED
      BY <3>7, <3>9, Zenon DEF mm, l, x
  <2>3. at' # "body"
    BY <1>1
  <2>4. QED
    <3> DEFINE mm == written'[Done' + 1]
               x == Len(NameChars[mm.name])
    <3>1. Done' < Len(written') => Len(name') <= x /\ Len(name') < x
      <4>1. ASSUME Done' < Len(written') PROVE Len(name') <= x /\ Len(name') < x
        <5>1. Len(name') = 0 /\ 0 < x
          BY <2>2, <4>1
        <5>2. x \in Nat
          <6>1. Awaits'
            BY <1>9, <4>1 DEF Awaits
          <6>2. mm.name \in PacketNames
            BY <1>9, <6>1, ThenAwaited DEF Awaited
          <6>3. x \in {4, 5}
            BY <6>2, NameIs
          <6>4. QED
            BY <6>3
        <5> HIDE DEF x
        <5>3. QED
          BY <5>1, <5>2
      <4>2. QED
        BY <4>1
    <3>2. QED
      BY <2>1, <2>2, <2>3, <3>1 DEF Within
<1>11. QED
  BY <1>8, <1>10

(***************************************************************************)
(* A read that timed out is not forgotten.                                 *)
(***************************************************************************)
LEMMA NeverAgain == PacketInv /\ ReadTimesOut => timeouts' # 0
PROOF
<1> SUFFICES ASSUME PacketInv, ReadTimesOut PROVE timeouts' # 0
  OBVIOUS
<1>1. timeouts' = timeouts + 1
  BY DEF ReadTimesOut
<1>2. timeouts \in 0 .. MaxTimeouts /\ MaxTimeouts \in Nat
  BY WireAssumption DEF PacketInv
<1>3. QED
  BY <1>1, <1>2

(***************************************************************************)
(* Nothing else is done by a reader that is in step afterwards.            *)
(***************************************************************************)
LEMMA StepKept ==
    PacketInv /\ Origin /\ StepInv /\ [Next]_vars => StepInv'
PROOF
<1> SUFFICES ASSUME PacketInv, Origin, StepInv, [Next]_vars PROVE StepInv'
  OBVIOUS
<1>1. PacketInv' /\ Origin'
  BY NextTyped
<1>2. CASE ReadNameChar
  BY <1>2, NameCharInStep
<1>3. CASE ReadChar
  BY <1>3, CharInStep
<1>4. CASE ServerTakes \/ WaitingTakes \/ PlayingTakes
  BY <1>1, <1>4, TakesInStep DEF Takes
<1>5. CASE WrongAfterLastTrick
  <2>1. program' = "closed"
    BY <1>5 DEF WrongAfterLastTrick
  <2>2. QED
    BY <2>1 DEF StepInv, InStep
<1>6. CASE ReadTimesOut
  BY <1>6, NeverAgain DEF StepInv, InStep
<1>7. CASE vars' = vars
  <2>1. UNCHANGED <<program, at, name, buff, readers_id, stream, written, readings, timeouts>>
    BY <1>7 DEF vars
  <2>2. Done' = Done /\ All' = All /\ Start(Done)' = Start(Done)
    BY <2>1, Unmoved DEF Done
  <2>3. InStep' = InStep
    BY <2>1, <2>2 DEF InStep
  <2>4. Place' = Place
    BY <2>1, <2>2 DEF Place
  <2>5. Within' = Within
    BY <2>1, <2>2 DEF Within
  <2>6. QED
    BY <2>3, <2>4, <2>5 DEF StepInv
<1>8. QED
  BY <1>2, <1>3, <1>4, <1>5, <1>6, <1>7 DEF Next

(***************************************************************************)
(* At first nothing was read.                                              *)
(***************************************************************************)
LEMMA StepFirst == Init => StepInv
PROOF
<1> SUFFICES ASSUME Init, InStep PROVE Place /\ Within
  BY DEF StepInv
<1>1. /\ stream = All
      /\ at = IF program = "iam" THEN "body" ELSE "name"
      /\ name = << >> /\ buff = << >> /\ readings = << >>
  BY DEF Init, All, Texts
<1>2. PacketInv /\ Origin
  BY InitTyped
<1>3. /\ Len(<< >>) = 0 /\ Done = 0
  BY <1>1 DEF Done
<1>4. /\ written \in ToServer \cup ToWaiting \cup ToPlaying
  BY <1>2 DEF Origin
<1>5. /\ Start(0) = 0 /\ Len(written) \in Nat /\ All \in Seq(0 .. 255)
  BY <1>4, Starts, TextsAre
<1>6. Start(Done) = 0 /\ Len(name) = 0 /\ Len(buff) = 0
  BY <1>1, <1>3, <1>5, Zenon
<1>7. Place
  <2>1. Done <= Len(written)
    BY <1>3, <1>5
  <2> DEFINE la == Len(All)
  <2>2. la \in Nat
    BY <1>5
  <2> HIDE DEF la
  <2>3. 0 + 0 + 0 + la = la
    BY <2>2
  <2>4. Start(Done) + Len(name) + Len(buff) + Len(stream) = Len(All)
    BY <1>1, <1>6, <2>3, Zenon DEF la
  <2>5. \A i \in 1 .. 0 : FALSE
    OBVIOUS
  <2>6. \A i \in 1 .. Len(stream) : stream[i] = All[Start(Done) + Len(name) + Len(buff) + i]
    <3>1. \A i \in 1 .. la : 0 + 0 + 0 + i = i
      BY <2>2
    <3>2. Len(stream) = la
      BY <1>1 DEF la
    <3>3. QED
      BY <1>1, <1>6, <3>1, <3>2, Zenon
  <2>7. /\ \A i \in 1 .. Len(name) : name[i] = All[Start(Done) + i]
        /\ \A i \in 1 .. Len(buff) : buff[i] = All[Start(Done) + Len(name) + i]
    BY <1>6, <2>5, Zenon
  <2>8. QED
    BY <2>1, <2>4, <2>6, <2>7 DEF Place
<1>8. Within
  <2> DEFINE m == written[Done + 1]
             x == Len(NameChars[m.name])
  <2>1. ASSUME Done < Len(written)
        PROVE  /\ Len(name) + Len(buff) <= Len(Text(m))
               /\ program # "iam" => Len(name) <= x /\ Len(name) < x
    <3>1. Awaited
      BY <1>1, <1>2, <2>1, NextAwaited DEF Awaits
    <3>2. /\ m \in IAMs \cup BUSYs \cup Playing
          /\ program # "iam" => m.name \in PacketNames
      BY <3>1 DEF Awaited
    <3>3. Text(m) \in Seq(0 .. 255)
      BY <3>2, TextFramed DEF Framed
    <3>4. Len(Text(m)) \in Nat
      BY <3>3
    <3>5. program # "iam" => x \in {4, 5}
      BY <3>2, NameIs
    <3> HIDE DEF x, m
    <3>6. 0 + 0 <= Len(Text(m)) /\ (program # "iam" => 0 <= x /\ 0 < x)
      BY <3>4, <3>5
    <3>7. QED
      BY <1>6, <3>6, Zenon
  <2>2. program # "iam" => at # "body"
    BY <1>1
  <2>3. QED
    BY <1>1, <2>1, <2>2 DEF Within
<1>9. QED
  BY <1>7, <1>8

(***************************************************************************)
(* A packet that is taken when nothing timed out, and nothing else was     *)
(* written up to it, is the next message.                                  *)
(***************************************************************************)
LEMMA TakenWhole ==
    ASSUME PacketInv, Origin, StepInv, Takes, timeouts = 0,
           \A j \in 1 .. Done + 1 : written[j].name # "OTHER"
    PROVE  WholeNext
PROOF
<1>1. /\ program # "closed" /\ at = "body" /\ PacketEnds
      /\ Done \in Nat
  BY TakesDo
<1>2. InStep
  <2>1. ASSUME NEW j \in DOMAIN written, j <= Done + 1 PROVE written[j].name # "OTHER"
    <3>1. DOMAIN written = 1 .. Len(written)
      BY TextsAre DEF Origin
    <3>2. j \in 1 .. Done + 1
      BY <1>1, <2>1, <3>1
    <3>3. QED
      BY <3>2
  <2>2. QED
    BY <1>1, <2>1 DEF InStep
<1>3. QED
  BY <1>1, <1>2, WholePacket DEF StepInv

(***************************************************************************)
(* No step but the taking of a packet changes what was read.               *)
(***************************************************************************)
LEMMA ReadingsStay ==
    ASSUME [Next]_vars, ~ Takes
    PROVE  readings' = readings /\ written' = written /\ (timeouts' = timeouts \/ ReadTimesOut)
PROOF
  BY DEF Next, vars, ReadNameChar, ReadChar, Takes, WrongAfterLastTrick, ReadTimesOut

(***************************************************************************)
(* What was read as it was written stays so, with each packet taken.       *)
(***************************************************************************)
LEMMA ReadAsWrittenKept ==
    PacketInv /\ Origin /\ StepInv /\ ReadAsWritten /\ [Next]_vars => ReadAsWritten'
PROOF
<1> SUFFICES ASSUME PacketInv, Origin, StepInv, ReadAsWritten, [Next]_vars
             PROVE  ReadAsWritten'
  OBVIOUS
<1>1. CASE Takes
  <2>1. /\ written' = written /\ timeouts' = timeouts
        /\ Done \in Nat
        /\ \A i \in 1 .. Done : readings'[i] = readings[i]
        /\ readings'[Done + 1] = [message |-> Reading, at_id |-> readers_id]
        /\ DOMAIN readings = 1 .. Done /\ DOMAIN readings' = 1 .. Done + 1
    BY <1>1, TakesDo
  <2> SUFFICES ASSUME timeouts = 0, NEW i \in 1 .. Done + 1,
                      \A j \in 1 .. i :
                        /\ written[j].name # "OTHER"
                        /\ HasId(written[j]) =>
                             SameLength(written[j].id, readings'[j].at_id)
               PROVE  readings'[i].message = written[i]
    BY <2>1 DEF ReadAsWritten
  <2>2. CASE i \in 1 .. Done
    <3>1. \A j \in 1 .. i : j \in 1 .. Done
      BY <2>1, <2>2
    <3>2. \A j \in 1 .. i : readings'[j] = readings[j]
      BY <2>1, <3>1, Zenon
    <3>3. \A j \in 1 .. i :
                /\ written[j].name # "OTHER"
                /\ HasId(written[j]) => SameLength(written[j].id, readings[j].at_id)
      BY <3>2
    <3>4. readings[i].message = written[i]
      BY <2>1, <2>2, <3>3, Zenon DEF ReadAsWritten
    <3>5. readings'[i] = readings[i]
      BY <2>1, <2>2
    <3>6. QED
      BY <3>4, <3>5
  <2>3. CASE i = Done + 1
    <3> DEFINE m == written[Done + 1]
    <3>1. \A j \in 1 .. Done + 1 : written[j].name # "OTHER"
      BY <2>3
    <3>2. Whole(m, Text(m), Head1(m))
      BY <1>1, <3>1, TakenWhole DEF WholeNext
    <3>3. (HasId(m) => SameLength(m.id, readers_id)) => Reading = m
      BY <3>2 DEF Whole
    <3>4. i \in 1 .. i
      BY <2>1, <2>3
    <3>5. HasId(m) => SameLength(m.id, readings'[i].at_id)
      BY <2>3, <3>4
    <3>6. readings'[i].at_id = readers_id /\ readings'[i].message = Reading
      BY <2>1, <2>3
    <3>7. QED
      BY <2>3, <3>3, <3>5, <3>6
  <2>4. QED
    <3>1. i \in 1 .. Done \/ i = Done + 1
      BY <2>1
    <3>2. QED
      BY <2>2, <2>3, <3>1
<1>2. CASE ~ Takes
  <2>1. readings' = readings /\ written' = written /\ (timeouts' = timeouts \/ ReadTimesOut)
    BY <1>2, ReadingsStay
  <2>2. CASE timeouts' = timeouts
    BY <2>1, <2>2 DEF ReadAsWritten
  <2>3. CASE ReadTimesOut
    BY <2>3, NeverAgain DEF ReadAsWritten
  <2>4. QED
    BY <2>1, <2>2, <2>3
<1>3. QED
  BY <1>1, <1>2

(***************************************************************************)
(* The reader always is where what it reads was written, until something   *)
(* times out or something else comes: the inductive invariant.             *)
(***************************************************************************)
LEMMA AlwaysInStep == Spec => [](PacketInv /\ Origin /\ StepInv)
PROOF
<1>1. Init => PacketInv /\ Origin /\ StepInv
  BY InitTyped, StepFirst
<1>2. (PacketInv /\ Origin /\ StepInv) /\ [Next]_vars => (PacketInv /\ Origin /\ StepInv)'
  BY NextTyped, StepKept
<1>3. QED
  BY <1>1, <1>2, PTL DEF Spec

(***************************************************************************)
(* As long as nothing timed out and nothing but messages was written, each *)
(* packet is read as the message that was written, whatever messages the   *)
(* programs write one after another: the wrappers and TCP_read_till_newline*)
(* agree on where each of them ends.                                       *)
(***************************************************************************)
THEOREM EachIsReadAsWritten == Spec => []ReadAsWritten
PROOF
<1>1. Init => ReadAsWritten
  <2>1. readings = << >> => ReadAsWritten
    <3>1. DOMAIN << >> = 1 .. 0
      OBVIOUS
    <3>2. \A i : i \notin 1 .. 0
      OBVIOUS
    <3>3. QED
      BY <3>1, <3>2, Zenon DEF ReadAsWritten
  <2>2. QED
    BY <2>1 DEF Init
<1>2. (PacketInv /\ Origin /\ StepInv) /\ ReadAsWritten /\ [Next]_vars => ReadAsWritten'
  BY ReadAsWrittenKept
<1>3. QED
  BY <1>1, <1>2, AlwaysInStep, PTL DEF Spec

-----------------------------------------------------------------------------
(* Another trick's id.                                                     *)

(***************************************************************************)
(* A TRICK or TAKEN that was read to its end by a reader that expects an   *)
(* id of another length.                                                   *)
(***************************************************************************)
LEMMA WholeOfOtherLength ==
    ASSUME NEW m, m \in TRICKs \cup TAKENs, Whole(m, Text(m), Head1(m)),
           readers_id \in Nat, ~ SameLength(m.id, readers_id)
    PROVE  \/ Reading = Rejected
           \/ m.name = "TRICK" /\ m.id = 4 /\ m.cards = << >>
PROOF
<1>1. ~ AsLong(m.id, readers_id)
  BY DEF SameLength, AsLong
<1> DEFINE t == Text(m)
           h == Head1(m)
<1>2. /\ buff \in Seq(0 .. 255) /\ Len(buff) = Len(t) - h
      /\ \A i \in 1 .. Len(t) - h : buff[i] = t[h + i]
      /\ Reading = ReadOf(m.name, buff, readers_id)
  BY DEF Whole
<1>3. ASSUME NEW n \in PacketNames, m.name = n,
             NEW body \in Seq(Plain), t = Packet(n, body)
      PROVE  Holds(buff, body)
  <2>1. PacketOf(n, body, t)
    BY <1>3, PacketIs, Zenon
  <2>2. h = Len(NameChars[n])
    BY <1>3 DEF Head1, PacketNames
  <2> HIDE DEF t, h
  <2>3. QED
    BY <1>2, <2>1, <2>2, Zenon DEF PacketOf
<1>4. CASE m \in TRICKs
  <2>1. m.name = "TRICK" /\ "TRICK" \in PacketNames
    BY <1>4 DEF TRICKs, PacketNames
  <2>2. t = Packet("TRICK", TRICKBody(m)) /\ TRICKBody(m) \in Seq(Plain)
    <3>1. t = WriteTRICK(m)
      BY <2>1 DEF Text
    <3>2. QED
      BY <1>4, <3>1, TRICKReads
  <2>3. Holds(buff, TRICKBody(m))
    BY <1>3, <2>1, <2>2, Zenon
  <2>4. ReadTRICK(buff, readers_id) = Rejected \/ (m.id = 4 /\ m.cards = << >>)
    BY <1>1, <1>4, <2>3, TRICKOfOtherLength
  <2>5. Reading = ReadTRICK(buff, readers_id)
    BY <1>2, <2>1 DEF ReadOf
  <2>6. QED
    BY <2>1, <2>4, <2>5
<1>5. CASE m \in TAKENs
  <2>1. m.name = "TAKEN" /\ "TAKEN" \in PacketNames
    BY <1>5 DEF TAKENs, PacketNames
  <2>2. t = Packet("TAKEN", TAKENBody(m)) /\ TAKENBody(m) \in Seq(Plain)
    <3>1. t = WriteTAKEN(m)
      BY <2>1 DEF Text
    <3>2. QED
      BY <1>5, <3>1, TAKENReads
  <2>3. Holds(buff, TAKENBody(m))
    BY <1>3, <2>1, <2>2, Zenon
  <2>4. ReadTAKEN(buff, readers_id) = Rejected
    BY <1>1, <1>5, <2>3, TAKENOfOtherLength
  <2>5. Reading = ReadTAKEN(buff, readers_id)
    BY <1>2, <2>1 DEF ReadOf
  <2>6. QED
    BY <2>4, <2>5
<1>6. QED
  BY <1>4, <1>5

(***************************************************************************)
(* It stays so that none of them is taken for another one.                 *)
(***************************************************************************)
LEMMA OtherLengthKept ==
    PacketInv /\ Origin /\ StepInv /\ OtherLengthRejected /\ [Next]_vars => OtherLengthRejected'
PROOF
<1> SUFFICES ASSUME PacketInv, Origin, StepInv, OtherLengthRejected, [Next]_vars
             PROVE  OtherLengthRejected'
  OBVIOUS
<1>1. CASE Takes
  <2>1. /\ written' = written /\ timeouts' = timeouts
        /\ Done \in Nat
        /\ \A i \in 1 .. Done : readings'[i] = readings[i]
        /\ readings'[Done + 1] = [message |-> Reading, at_id |-> readers_id]
        /\ DOMAIN readings = 1 .. Done /\ DOMAIN readings' = 1 .. Done + 1
    BY <1>1, TakesDo
  <2> SUFFICES ASSUME timeouts = 0, NEW i \in 1 .. Done + 1,
                      \A j \in 1 .. i : written[j].name # "OTHER",
                      written[i].name \in {"TRICK", "TAKEN"},
                      ~ SameLength(written[i].id, readings'[i].at_id)
               PROVE  \/ readings'[i].message = Rejected
                      \/ /\ written[i].name = "TRICK" /\ written[i].id = 4
                         /\ written[i].cards = << >>
    BY <2>1 DEF OtherLengthRejected
  <2>2. CASE i \in 1 .. Done
    <3>1. readings'[i] = readings[i]
      BY <2>1, <2>2
    <3>2. i \in DOMAIN readings
      BY <2>1, <2>2
    <3>3. QED
      BY <3>1, <3>2, Zenon DEF OtherLengthRejected
  <2>3. CASE i = Done + 1
    <3> DEFINE m == written[Done + 1]
    <3>1. \A j \in 1 .. Done + 1 : written[j].name # "OTHER"
      BY <2>3
    <3>2. Whole(m, Text(m), Head1(m))
      BY <1>1, <3>1, TakenWhole DEF WholeNext
    <3>3. readings'[i].at_id = readers_id /\ readings'[i].message = Reading
      BY <2>1, <2>3
    <3>4. m \in TRICKs \cup TAKENs
      <4>1. m \in IAMs \cup BUSYs \cup Playing
        BY <3>2 DEF Whole, Awaited
      <4>2. m.name \in {"TRICK", "TAKEN"}
        BY <2>3
      <4> HIDE DEF m
      <4>3. QED
        BY <4>1, <4>2 DEF IAMs, BUSYs, DEALs, WRONGs, SCOREs, TOTALs, Playing
    <3>5. readers_id \in Nat
      BY DEF PacketInv
    <3>6. ~ SameLength(m.id, readers_id)
      BY <2>3, <3>3
    <3> HIDE DEF m
    <3>7. Reading = Rejected \/ (m.name = "TRICK" /\ m.id = 4 /\ m.cards = << >>)
      BY <3>2, <3>4, <3>5, <3>6, WholeOfOtherLength
    <3>8. QED
      BY <2>3, <3>3, <3>7, Zenon DEF m
  <2>4. QED
    <3>1. i \in 1 .. Done \/ i = Done + 1
      BY <2>1
    <3>2. QED
      BY <2>2, <2>3, <3>1
<1>2. CASE ~ Takes
  <2>1. readings' = readings /\ written' = written /\ (timeouts' = timeouts \/ ReadTimesOut)
    BY <1>2, ReadingsStay
  <2>2. CASE timeouts' = timeouts
    BY <2>1, <2>2 DEF OtherLengthRejected
  <2>3. CASE ReadTimesOut
    BY <2>3, NeverAgain DEF OtherLengthRejected
  <2>4. QED
    BY <2>1, <2>2, <2>3
<1>3. QED
  BY <1>1, <1>2

(***************************************************************************)
(* A reader that expects an id of another length rejects every TRICK and   *)
(* TAKEN but the empty TRICK 4, which it takes for TRICK 5 (set_lewa_id    *)
(* does not look whether its characters are digits).                       *)
(***************************************************************************)
THEOREM OtherLengthAlwaysRejected == Spec => []OtherLengthRejected
PROOF
<1>1. Init => OtherLengthRejected
  <2>1. readings = << >> => OtherLengthRejected
    <3>1. DOMAIN << >> = 1 .. 0
      OBVIOUS
    <3>2. \A i : i \notin 1 .. 0
      OBVIOUS
    <3>3. QED
      BY <3>1, <3>2, Zenon DEF OtherLengthRejected
  <2>2. QED
    BY <2>1 DEF Init
<1>2. (PacketInv /\ Origin /\ StepInv) /\ OtherLengthRejected /\ [Next]_vars
        => OtherLengthRejected'
  BY OtherLengthKept
<1>3. QED
  BY <1>1, <1>2, AlwaysInStep, PTL DEF Spec

-----------------------------------------------------------------------------
(* Parts of two messages never make a third.                               *)

(***************************************************************************)
(* Where the packet that is being read begins, in numbers.                 *)
(***************************************************************************)
LEMMA HereIs ==
    ASSUME PacketInv, Origin
    PROVE  /\ Len(All) \in Nat /\ Len(name) \in Nat /\ Len(buff) \in Nat /\ Len(stream) \in Nat
           /\ Len(All) = Here + Len(name) + Len(buff) + Len(stream)
PROOF
<1>1. All \in Seq(0 .. 255)
  BY TextsAre DEF Origin
<1>2. name \in Seq(0 .. 255) /\ buff \in Seq(0 .. 255) /\ stream \in Seq(0 .. 255)
  BY DEF PacketInv
<1> DEFINE a == Len(All)
           n == Len(name)
           b == Len(buff)
           l == Len(stream)
<1>3. a \in Nat /\ n \in Nat /\ b \in Nat /\ l \in Nat
  BY <1>1, <1>2
<1>4. Here = a - n - b - l
  BY DEF Here
<1> HIDE DEF a, n, b, l
<1>5. a = Here + n + b + l
  BY <1>3, <1>4
<1>6. QED
  BY <1>3, <1>5 DEF a, n, b, l

(***************************************************************************)
(* The lengths are numbers in the next state, too.                         *)
(***************************************************************************)
LEMMA LengthsThen ==
    (PacketInv /\ Origin => /\ Len(All) \in Nat /\ Len(name) \in Nat
                            /\ Len(buff) \in Nat /\ Len(stream) \in Nat)'
PROOF
<1>1. PacketInv /\ Origin => /\ Len(All) \in Nat /\ Len(name) \in Nat
                             /\ Len(buff) \in Nat /\ Len(stream) \in Nat
  BY HereIs
<1>2. QED
  BY <1>1, PTL

(***************************************************************************)
(* A step that keeps what the packet began with keeps where it began, and  *)
(* one that drops the packet begins the next one behind it.                *)
(***************************************************************************)
LEMMA HereNext ==
    ASSUME PacketInv, Origin, PacketInv', Origin', written' = written
    PROVE  /\ Len(name)' + Len(buff)' + Len(stream)' = Len(name) + Len(buff) + Len(stream)
                => Here' = Here
           /\ Len(name)' = 0 /\ Len(buff)' = 0 /\ Len(stream)' = Len(stream)
                => Here' = Here + Len(name) + Len(buff)
PROOF
<1> DEFINE a == Len(All)
           n == Len(name)
           b == Len(buff)
           l == Len(stream)
           h == Here
           an == Len(All)'
           nn == Len(name)'
           bn == Len(buff)'
           ln == Len(stream)'
           hn == Here'
<1>1. /\ a \in Nat /\ n \in Nat /\ b \in Nat /\ l \in Nat /\ h = a - n - b - l
  BY HereIs DEF Here
<1>2. /\ an \in Nat /\ nn \in Nat /\ bn \in Nat /\ ln \in Nat /\ hn = an - nn - bn - ln
  BY LengthsThen DEF Here
<1>3. an = a
  BY Unmoved
<1> HIDE DEF a, n, b, l, h, an, nn, bn, ln, hn
<1>4. /\ nn + bn + ln = n + b + l => hn = h
      /\ nn = 0 /\ bn = 0 /\ ln = l => hn = h + n + b
  BY <1>1, <1>2, <1>3
<1>5. QED
  BY <1>4 DEF a, n, b, l, h, an, nn, bn, ln, hn

(***************************************************************************)
(* No body goes on behind its end.                                         *)
(***************************************************************************)
NoEndInside(b) == \A i \in 2 .. Len(b) - 1 : ~ (b[i - 1] = CR /\ b[i] = LF)

(***************************************************************************)
(* A character is read only if the end is not there yet.                   *)
(***************************************************************************)
LEMMA StopsAtEnd ==
    ASSUME NEW b \in Seq(0 .. 255), NoEndInside(b), ~ IsSuffix(EndChars, b), NEW c \in 0 .. 255
    PROVE  NoEndInside(Append(b, c))
PROOF
<1> DEFINE n == Len(b)
           a == Append(b, c)
<1>1. n \in Nat /\ Len(a) = n + 1 /\ \A i \in 1 .. n : a[i] = b[i]
  OBVIOUS
<1>2. ~ (n >= 2 /\ b[n - 1] = CR /\ b[n] = LF)
  BY EndIs
<1>3. \A i \in 2 .. n - 1 : ~ (b[i - 1] = CR /\ b[i] = LF)
  BY DEF NoEndInside
<1> HIDE DEF n, a
<1>4. ASSUME NEW i \in 2 .. n PROVE ~ (a[i - 1] = CR /\ a[i] = LF)
  <2>1. i \in 1 .. n /\ i - 1 \in 1 .. n /\ (i \in 2 .. n - 1 \/ (i = n /\ n >= 2))
    BY <1>1
  <2>2. a[i] = b[i] /\ a[i - 1] = b[i - 1]
    BY <1>1, <2>1
  <2>3. QED
    BY <1>2, <1>3, <2>1, <2>2
<1>5. Len(a) - 1 = n
  BY <1>1
<1>6. QED
  BY <1>4, <1>5 DEF NoEndInside, a

(***************************************************************************)
(* A packet without a body has no end in it.                               *)
(***************************************************************************)
LEMMA NothingInside == NoEndInside(<< >>)
PROOF
  BY DEF NoEndInside

(***************************************************************************)
(* A packet that is dropped leaves what is on its way.                     *)
(***************************************************************************)
LEMMA LiesDropped ==
    ASSUME PacketInv, Origin, Lies, PacketInv', Origin', written' = written,
           name' = << >>, buff' = << >>, stream' = stream
    PROVE  Lies' /\ Here' = Here + Len(name) + Len(buff)
PROOF
<1>1. /\ name \in Seq(0 .. 255) /\ buff \in Seq(0 .. 255)
      /\ Len(name) \in Nat /\ Len(buff) \in Nat /\ Len(stream) \in Nat
      /\ Here \in Nat /\ Laid(All, Here, name, buff, stream)
  BY HereIs DEF PacketInv, Lies
<1> DEFINE e == Here + Len(name) + Len(buff)
<1>2. Here' = e
  <2>1. Len(<< >>) = 0
    OBVIOUS
  <2>2. Len(name)' = 0 /\ Len(buff)' = 0 /\ Len(stream)' = Len(stream)
    BY <2>1, Zenon
  <2>3. QED
    BY <2>2, HereNext
<1>3. Laid(All, e, << >>, << >>, stream)
  BY <1>1, Passed
<1>4. e \in Nat
  BY <1>1
<1>5. All' = All
  BY Unmoved
<1> HIDE DEF e
<1>6. Lies'
  <2>1. Laid(All', Here', name', buff', stream')
    BY <1>2, <1>3, <1>5, Zenon
  <2>2. NoEndInside(buff')
    BY NothingInside, Zenon
  <2>3. QED
    BY <1>2, <1>4, <2>1, <2>2 DEF Lies, NoEndInside
<1>7. QED
  BY <1>2, <1>6 DEF e

(***************************************************************************)
(* At first all that was written is on its way.                            *)
(***************************************************************************)
LEMMA LiesFirst == Init => Lies
PROOF
<1> SUFFICES ASSUME Init PROVE Lies
  OBVIOUS
<1>1. stream = All /\ name = << >> /\ buff = << >>
  BY DEF Init, All, Texts
<1>2. PacketInv /\ Origin
  BY InitTyped
<1>3. Len(All) \in Nat
  BY <1>2, HereIs
<1>4. Len(<< >>) = 0
  OBVIOUS
<1>5. Len(name) = 0 /\ Len(buff) = 0 /\ Len(stream) = Len(All)
  BY <1>1, <1>4, Zenon
<1> DEFINE a == Len(All)
<1>6. a - 0 - 0 - a = 0 /\ 0 + 0 + 0 + a = a /\ \A i \in 1 .. a : 0 + 0 + 0 + i = i
  BY <1>3
<1>7. \A i \in 1 .. 0 : FALSE
  OBVIOUS
<1> HIDE DEF a
<1>8. Here = 0
  BY <1>5, <1>6, Zenon DEF Here, a
<1>9. Laid(All, 0, name, buff, stream)
  <2>1. 0 + Len(name) + Len(buff) + Len(stream) = Len(All)
    BY <1>5, <1>6, Zenon DEF a
  <2>2. \A i \in 1 .. Len(stream) : stream[i] = All[0 + Len(name) + Len(buff) + i]
    BY <1>1, <1>5, <1>6, Zenon DEF a
  <2>3. QED
    BY <1>5, <1>7, <2>1, <2>2, Zenon DEF Laid
<1>10. NoEndInside(buff)
  BY <1>1, NothingInside, Zenon
<1>11. QED
  BY <1>8, <1>9, <1>10 DEF Lies, NoEndInside

(***************************************************************************)
(* No step loses a character, or goes on behind the end of a body.         *)
(***************************************************************************)
LEMMA LiesKept == PacketInv /\ Origin /\ Lies /\ [Next]_vars => Lies'
PROOF
<1> SUFFICES ASSUME PacketInv, Origin, Lies, [Next]_vars PROVE Lies'
  OBVIOUS
<1>1. PacketInv' /\ Origin' /\ written' = written /\ All' = All
  <2>1. written' = written
    BY WrittenStays
  <2>2. QED
    BY <2>1, NextTyped, Unmoved
<1>2. /\ name \in Seq(0 .. 255) /\ buff \in Seq(0 .. 255) /\ stream \in Seq(0 .. 255)
      /\ Len(name) \in Nat /\ Len(buff) \in Nat /\ Len(stream) \in Nat
      /\ Here \in Nat /\ Laid(All, Here, name, buff, stream) /\ NoEndInside(buff)
  BY HereIs DEF PacketInv, Lies, NoEndInside
<1>3. ASSUME Here' = Here, Laid(All, Here, name', buff', stream'), NoEndInside(buff')
      PROVE  Lies'
  <2>1. Laid(All', Here', name', buff', stream')
    BY <1>1, <1>3
  <2>2. QED
    BY <1>2, <1>3, <2>1 DEF Lies, NoEndInside
<1>4. CASE ReadNameChar
  <2>1. /\ program # "closed" /\ at = "name" /\ stream # << >>
        /\ name' = Append(name, Head(stream)) /\ stream' = Tail(stream) /\ buff' = buff
    BY <1>4 DEF ReadNameChar
  <2>2. buff = << >>
    BY <2>1 DEF PacketInv
  <2>3. /\ Len(name)' = Len(name) + 1 /\ Len(stream) = Len(stream)' + 1 /\ Len(stream)' \in Nat
        /\ Len(buff)' = Len(buff)
    BY <1>2, <2>1, Taken
  <2>4. Here' = Here
    <3>1. Len(name)' + Len(buff)' + Len(stream)' = Len(name) + Len(buff) + Len(stream)
      <4> DEFINE n == Len(name)
                 b == Len(buff)
                 l == Len(stream)
                 nn == Len(name)'
                 bn == Len(buff)'
                 ln == Len(stream)'
      <4>1. n \in Nat /\ b \in Nat /\ ln \in Nat /\ nn = n + 1 /\ l = ln + 1 /\ bn = b
        BY <1>2, <2>3
      <4> HIDE DEF n, b, l, nn, bn, ln
      <4>2. nn + bn + ln = n + b + l
        BY <4>1
      <4>3. QED
        BY <4>2 DEF n, b, l, nn, bn, ln
    <3>2. QED
      BY <1>1, <3>1, HereNext
  <2>5. Laid(All, Here, name', << >>, stream')
    <3>1. Laid(All, Here, name, << >>, stream)
      BY <1>2, <2>2, Zenon
    <3>2. Laid(All, Here, Append(name, Head(stream)), << >>, Tail(stream))
      BY <1>2, <2>1, <3>1, MovedToName
    <3>3. QED
      BY <2>1, <3>2, Zenon
  <2>6. QED
    BY <1>2, <1>3, <2>1, <2>2, <2>4, <2>5, Zenon
<1>5. CASE ReadChar
  <2>1. /\ ~ PacketEnds /\ stream # << >>
        /\ buff' = Append(buff, Head(stream)) /\ stream' = Tail(stream) /\ name' = name
    BY <1>5 DEF ReadChar
  <2>2. /\ Len(buff)' = Len(buff) + 1 /\ Len(stream) = Len(stream)' + 1 /\ Len(stream)' \in Nat
        /\ Len(name)' = Len(name)
    BY <1>2, <2>1, Taken
  <2>3. Here' = Here
    <3>1. Len(name)' + Len(buff)' + Len(stream)' = Len(name) + Len(buff) + Len(stream)
      <4> DEFINE n == Len(name)
                 b == Len(buff)
                 l == Len(stream)
                 nn == Len(name)'
                 bn == Len(buff)'
                 ln == Len(stream)'
      <4>1. n \in Nat /\ b \in Nat /\ ln \in Nat /\ bn = b + 1 /\ l = ln + 1 /\ nn = n
        BY <1>2, <2>2
      <4> HIDE DEF n, b, l, nn, bn, ln
      <4>2. nn + bn + ln = n + b + l
        BY <4>1
      <4>3. QED
        BY <4>2 DEF n, b, l, nn, bn, ln
    <3>2. QED
      BY <1>1, <3>1, HereNext
  <2>4. Laid(All, Here, name', buff', stream')
    <3>1. Laid(All, Here, name, Append(buff, Head(stream)), Tail(stream))
      BY <1>2, <2>1, MovedToBody
    <3>2. QED
      BY <2>1, <3>1, Zenon
  <2>5. NoEndInside(buff')
    <3>1. ~ IsSuffix(EndChars, buff)
      BY <2>1 DEF PacketEnds
    <3>2. Head(stream) \in 0 .. 255
      <4>1. ASSUME NEW S, NEW s \in Seq(S), s # << >> PROVE Head(s) \in S
        BY <4>1, HeadTailProperties
      <4>2. QED
        BY <1>2, <2>1, <4>1, Zenon
    <3>3. NoEndInside(Append(buff, Head(stream)))
      BY <1>2, <3>1, <3>2, StopsAtEnd
    <3>4. QED
      BY <2>1, <3>3
  <2>6. QED
    BY <1>3, <2>3, <2>4, <2>5
<1>6. CASE Takes
  <2>1. name' = << >> /\ buff' = << >> /\ stream' = stream
    BY <1>6, TakesDo
  <2>2. QED
    BY <1>1, <2>1, LiesDropped
<1>7. CASE ReadTimesOut
  <2>1. name' = << >> /\ buff' = << >> /\ stream' = stream
    BY <1>7 DEF ReadTimesOut
  <2>2. QED
    BY <1>1, <2>1, LiesDropped
<1>8. CASE WrongAfterLastTrick \/ vars' = vars
  <2>1. name' = name /\ buff' = buff /\ stream' = stream
    BY <1>8 DEF WrongAfterLastTrick, vars
  <2>2. Here' = Here
    BY <1>1, <2>1 DEF Here
  <2>3. QED
    BY <1>2, <1>3, <2>1, <2>2
<1>9. QED
  BY <1>4, <1>5, <1>6, <1>7, <1>8 DEF Next, Takes

(***************************************************************************)
(* Every character that was written stands in one of the texts.            *)
(***************************************************************************)
LEMMA Located ==
    ASSUME written \in ToServer \cup ToWaiting \cup ToPlaying, NEW p \in 1 .. Len(All)
    PROVE  \E k \in 0 .. Len(written) - 1 :
                \E i \in 1 .. Len(Text(written[k + 1])) : p = Start(k) + i
PROOF
<1> DEFINE n == Len(written)
           l(k) == Len(Text(written[k + 1]))
           Somewhere(q) == \E k \in 0 .. n - 1 : \E i \in 1 .. l(k) : q = Start(k) + i
           good == {k \in 0 .. n : \A q \in 1 .. Start(k) : Somewhere(q)}
<1>1. n \in Nat
  BY TextsAre
<1>2. /\ Start(0) = 0 /\ Start(n) = Len(All)
      /\ \A k \in 0 .. n - 1 : Start(k) \in Nat /\ Start(k + 1) = Start(k) + l(k)
  BY Starts
<1>3. \A k \in 0 .. n - 1 : l(k) \in Nat
  <2>1. ASSUME NEW k \in 0 .. n - 1 PROVE l(k) \in Nat
    <3>1. k + 1 \in 1 .. n
      BY <1>1
    <3> DEFINE j == k + 1
    <3>2. j \in 1 .. Len(Texts) /\ Texts \in Seq(Seq(0 .. 255)) /\ Texts[j] = Text(written[j])
      BY <3>1, TextsAre DEF n
    <3> HIDE DEF j
    <3>3. Texts[j] \in Seq(0 .. 255)
      BY <3>2
    <3>4. Len(Text(written[j])) \in Nat
      BY <3>2, <3>3
    <3>5. QED
      BY <3>4, Zenon DEF j
  <2>2. QED
    BY <2>1
<1> HIDE DEF n, l, Somewhere
<1>4. 0 \in good
  <2>1. \A q \in 1 .. 0 : Somewhere(q)
    OBVIOUS
  <2>2. 0 \in 0 .. n
    BY <1>1
  <2>3. QED
    BY <1>2, <2>1, <2>2
<1>5. ASSUME NEW k \in 0 .. n - 1, k \in good PROVE k + 1 \in good
  <2>1. /\ \A q \in 1 .. Start(k) : Somewhere(q)
        /\ Start(k) \in Nat /\ Start(k + 1) = Start(k) + l(k) /\ l(k) \in Nat
    BY <1>2, <1>3, <1>5
  <2>2. ASSUME NEW q \in 1 .. Start(k + 1) PROVE Somewhere(q)
    <3>1. CASE q <= Start(k)
      <4>1. q \in 1 .. Start(k)
        BY <2>1, <3>1
      <4>2. QED
        BY <2>1, <4>1
    <3>2. CASE ~ (q <= Start(k))
      <4> DEFINE s == Start(k)
                 m == l(k)
                 u == Start(k + 1)
      <4>1. s \in Nat /\ m \in Nat /\ u = s + m /\ q \in 1 .. u /\ ~ (q <= s)
        BY <2>1, <3>2
      <4> HIDE DEF s, m, u
      <4>2. q - s \in 1 .. m /\ q = s + (q - s)
        BY <4>1
      <4>3. QED
        BY <4>2, Zenon DEF Somewhere, s, m
    <3>3. QED
      BY <3>1, <3>2
  <2>3. k + 1 \in 0 .. n
    BY <1>1
  <2>4. QED
    BY <2>2, <2>3
<1> HIDE DEF good
<1>6. 0 .. n \subseteq good
  BY <1>1, <1>4, <1>5, UpTo
<1>7. n \in good
  BY <1>1, <1>6
<1>8. Somewhere(p)
  BY <1>2, <1>7 DEF good
<1>9. QED
  BY <1>8, Zenon DEF Somewhere, n, l

(***************************************************************************)
(* A later message does not begin before an earlier one ends.              *)
(***************************************************************************)
LEMMA StartsGrow ==
    ASSUME written \in ToServer \cup ToWaiting \cup ToPlaying,
           NEW j \in 0 .. Len(written), NEW i \in 0 .. j
    PROVE  Start(i) \in Nat /\ Start(j) \in Nat /\ Start(i) <= Start(j)
PROOF
<1> DEFINE n == Len(written)
           good == {k \in 0 .. n : Start(k) \in Nat /\ Start(i) <= Start(k)}
<1>1. n \in Nat /\ i \in 0 .. n /\ Len(All) \in Nat
  <2>1. Len(written) \in Nat /\ All \in Seq(0 .. 255)
    BY TextsAre
  <2>2. QED
    BY <2>1
<1>2. /\ Start(n) = Len(All)
      /\ \A k \in 0 .. n - 1 : Start(k) \in Nat /\ Start(k + 1) = Start(k) + Len(Text(written[k + 1]))
  BY Starts
<1>3. \A k \in 0 .. n : Start(k) \in Nat
  <2>1. \A k \in 0 .. n : k \in 0 .. n - 1 \/ k = n
    BY <1>1
  <2>2. QED
    BY <1>1, <1>2, <2>1
<1>4. \A k \in 0 .. n - 1 : Start(k) <= Start(k + 1)
  <2>1. ASSUME NEW k \in 0 .. n - 1 PROVE Start(k) <= Start(k + 1)
    <3> DEFINE m == Len(Text(written[k + 1]))
    <3>1. m \in Nat
      <4> DEFINE q == k + 1
      <4>1. q \in 1 .. n
        BY <1>1
      <4> HIDE DEF q
      <4>2. q \in 1 .. Len(Texts) /\ Texts \in Seq(Seq(0 .. 255)) /\ Texts[q] = Text(written[q])
        BY <4>1, TextsAre DEF n
      <4>3. Texts[q] \in Seq(0 .. 255)
        BY <4>2
      <4>4. Len(Text(written[q])) \in Nat
        BY <4>2, <4>3
      <4>5. QED
        BY <4>4, Zenon DEF q
    <3>2. Start(k) \in Nat /\ Start(k + 1) = Start(k) + m
      BY <1>2
    <3> HIDE DEF m
    <3>3. QED
      BY <3>1, <3>2
  <2>2. QED
    BY <2>1
<1> HIDE DEF n
<1>5. i \in good
  BY <1>1, <1>3
<1>6. ASSUME NEW k \in i .. n - 1, k \in good PROVE k + 1 \in good
  <2>1. k \in 0 .. n - 1 /\ k + 1 \in 0 .. n
    BY <1>1
  <2> DEFINE a == Start(i)
             b == Start(k)
             c == Start(k + 1)
  <2>2. a \in Nat /\ b \in Nat /\ c \in Nat /\ a <= b /\ b <= c
    BY <1>1, <1>3, <1>4, <1>6, <2>1
  <2> HIDE DEF a, b, c
  <2>3. c \in Nat /\ a <= c
    BY <2>2
  <2>4. QED
    BY <2>1, <2>3 DEF a, c
<1> HIDE DEF good
<1>7. i .. n \subseteq good
  <2>1. i \in Nat
    BY <1>1
  <2>2. QED
    BY <1>1, <1>5, <1>6, <2>1, UpTo
<1>8. j \in i .. n
  BY <1>1 DEF n
<1>9. j \in good /\ i \in 0 .. n
  BY <1>1, <1>7, <1>8
<1>10. QED
  BY <1>3, <1>9 DEF good

(***************************************************************************)
(* A T begins a TRICK, and is found nowhere else in what clients write.    *)
(***************************************************************************)
LEMMA TBeginsTRICK ==
    ASSUME NEW m \in IAMs \cup TRICKs \cup OTHERs,
           m.name = "OTHER" => \A c \in DOMAIN m.text : m.text[c] # 84,
           NEW i \in 1 .. Len(Text(m)), Text(m)[i] = 84
    PROVE  m \in TRICKs /\ i = 1
PROOF
<1> DEFINE t == Text(m)
<1>1. CASE m \in OTHERs
  <2>1. m.name = "OTHER" /\ m.text \in Seq(0 .. 255)
    BY <1>1 DEF OTHERs
  <2>2. t = m.text
    BY <2>1 DEF Text
  <2>3. i \in DOMAIN m.text /\ m.text[i] = 84
    BY <2>1, <2>2
  <2>4. QED
    BY <2>1, <2>3
<1>2. ASSUME NEW head \in Seq(65 .. 90), NEW body \in Seq(Plain), t = head \o body \o EndChars
      PROVE  i \in 1 .. Len(head) /\ head[i] = 84
  <2> DEFINE C == (0 .. 255)
             end == EndChars
             h == Len(head)
             b == Len(body)
  <2>1. end \in Seq(C) /\ Len(end) = 2 /\ end[1] # 84 /\ end[2] # 84
    BY DEF EndChars, CR, LF
  <2>2. head \in Seq(C) /\ body \in Seq(C)
    <3>1. 65 .. 90 \subseteq C /\ Plain \subseteq C
      BY DEF Plain
    <3> DEFINE N == 65 .. 90
    <3>2. head \in Seq(N) /\ N \subseteq C
      BY <3>1
    <3> HIDE DEF C, N
    <3>3. head \in Seq(C)
      BY <3>2, SeqMonotonic
    <3>4. body \in Seq(Plain) /\ Plain \subseteq C
      BY <3>1
    <3>5. body \in Seq(C)
      BY <3>4, SeqMonotonic
    <3>6. QED
      BY <3>3, <3>5
  <2>3. \A k \in 1 .. b : body[k] # 84
    <3>1. \A k \in 1 .. b : body[k] \in Plain
      OBVIOUS
    <3>2. \A c \in Plain : c # 84
      BY DEF Plain
    <3>3. QED
      BY <3>1, <3>2, Zenon
  <2>4. t = head \o body \o end
    BY <1>2
  <2>5. i \in 1 .. Len(t) /\ t[i] = 84
    OBVIOUS
  <2> HIDE DEF C, end, t
  <2> DEFINE Parts(x) == /\ Len(head) \in Nat /\ Len(body) \in Nat
                         /\ Len(x) = Len(head) + Len(body) + Len(end)
                         /\ \A k \in 1 .. Len(head) : x[k] = head[k]
                         /\ \A k \in 1 .. Len(body) : x[Len(head) + k] = body[k]
                         /\ \A k \in 1 .. Len(end) : x[Len(head) + Len(body) + k] = end[k]
  <2>6. Parts(t)
    <3>1. head \in Seq(C) /\ body \in Seq(C) /\ end \in Seq(C)
      BY <2>1, <2>2
    <3>2. Parts(head \o body \o end)
      BY <3>1, ThreeParts
    <3> HIDE DEF Parts
    <3>3. QED
      BY <2>4, <3>2
  <2>7. h \in Nat /\ b \in Nat /\ i \in 1 .. h + b + 2
    BY <2>1, <2>5, <2>6
  <2>8. /\ t[h + b + 1] = end[1] /\ t[h + b + 2] = end[2]
    <3>1. 1 \in 1 .. Len(end) /\ 2 \in 1 .. Len(end)
      BY <2>1
    <3>2. QED
      BY <2>6, <3>1
  <2>9. \A k \in 1 .. b : t[h + k] # 84
    <3>1. ASSUME NEW k \in 1 .. b PROVE t[h + k] # 84
      <4>1. t[h + k] = body[k] /\ body[k] # 84
        BY <2>3, <2>6
      <4>2. QED
        BY <4>1, Zenon
    <3>2. QED
      BY <3>1
  <2>10. \A k \in 1 .. h : t[k] = head[k]
    BY <2>6 DEF h
  <2> HIDE DEF h, b
  <2>11. \/ i \in 1 .. h
         \/ i - h \in 1 .. b /\ i = h + (i - h)
         \/ i = h + b + 1 \/ i = h + b + 2
    BY <2>7
  <2>12. i \in 1 .. h
    <3>1. ASSUME i - h \in 1 .. b, i = h + (i - h) PROVE FALSE
      <4>1. t[h + (i - h)] # 84
        BY <2>9, <3>1, Zenon
      <4>2. QED
        BY <2>5, <3>1, <4>1, Zenon
    <3>2. i # h + b + 1 /\ i # h + b + 2
      BY <2>1, <2>5, <2>8, SMT
    <3>3. QED
      BY <2>11, <3>1, <3>2, Zenon
  <2>13. QED
    BY <2>5, <2>10, <2>12 DEF h
<1>3. CASE m \in IAMs
  <2>1. m.name = "IAM" /\ m.seat \in 0 .. 3
    BY <1>3 DEF IAMs
  <2> DEFINE head == <<73, 65, 77>>
             body == <<SeatChar[m.seat]>>
  <2>2. t = head \o body \o EndChars
    BY <2>1 DEF Text, WriteIAM, Packet, NameChars
  <2>3. head \in Seq(65 .. 90) /\ Len(head) = 3 /\ head[1] # 84 /\ head[2] # 84 /\ head[3] # 84
    OBVIOUS
  <2>4. body \in Seq(Plain)
    <3>1. SeatChar[m.seat] \in Plain
      <4>1. SeatChar[m.seat] \in {78, 69, 83, 87}
        BY <2>1, SeatReads
      <4>2. {78, 69, 83, 87} \subseteq Plain
        BY DEF Plain
      <4>3. QED
        BY <4>1, <4>2
    <3>2. QED
      BY <3>1
  <2> HIDE DEF head, body
  <2>5. i \in 1 .. Len(head) /\ head[i] = 84
    BY <1>2, <2>2, <2>3, <2>4
  <2>6. QED
    BY <2>3, <2>5
<1>4. CASE m \in TRICKs
  <2>1. m.name = "TRICK"
    BY <1>4 DEF TRICKs
  <2> DEFINE head == <<84, 82, 73, 67, 75>>
             body == TRICKBody(m)
  <2>2. t = head \o body \o EndChars
    <3>1. t = WriteTRICK(m) /\ WriteTRICK(m) = Packet("TRICK", TRICKBody(m))
      BY <1>4, <2>1, TRICKReads DEF Text
    <3>2. NameChars["TRICK"] = head
      BY DEF NameChars
    <3>3. QED
      BY <3>1, <3>2, Zenon DEF Packet, body
  <2>3. /\ head \in Seq(65 .. 90) /\ Len(head) = 5
        /\ head[2] # 84 /\ head[3] # 84 /\ head[4] # 84 /\ head[5] # 84
    OBVIOUS
  <2>4. body \in Seq(Plain)
    BY <1>4, TRICKReads
  <2> HIDE DEF head, body
  <2>5. i \in 1 .. Len(head) /\ head[i] = 84
    BY <1>2, <2>2, <2>3, <2>4
  <2>6. QED
    BY <1>4, <2>3, <2>5
<1>5. QED
  BY <1>1, <1>3, <1>4

(***************************************************************************)
(* An empty TRICK 4 read as TRICK 5 has no card, so it is no answer.       *)
(***************************************************************************)
LEMMA EmptyIsNoAnswer ==
    ASSUME NEW m \in TRICKs, m.id = 4, m.cards = << >>,
           NEW id \in Nat, ~ AsLong(m.id, id), NEW read, Holds(read, TRICKBody(m))
    PROVE  ~ IsAnswer(ReadTRICK(read, id))
PROOF
<1>1. Len(TRICKBody(m)) = 1
  <2>1. IdChars(4) \in Seq(Plain) /\ Len(IdChars(4)) = 1
    <3>1. ASSUME NEW d \in 1 .. 13, d < 10 PROVE IdChars(d) \in Seq(Plain) /\ Len(IdChars(d)) = 1
      <4>1. d >= 10 <=> FALSE
        BY <3>1
      <4>2. QED
        BY <3>1, <4>1, IdWritten
    <3>2. 4 \in 1 .. 13 /\ 4 < 10
      OBVIOUS
    <3>3. QED
      BY <3>1, <3>2, Zenon
  <2> DEFINE chars == IdChars(4)
  <2>2. TRICKBody(m) = chars \o << >>
    BY NoCards, Zenon DEF TRICKBody, chars
  <2> HIDE DEF chars
  <2>3. chars \o << >> = chars /\ Len(chars) = 1
    BY <2>1 DEF chars
  <2>4. QED
    BY <2>2, <2>3, Zenon
<1>2. read \in Seq(0 .. 255) /\ Len(read) = 3
  BY <1>1 DEF Holds
<1>3. IdLength(id) = 2
  <2>1. ~ ((4 >= 10) = (id >= 10))
    BY DEF AsLong
  <2>2. id >= 10
    BY <2>1
  <2>3. QED
    BY <2>2 DEF IdLength
<1> DEFINE none == << >>
           pos == [k \in 1 .. 1 |-> 3]
<1>4. none \in Seq(Card) /\ Len(none) = 0 /\ pos[1] = 3
  OBVIOUS
<1>5. CardsStandAt(read, none, pos)
  BY <1>4 DEF CardsStandAt
<1> HIDE DEF none, pos
<1>6. ASSUME NEW last \in Int, NEW most \in Nat, last = 1
      PROVE  CardsIn(read, pos[1], last, most).cards = none
  <2>1. 0 <= most /\ pos[0 + 1] - 2 <= last /\ last < pos[0 + 1]
    BY <1>4, <1>6
  <2>2. Len(none) <= most /\ pos[Len(none) + 1] - 2 <= last /\ last < pos[Len(none) + 1]
    BY <1>4, <2>1, Zenon
  <2>3. read \in Seq(0 .. 255) /\ none \in Seq(Card) /\ CardsStandAt(read, none, pos)
    BY <1>2, <1>4, <1>5
  <2>4. QED
    BY <2>2, <2>3, CardsRead
<1>7. CardsIn(read, IdLength(id) + 1, Len(read) - 2, 5).cards = none
  <2>1. Len(read) - 2 \in Int /\ Len(read) - 2 = 1 /\ 5 \in Nat /\ IdLength(id) + 1 = 3
    BY <1>2, <1>3
  <2>2. CardsIn(read, pos[1], Len(read) - 2, 5).cards = none
    BY <1>6, <2>1, Zenon
  <2>3. QED
    BY <1>4, <2>1, <2>2
<1> DEFINE r == ReadTRICK(read, id)
<1>8. r = Rejected \/ r.cards = none
  <2>1. \/ r = Rejected
        \/ r = [name |-> "TRICK", id |-> LewaId(read, id),
                cards |-> CardsIn(read, IdLength(id) + 1, Len(read) - 2, 5).cards]
    BY Zenon DEF ReadTRICK
  <2>2. QED
    BY <1>7, <2>1
<1> HIDE DEF r
<1>9. Rejected.name # "TRICK"
  BY DEF Rejected
<1>10. ~ IsAnswer(r)
  <2>1. CASE r = Rejected
    BY <1>9, <2>1, Zenon DEF IsAnswer
  <2>2. CASE r.cards = none
    <3>1. Len(r.cards) = 0
      BY <1>4, <2>2, Zenon
    <3>2. QED
      BY <3>1 DEF IsAnswer
  <2>3. QED
    BY <1>8, <2>1, <2>2
<1>11. QED
  BY <1>10 DEF r

(***************************************************************************)
(* A packet the server reads with the name TRICK begins where a TRICK was  *)
(* written.                                                                *)
(***************************************************************************)
BeginsAt(k) ==
    /\ k \in 0 .. Len(written) - 1
    /\ written[k + 1] \in TRICKs
    /\ Start(k) = Here

(***************************************************************************)
(* The T that the name begins with is one of a TRICK.                      *)
(***************************************************************************)
LEMMA NameBegins ==
    ASSUME PacketInv, Origin, Lies, NoOtherT, written \in ToServer, name = NameChars["TRICK"]
    PROVE  \E k : BeginsAt(k)
PROOF
<1>1. /\ Len(All) \in Nat /\ Len(name) \in Nat /\ Len(buff) \in Nat /\ Len(stream) \in Nat
      /\ Len(All) = Here + Len(name) + Len(buff) + Len(stream)
      /\ Here \in Nat /\ Laid(All, Here, name, buff, stream)
  BY HereIs DEF Lies
<1>2. Len(name) = 5 /\ name[1] = 84
  <2> DEFINE trick == <<84, 82, 73, 67, 75>>
  <2>1. NameChars["TRICK"] = trick
    BY DEF NameChars
  <2>2. Len(trick) = 5 /\ trick[1] = 84
    OBVIOUS
  <2> HIDE DEF trick
  <2>3. QED
    BY <2>1, <2>2
<1>3. All[Here + 1] = 84
  <2>1. 1 \in 1 .. Len(name)
    BY <1>2
  <2>2. name[1] = All[Here + 1]
    BY <1>1, <2>1, Zenon DEF Laid
  <2>3. QED
    BY <1>2, <2>2
<1>4. Here + 1 \in 1 .. Len(All)
  <2> DEFINE a == Len(All)
             n == Len(name)
             b == Len(buff)
             l == Len(stream)
             h == Here
  <2>1. n = 5 /\ b \in Nat /\ l \in Nat /\ h \in Nat /\ a = h + n + b + l
    BY <1>1, <1>2
  <2> HIDE DEF a, n, b, l, h
  <2>2. h + 1 \in 1 .. a
    BY <2>1
  <2>3. QED
    BY <2>2 DEF h, a
<1>5. PICK k \in 0 .. Len(written) - 1 :
          \E i \in 1 .. Len(Text(written[k + 1])) : Here + 1 = Start(k) + i
  BY <1>4, Located DEF Origin
<1> DEFINE m == written[k + 1]
<1>6. PICK i \in 1 .. Len(Text(m)) : Here + 1 = Start(k) + i
  BY <1>5
<1>7. Text(m)[i] = 84 /\ Start(k) \in Nat
  <2>1. All[Start(k) + i] = Text(m)[i] /\ Start(k) \in Nat
    BY <1>6, Starts DEF Origin
  <2>2. QED
    BY <1>3, <1>6, <2>1
<1>8. /\ m \in IAMs \cup TRICKs \cup OTHERs
      /\ m.name = "OTHER" => \A c \in DOMAIN m.text : m.text[c] # 84
  <2>1. Len(written) \in Nat /\ DOMAIN written = 1 .. Len(written)
    BY TextsAre DEF Origin
  <2> DEFINE j == k + 1
  <2>2. j \in DOMAIN written /\ j \in 1 .. Len(written)
    BY <2>1
  <2>3. written \in Seq(IAMs \cup TRICKs \cup OTHERs)
    BY WireAssumption
  <2> HIDE DEF j
  <2>4. written[j] \in IAMs \cup TRICKs \cup OTHERs
    BY <2>2, <2>3
  <2>5. written[j].name = "OTHER" => \A c \in DOMAIN written[j].text : written[j].text[c] # 84
    <3>1. \A x \in DOMAIN written :
              written[x].name = "OTHER" => \A c \in DOMAIN written[x].text : written[x].text[c] # 84
      BY DEF NoOtherT
    <3>2. QED
      BY <2>2, <3>1
  <2>6. QED
    BY <2>4, <2>5, Zenon DEF j
<1> HIDE DEF m
<1>9. m \in TRICKs /\ i = 1
  BY <1>6, <1>7, <1>8, TBeginsTRICK
<1>10. Start(k) = Here
  <2> DEFINE s == Start(k)
             h == Here
  <2>1. s \in Nat /\ h \in Nat /\ h + 1 = s + 1
    BY <1>1, <1>6, <1>7, <1>9
  <2> HIDE DEF s, h
  <2>2. s = h
    BY <2>1
  <2>3. QED
    BY <2>2 DEF s, h
<1>11. BeginsAt(k)
  BY <1>5, <1>9, <1>10 DEF BeginsAt, m
<1>12. QED
  BY <1>11

(***************************************************************************)
(* If it ends with LF, it ends where this TRICK ends.                      *)
(***************************************************************************)
EndsWith(m) ==
    /\ m \in TRICKs
    /\ Len(Text(m)) \in Nat /\ Len(Text(m)) >= 7
    /\ Len(name) = 5 /\ Len(buff) \in Nat
    /\ 5 + Len(buff) = Len(Text(m))
    /\ Len(buff) >= 2 /\ buff[Len(buff) - 1] = CR /\ buff[Len(buff)] = LF
    /\ \A i \in 1 .. Len(buff) : buff[i] = Text(m)[5 + i]

(***************************************************************************)
(* The first LF behind the name is the one this TRICK ends with.           *)
(***************************************************************************)
LEMMA BodyEnds ==
    ASSUME PacketInv, Origin, Lies, name = NameChars["TRICK"],
           NEW k, BeginsAt(k), IsSuffix(<<LF>>, buff)
    PROVE  EndsWith(written[k + 1])
PROOF
<1> DEFINE m == written[k + 1]
           t == Text(m)
           n == Len(name)
           b == Len(buff)
           l == Len(t)
           s == Start(k)
<1>1. /\ m \in TRICKs /\ s = Here /\ k \in 0 .. Len(written) - 1
  BY DEF BeginsAt
<1>2. m.name = "TRICK" /\ m \in Playing
  BY <1>1 DEF TRICKs, Playing
<1>3. n = 5
  <2> DEFINE trick == <<84, 82, 73, 67, 75>>
  <2>1. NameChars["TRICK"] = trick /\ Len(trick) = 5
    BY DEF NameChars
  <2> HIDE DEF trick
  <2>2. QED
    BY <2>1
<1>4. /\ t \in Seq(0 .. 255) /\ Head1(m) = 5
      /\ 5 + 2 <= l
      /\ \A i \in 1 .. l - 1 : t[i] # LF
      /\ t[l - 1] = CR /\ t[l] = LF
  <2>1. Framed(m)
    BY <1>2, TextFramed
  <2>2. Head1(m) = 5
    BY <1>2, <1>3 DEF Head1
  <2>3. QED
    BY <2>1, <2>2, Zenon DEF Framed
<1>5. l \in Nat
  BY <1>4
<1>6. /\ b \in Nat /\ buff \in Seq(0 .. 255)
      /\ Laid(All, s, name, buff, stream)
      /\ \A i \in 2 .. b - 1 : ~ (buff[i - 1] = CR /\ buff[i] = LF)
  BY <1>1, HereIs DEF PacketInv, Lies
<1>7. \A i \in 1 .. l : All[s + i] = t[i]
  BY <1>1, Starts DEF Origin
<1>8. b >= 1 /\ buff[b] = LF
  BY <1>6, EndIs
<1>9. \A i \in 1 .. b : buff[i] = All[s + 5 + i]
  BY <1>3, <1>6, Zenon DEF Laid
<1>10. s \in Nat
  BY <1>1 DEF Lies
<1> HIDE DEF m, t, n, b, l, s
<1>11. ASSUME NEW i \in 1 .. b, 5 + i <= l PROVE buff[i] = t[5 + i]
  <2>1. 5 + i \in 1 .. l /\ s + 5 + i = s + (5 + i)
    BY <1>5, <1>6, <1>10, <1>11
  <2>2. All[s + (5 + i)] = t[5 + i]
    BY <1>7, <2>1, Zenon
  <2>3. QED
    BY <1>9, <2>1, <2>2, Zenon
<1>12. ~ (5 + b < l)
  <2>1. ASSUME 5 + b < l PROVE FALSE
    <3>1. b \in 1 .. b /\ 5 + b <= l /\ 5 + b \in 1 .. l - 1
      BY <1>5, <1>6, <1>8, <2>1
    <3>2. buff[b] = t[5 + b] /\ t[5 + b] # LF
      BY <1>4, <1>11, <3>1, Zenon
    <3>3. QED
      BY <1>8, <3>2
  <2>2. QED
    BY <2>1
<1>13. ~ (5 + b > l)
  <2>1. ASSUME 5 + b > l PROVE FALSE
    <3> DEFINE e == l - 5
    <3>1. /\ e \in 2 .. b - 1 /\ e \in 1 .. b /\ e - 1 \in 1 .. b
          /\ 5 + e = l /\ 5 + (e - 1) = l - 1 /\ 5 + e <= l /\ 5 + (e - 1) <= l
      BY <1>4, <1>5, <1>6, <2>1
    <3> HIDE DEF e
    <3>2. buff[e] = t[5 + e] /\ buff[e - 1] = t[5 + (e - 1)]
      BY <1>11, <3>1, Zenon
    <3>3. buff[e] = LF /\ buff[e - 1] = CR
      BY <1>4, <3>1, <3>2, Zenon
    <3>4. QED
      BY <1>6, <3>1, <3>3, Zenon
  <2>2. QED
    BY <2>1
<1>14. 5 + b = l
  BY <1>5, <1>6, <1>12, <1>13
<1>15. \A i \in 1 .. b : buff[i] = t[5 + i]
  <2>1. ASSUME NEW i \in 1 .. b PROVE buff[i] = t[5 + i]
    <3>1. 5 + i <= l
      BY <1>5, <1>6, <1>14
    <3>2. QED
      BY <1>11, <3>1
  <2>2. QED
    BY <2>1
<1>16. b >= 2 /\ buff[b - 1] = CR
  <2>1. b >= 2 /\ b - 1 \in 1 .. b /\ 5 + (b - 1) = l - 1
    BY <1>4, <1>5, <1>6, <1>14
  <2>2. buff[b - 1] = t[5 + (b - 1)]
    BY <1>15, <2>1, Zenon
  <2>3. QED
    BY <1>4, <2>1, <2>2, Zenon
<1>17. l >= 7
  BY <1>4, <1>5
<1>18. QED
  BY <1>1, <1>3, <1>5, <1>6, <1>8, <1>14, <1>15, <1>16, <1>17 DEF EndsWith, m, t, n, b, l

(***************************************************************************)
(* A packet that is taken for an answer is a TRICK that was written, and   *)
(* the reader is behind it afterwards.                                     *)
(***************************************************************************)
LEMMA AnswerIsWritten ==
    ASSUME PacketInv, Origin, Lies, NoOtherT, program \in Server, IsAnswer(Reading)
    PROVE  \E k : /\ BeginsAt(k)
                  /\ Reading = written[k + 1]
                  /\ Start(k + 1) = Here + Len(name) + Len(buff)
                  /\ Start(k) < Start(k + 1)
PROOF
<1>1. Reading # Rejected
  <2>1. Rejected.name # "TRICK"
    BY DEF Rejected
  <2>2. QED
    BY <2>1, Zenon DEF IsAnswer
<1>2. IsSuffix(<<LF>>, buff) /\ Name # "unknown"
  <2>1. ~ (~ IsSuffix(<<LF>>, buff) \/ Name = "unknown")
    BY <1>1, Zenon DEF Reading
  <2>2. QED
    BY <2>1
<1>3. Name # "IAM"
  <2>1. ASSUME Name = "IAM" PROVE FALSE
    <3>1. Reading = ReadIAM(WithEndChars(buff, Size))
      BY <1>2, <2>1 DEF Reading
    <3> DEFINE packet == WithEndChars(buff, Size)
    <3> HIDE DEF packet
    <3>2. \/ ReadIAM(packet) = Rejected
          \/ ReadIAM(packet) = [name |-> "IAM", seat |-> SeatOf(packet[4])]
      BY Zenon DEF ReadIAM
    <3>3. ~ IsAnswer([name |-> "IAM", seat |-> SeatOf(packet[4])])
      BY DEF IsAnswer
    <3>4. QED
      BY <1>1, <3>1, <3>2, <3>3, Zenon DEF packet
  <2>2. QED
    BY <2>1
<1>4. program \in {"trick", "unasked"}
  <2>1. program = "iam" => Name = "IAM"
    BY DEF Name
  <2>2. QED
    BY <1>3, <2>1 DEF Server
<1>5. name = NameChars["TRICK"] /\ Name = "TRICK"
  <2>1. Known = {"TRICK"} /\ program # "iam"
    BY <1>4 DEF Known
  <2>2. \E n \in Known : NameChars[n] = name
    BY <1>2, <2>1, Zenon DEF Name
  <2>3. Name = CHOOSE n \in Known : NameChars[n] = name
    BY <2>1, <2>2, Zenon DEF Name
  <2>4. Name \in Known
    BY <2>2, <2>3, Zenon
  <2>5. QED
    BY <2>1, <2>2, <2>4
<1>6. written \in ToServer
  BY <1>4 DEF Origin
<1>7. PICK k : BeginsAt(k)
  BY <1>5, <1>6, NameBegins
<1> DEFINE m == written[k + 1]
           t == Text(m)
<1>8. EndsWith(m)
  BY <1>2, <1>5, <1>7, BodyEnds
<1> HIDE DEF m
<1>9. /\ m \in TRICKs /\ m.name = "TRICK"
      /\ buff \in Seq(0 .. 255) /\ readers_id \in Nat
  BY <1>8 DEF EndsWith, TRICKs, PacketInv
<1>10. /\ t = Packet("TRICK", TRICKBody(m)) /\ TRICKBody(m) \in Seq(Plain)
  <2>1. t = WriteTRICK(m)
    BY <1>9 DEF Text
  <2>2. QED
    BY <1>9, <2>1, TRICKReads
<1>11. Holds(buff, TRICKBody(m))
  <2>1. PacketOf("TRICK", TRICKBody(m), t)
    <3>1. "TRICK" \in PacketNames
      BY DEF PacketNames
    <3>2. QED
      BY <1>10, <3>1, PacketIs, Zenon
  <2>2. Len(NameChars["TRICK"]) = 5
    BY <1>5, <1>8, Zenon DEF EndsWith
  <2> DEFINE b == Len(buff)
             l == Len(t)
  <2>3. b \in Nat /\ l \in Nat /\ 5 + b = l /\ \A i \in 1 .. b : buff[i] = t[5 + i]
    BY <1>8 DEF EndsWith
  <2> HIDE DEF t, b, l
  <2>4. b = l - 5
    BY <2>3
  <2>5. Len(buff) = Len(t) - 5 /\ \A i \in 1 .. Len(t) - 5 : buff[i] = t[5 + i]
    BY <2>3, <2>4, Zenon DEF b, l
  <2>6. QED
    BY <1>9, <2>1, <2>2, <2>5, Zenon DEF PacketOf
<1>12. Reading = ReadTRICK(buff, readers_id)
  <2>1. IsSuffix(EndChars, buff)
    BY <1>8, <1>9, EndIs DEF EndsWith
  <2>2. WithEndChars(buff, Size) = buff
    BY <2>1 DEF WithEndChars
  <2>3. Reading = ReadTRICK(WithEndChars(buff, Size), readers_id)
    BY <1>2, <1>5 DEF Reading
  <2>4. QED
    BY <2>2, <2>3, Zenon
<1>13. Reading = m
  <2>1. CASE AsLong(m.id, readers_id)
    BY <1>9, <1>11, <1>12, <2>1, TRICKReads
  <2>2. CASE ~ AsLong(m.id, readers_id)
    <3>1. ReadTRICK(buff, readers_id) = Rejected \/ (m.id = 4 /\ m.cards = << >>)
      BY <1>9, <1>11, <2>2, TRICKOfOtherLength
    <3>2. m.id = 4 /\ m.cards = << >>
      BY <1>1, <1>12, <3>1
    <3>3. ~ IsAnswer(ReadTRICK(buff, readers_id))
      BY <1>9, <1>11, <2>2, <3>2, EmptyIsNoAnswer
    <3>4. QED
      BY <1>12, <3>3, Zenon
  <2>3. QED
    BY <2>1, <2>2
<1>14. Start(k + 1) = Here + Len(name) + Len(buff) /\ Start(k) < Start(k + 1)
  <2>1. /\ Start(k) = Here /\ Start(k) \in Nat
        /\ Start(k + 1) = Start(k) + Len(t)
    BY <1>7, Starts DEF BeginsAt, Origin, m
  <2> DEFINE b == Len(buff)
             l == Len(t)
             s == Start(k)
             e == Start(k + 1)
             n == Len(name)
             h == Here
  <2>2. s = h /\ s \in Nat /\ e = s + l /\ n = 5 /\ b \in Nat /\ l \in Nat /\ 5 + b = l
    BY <1>8, <2>1 DEF EndsWith
  <2> HIDE DEF t, b, l, s, e, n, h
  <2>3. e = h + n + b /\ s < e
    BY <2>2
  <2>4. QED
    BY <2>3 DEF e, h, n, b, s
<1>15. QED
  BY <1>7, <1>13, <1>14 DEF m

-----------------------------------------------------------------------------
(* The answers.                                                            *)

(***************************************************************************)
(* Which of the messages that were written each answer is.                 *)
(***************************************************************************)
Matches(of) ==
    /\ of \in [Answers -> DOMAIN written]
    /\ \A i \in Answers :
            /\ readings[i].message = written[of[i]]
            /\ Start(of[i]) <= Here
            /\ \A j \in Answers : j < i => of[j] < of[i]

(***************************************************************************)
(* Where the reader is among the messages tells how many an answer can be. *)
(***************************************************************************)
LEMMA Earlier ==
    ASSUME Origin, NEW k \in 0 .. Len(written) - 1, Start(k) = Here, Start(k) < Start(k + 1),
           NEW j \in DOMAIN written, Start(j) <= Here
    PROVE  j < k + 1
PROOF
<1>1. Len(written) \in Nat /\ DOMAIN written = 1 .. Len(written)
  BY TextsAre DEF Origin
<1>2. ASSUME k + 1 <= j PROVE FALSE
  <2> DEFINE n == k + 1
  <2>1. j \in 0 .. Len(written) /\ n \in 0 .. j
    BY <1>1, <1>2
  <2> HIDE DEF n
  <2>2. Start(n) \in Nat /\ Start(j) \in Nat /\ Start(n) <= Start(j)
    BY <2>1, StartsGrow DEF Origin
  <2>3. Start(k) \in Nat
    BY Starts DEF Origin
  <2> DEFINE sn == Start(n)
             sj == Start(j)
             sk == Start(k)
  <2>4. sn \in Nat /\ sj \in Nat /\ sn <= sj /\ sk \in Nat /\ sj <= sk /\ sk < sn
    BY <2>2, <2>3 DEF n
  <2> HIDE DEF sn, sj, sk
  <2>5. QED
    BY <2>4
<1>3. QED
  BY <1>1, <1>2

(***************************************************************************)
(* Without a new answer there is no other message to find.                 *)
(***************************************************************************)
LEMMA SameAnswers ==
    ASSUME PacketInv, Origin, PacketInv', Origin', NEW of, Matches(of),
           Answers' = Answers, \A i \in Answers : readings'[i] = readings[i],
           written' = written, Here \in Int, Here' \in Int, Here <= Here'
    PROVE  Matches(of)'
PROOF
<1>1. \A i \in Answers : readings'[i].message = written[of[i]]
  BY DEF Matches
<1>2. DOMAIN written = 1 .. Len(written) /\ Len(written) \in Nat
  BY TextsAre DEF Origin
<1>3. \A j \in DOMAIN written : Start(j) \in Nat /\ Start(j)' = Start(j)
  <2>1. ASSUME NEW j \in DOMAIN written PROVE Start(j) \in Nat
    <3>1. j \in 0 .. Len(written) /\ j \in 0 .. j
      BY <1>2
    <3>2. QED
      BY <3>1, StartsGrow DEF Origin
  <2>2. \A j : Start(j)' = Start(j)
    BY DEF Start, Texts
  <2>3. QED
    BY <2>1, <2>2
<1>4. ASSUME NEW i \in Answers
      PROVE  Start(of[i])' <= Here'
  <2>1. of[i] \in DOMAIN written /\ Start(of[i]) <= Here
    BY DEF Matches
  <2> DEFINE s == Start(of[i])
             h == Here
             hn == Here'
  <2>2. s \in Nat /\ s <= h /\ h \in Int /\ hn \in Int /\ h <= hn /\ Start(of[i])' = s
    BY <1>3, <2>1
  <2> HIDE DEF s, h, hn
  <2>3. s <= hn
    BY <2>2
  <2>4. QED
    BY <2>2, <2>3 DEF hn
<1>5. QED
  BY <1>1, <1>4 DEF Matches

(***************************************************************************)
(* A new answer is the message behind which the reader is now.             *)
(***************************************************************************)
LEMMA OneAnswerMore ==
    ASSUME PacketInv, Origin, PacketInv', Origin', Lies, NoOtherT, program \in Server,
           NEW of, Matches(of), Takes, IsAnswer(Reading),
           Here' = Here + Len(name) + Len(buff)
    PROVE  \E next : Matches(next)'
PROOF
<1>1. /\ written' = written
      /\ Done \in Nat
      /\ \A i \in 1 .. Done : readings'[i] = readings[i]
      /\ readings'[Done + 1] = [message |-> Reading, at_id |-> readers_id]
      /\ DOMAIN readings = 1 .. Done /\ DOMAIN readings' = 1 .. Done + 1
  BY TakesDo
<1>2. PICK k : /\ BeginsAt(k)
               /\ Reading = written[k + 1]
               /\ Start(k + 1) = Here + Len(name) + Len(buff)
               /\ Start(k) < Start(k + 1)
  BY AnswerIsWritten
<1> DEFINE d == Done
           q == k + 1
           old == Answers
<1>3. DOMAIN written = 1 .. Len(written) /\ Len(written) \in Nat
  BY TextsAre DEF Origin
<1>4. k \in 0 .. Len(written) - 1 /\ Start(k) = Here /\ q \in DOMAIN written
  BY <1>2, <1>3 DEF BeginsAt
<1>5. old \subseteq 1 .. d /\ d \in Nat
  BY <1>1 DEF Answers
<1>6. Answers' = old \cup {d + 1}
  <2>1. \A i \in 1 .. d : IsAnswer(readings'[i].message) = IsAnswer(readings[i].message)
    BY <1>1 DEF IsAnswer
  <2>2. IsAnswer(readings'[d + 1].message)
    <3>1. readings'[d + 1].message = Reading
      BY <1>1
    <3>2. QED
      BY <3>1, Zenon DEF IsAnswer
  <2>3. \A i : i \in 1 .. d + 1 <=> i \in 1 .. d \/ i = d + 1
    BY <1>1
  <2>4. Answers' = {i \in 1 .. d + 1 : IsAnswer(readings'[i].message)}
    BY <1>1 DEF Answers, IsAnswer
  <2>5. old = {i \in 1 .. d : IsAnswer(readings[i].message)}
    BY <1>1 DEF Answers
  <2> HIDE DEF d, old
  <2>6. \A i : i \in Answers' <=> i \in old \/ i = d + 1
    BY <2>1, <2>2, <2>3, <2>4, <2>5, Zenon
  <2>7. QED
    BY <2>6
<1>7. \A i \in old : /\ of[i] \in DOMAIN written /\ readings[i].message = written[of[i]]
                   /\ Start(of[i]) <= Here
                   /\ \A j \in old : j < i => of[j] < of[i]
  BY DEF Matches
<1>8. \A i \in old : of[i] < q
  BY <1>2, <1>4, <1>7, Earlier
<1>9. \A j : Start(j)' = Start(j)
  BY <1>1 DEF Start, Texts
<1>10. \A i \in old : i # d + 1 /\ i < d + 1 /\ ~ (d + 1 < i)
  BY <1>5
<1>11. PICK next \in [old \cup {d + 1} -> DOMAIN written] :
            next[d + 1] = q /\ \A i \in old : next[i] = of[i]
  <2> DEFINE new == [i \in old \cup {d + 1} |-> IF i = d + 1 THEN q ELSE of[i]]
  <2>1. new[d + 1] = q /\ \A i \in old : new[i] = of[i]
    BY <1>10
  <2>2. new \in [old \cup {d + 1} -> DOMAIN written]
    BY <1>4, <1>7, <1>10
  <2> HIDE DEF new
  <2>3. QED
    BY <2>1, <2>2
<1>12. Here \in Nat /\ Here' = Start(q) /\ Here' \in Nat /\ Here <= Here'
  <2>1. /\ Here \in Nat /\ Len(name) \in Nat /\ Len(buff) \in Nat
    BY HereIs DEF Lies
  <2> DEFINE h == Here
             n == Len(name)
             b == Len(buff)
             hn == Here'
  <2>2. h \in Nat /\ n \in Nat /\ b \in Nat /\ hn = h + n + b
    BY <2>1
  <2> HIDE DEF h, n, b, hn
  <2>3. hn \in Nat /\ h <= hn
    BY <2>2
  <2>4. Here' = Start(q)
    BY <1>2
  <2>5. QED
    BY <2>1, <2>3, <2>4 DEF h, hn
<1> HIDE DEF q, d, old
<1>13. ASSUME NEW i \in old \cup {d + 1}
       PROVE  /\ readings'[i].message = written[next[i]]
              /\ Start(next[i]) <= Here'
              /\ \A j \in old \cup {d + 1} : j < i => next[j] < next[i]
  <2>1. CASE i = d + 1
    <3>1. readings'[i].message = Reading
      BY <1>1, <2>1 DEF d
    <3>2. readings'[i].message = written[next[i]]
      BY <1>2, <1>11, <2>1, <3>1, Zenon DEF q
    <3>3. Start(next[i]) <= Here'
      <4>1. Here' <= Here'
        BY <1>12
      <4>2. QED
        BY <1>11, <1>12, <2>1, <4>1, Zenon
    <3>4. ASSUME NEW j \in old \cup {d + 1}, j < i PROVE next[j] < next[i]
      <4>1. j \in old
        BY <1>5, <2>1, <3>4
      <4>2. QED
        BY <1>8, <1>11, <2>1, <4>1
    <3>5. QED
      BY <3>2, <3>3, <3>4
  <2>2. CASE i \in old
    <3>1. next[i] = of[i] /\ of[i] \in DOMAIN written /\ readings'[i] = readings[i]
      BY <1>1, <1>5, <1>7, <1>11, <2>2 DEF d
    <3>2. readings'[i].message = written[next[i]]
      BY <1>7, <2>2, <3>1
    <3>3. Start(next[i]) <= Here'
      <4>1. of[i] \in 0 .. Len(written) /\ of[i] \in 0 .. of[i]
        BY <1>3, <3>1
      <4>2. Start(of[i]) \in Nat
        BY <4>1, StartsGrow DEF Origin
      <4>3. Start(of[i]) <= Here
        BY <1>7, <2>2
      <4> DEFINE s == Start(of[i])
                 h == Here
                 hn == Here'
      <4>4. s \in Nat /\ h \in Nat /\ hn \in Nat /\ s <= h /\ h <= hn
        BY <1>12, <4>2, <4>3
      <4> HIDE DEF s, h, hn
      <4>5. s <= hn
        BY <4>4
      <4>6. QED
        BY <3>1, <4>5, Zenon DEF s, hn
    <3>4. ASSUME NEW j \in old \cup {d + 1}, j < i PROVE next[j] < next[i]
      <4>1. j \in old
        BY <1>10, <2>2, <3>4
      <4>2. QED
        BY <1>7, <1>11, <2>2, <3>4, <4>1
    <3>5. QED
      BY <3>2, <3>3, <3>4
  <2>3. QED
    BY <2>1, <2>2
<1>14. Matches(next)'
  BY <1>1, <1>6, <1>9, <1>11, <1>13 DEF Matches
<1>15. QED
  BY <1>14

(***************************************************************************)
(* Where a packet begins changes only when it is dropped.                  *)
(***************************************************************************)
LEMMA HereStays ==
    ASSUME PacketInv, Origin, Lies, [Next]_vars, ~ Takes, ~ ReadTimesOut
    PROVE  Here' = Here
PROOF
<1>1. PacketInv' /\ Origin' /\ written' = written
  BY NextTyped, WrittenStays
<1>2. /\ name \in Seq(0 .. 255) /\ buff \in Seq(0 .. 255) /\ stream \in Seq(0 .. 255)
  BY DEF PacketInv
<1> DEFINE n == Len(name)
           b == Len(buff)
           l == Len(stream)
           nn == Len(name)'
           bn == Len(buff)'
           ln == Len(stream)'
<1>3. n \in Nat /\ b \in Nat /\ l \in Nat
  BY HereIs
<1>4. \/ nn = n + 1 /\ l = ln + 1 /\ bn = b /\ ln \in Nat
      \/ bn = b + 1 /\ l = ln + 1 /\ nn = n /\ ln \in Nat
      \/ nn = n /\ bn = b /\ ln = l
  <2>1. CASE ReadNameChar
    <3>1. /\ stream # << >> /\ name' = Append(name, Head(stream)) /\ stream' = Tail(stream)
          /\ buff' = buff
      BY <2>1 DEF ReadNameChar
    <3>2. QED
      BY <1>2, <3>1, Taken
  <2>2. CASE ReadChar
    <3>1. /\ stream # << >> /\ buff' = Append(buff, Head(stream)) /\ stream' = Tail(stream)
          /\ name' = name
      BY <2>2 DEF ReadChar
    <3>2. QED
      BY <1>2, <3>1, Taken
  <2>3. CASE WrongAfterLastTrick \/ vars' = vars
    BY <2>3 DEF WrongAfterLastTrick, vars
  <2>4. QED
    BY <2>1, <2>2, <2>3 DEF Next, Takes
<1> HIDE DEF n, b, l, nn, bn, ln
<1>5. nn + bn + ln = n + b + l
  BY <1>3, <1>4
<1>6. QED
  BY <1>1, <1>5, HereNext DEF n, b, l, nn, bn, ln

(***************************************************************************)
(* Every step of the server keeps the answers apart, each of them behind   *)
(* the ones before.                                                        *)
(***************************************************************************)
LEMMA AnswersKept ==
    PacketInv /\ Origin /\ Lies /\ NoOtherT /\ AnswersInv /\ [Next]_vars => AnswersInv'
PROOF
<1> SUFFICES ASSUME PacketInv, Origin, Lies, NoOtherT, AnswersInv, [Next]_vars, program' \in Server
             PROVE  \E next : Matches(next)'
  BY Zenon DEF AnswersInv, Matches
<1>1. PacketInv' /\ Origin' /\ written' = written /\ Lies'
  BY NextTyped, WrittenStays, LiesKept
<1>2. Here \in Nat /\ Here' \in Nat
  BY <1>1 DEF Lies
<1>3. program \in Server
  BY DEF Next, vars, ReadNameChar, ReadChar, ServerTakes, WaitingTakes, PlayingTakes,
         WrongAfterLastTrick, ReadTimesOut, Server
<1>4. PICK of : Matches(of)
  BY <1>3, Zenon DEF AnswersInv, Matches
<1>5. Len(name) \in Nat /\ Len(buff) \in Nat
  BY HereIs
<1>6. CASE Takes
  <2>1. /\ name' = << >> /\ buff' = << >> /\ stream' = stream
        /\ readings' = Append(readings, [message |-> Reading, at_id |-> readers_id])
        /\ \A i \in 1 .. Done : readings'[i] = readings[i]
        /\ readings'[Done + 1] = [message |-> Reading, at_id |-> readers_id]
        /\ DOMAIN readings = 1 .. Done /\ DOMAIN readings' = 1 .. Done + 1 /\ Done \in Nat
    BY <1>6, TakesDo
  <2>2. Here' = Here + Len(name) + Len(buff)
    BY <1>1, <2>1, LiesDropped
  <2>3. CASE IsAnswer(Reading)
    BY <1>1, <1>3, <1>4, <1>6, <2>2, <2>3, OneAnswerMore
  <2>4. CASE ~ IsAnswer(Reading)
    <3>1. Answers' = Answers
      <4> DEFINE d == Done
      <4>1. readings'[d + 1].message = Reading
        BY <2>1
      <4>2. ~ IsAnswer(readings'[d + 1].message)
        BY <2>4, <4>1, Zenon DEF IsAnswer
      <4>3. \A i : i \in 1 .. d + 1 <=> i \in 1 .. d \/ i = d + 1
        BY <2>1
      <4>4. \A i \in 1 .. d : IsAnswer(readings'[i].message) = IsAnswer(readings[i].message)
        BY <2>1
      <4>5. Answers' = {i \in 1 .. d + 1 : IsAnswer(readings'[i].message)}
        BY <2>1 DEF Answers, IsAnswer
      <4>6. Answers = {i \in 1 .. d : IsAnswer(readings[i].message)}
        BY <2>1 DEF Answers
      <4> HIDE DEF d
      <4>7. \A i : i \in Answers' <=> i \in Answers
        BY <4>2, <4>3, <4>4, <4>5, <4>6, Zenon
      <4>8. QED
        BY <4>7
    <3>2. \A i \in Answers : readings'[i] = readings[i]
      BY <2>1 DEF Answers
    <3>3. Here <= Here'
      <4> DEFINE h == Here
                 n == Len(name)
                 b == Len(buff)
                 hn == Here'
      <4>1. h \in Nat /\ n \in Nat /\ b \in Nat /\ hn = h + n + b
        BY <1>2, <1>5, <2>2
      <4> HIDE DEF h, n, b, hn
      <4>2. h <= hn
        BY <4>1
      <4>3. QED
        BY <4>2 DEF h, hn
    <3>4. QED
      BY <1>1, <1>2, <1>4, <3>1, <3>2, <3>3, SameAnswers
  <2>5. QED
    BY <2>3, <2>4
<1>7. CASE ~ Takes
  <2>1. readings' = readings
    BY <1>7, ReadingsStay
  <2>2. Answers' = Answers
    BY <2>1 DEF Answers
  <2>3. Here <= Here'
    <3>1. CASE ReadTimesOut
      <4>1. name' = << >> /\ buff' = << >> /\ stream' = stream
        BY <3>1 DEF ReadTimesOut
      <4>2. Here' = Here + Len(name) + Len(buff)
        BY <1>1, <4>1, LiesDropped
      <4> DEFINE h == Here
                 n == Len(name)
                 b == Len(buff)
                 hn == Here'
      <4>3. h \in Nat /\ n \in Nat /\ b \in Nat /\ hn = h + n + b
        BY <1>2, <1>5, <4>2
      <4> HIDE DEF h, n, b, hn
      <4>4. h <= hn
        BY <4>3
      <4>5. QED
        BY <4>4 DEF h, hn
    <3>2. CASE ~ ReadTimesOut
      <4>1. Here' = Here
        BY <1>7, <3>2, HereStays
      <4>2. Here <= Here
        BY <1>2
      <4>3. QED
        BY <4>1, <4>2, Zenon
    <3>3. QED
      BY <3>1, <3>2
  <2>4. QED
    BY <1>1, <1>2, <1>4, <2>1, <2>2, <2>3, SameAnswers
<1>8. QED
  BY <1>6, <1>7

(***************************************************************************)
(* Before the first packet there are no answers.                           *)
(***************************************************************************)
LEMMA NoAnswersFirst == Init => AnswersInv
PROOF
<1> SUFFICES ASSUME Init PROVE \E of : Matches(of)
  BY Zenon DEF AnswersInv, Matches
<1>1. readings = << >>
  BY DEF Init
<1>2. Answers = {}
  <2>1. DOMAIN << >> = {}
    OBVIOUS
  <2>2. QED
    BY <1>1, <2>1, Zenon DEF Answers
<1>3. [i \in {} |-> 0] \in [{} -> DOMAIN written]
  OBVIOUS
<1>4. PICK of \in [{} -> DOMAIN written] : TRUE
  BY <1>3
<1>5. Matches(of)
  BY <1>2, <1>4 DEF Matches
<1>6. QED
  BY <1>5

(***************************************************************************)
(* The inductive invariant: the packet fits its buffer, the reader is in   *)
(* step until something times out or something else comes, nothing that    *)
(* was written is lost from the middle of a packet, and the answers the    *)
(* server took lie behind it.                                              *)
(***************************************************************************)
THEOREM WireInvariance == Spec => []Inv
PROOF
<1>1. Init => Inv
  BY InitTyped, StepFirst, LiesFirst, NoAnswersFirst DEF Inv
<1>2. Inv /\ [Next]_vars => Inv'
  <2>1. NoOtherT' <=> NoOtherT
    BY DEF NoOtherT
  <2>2. QED
    BY <2>1, NextTyped, StepKept, LiesKept, AnswersKept DEF Inv
<1>3. QED
  BY <1>1, <1>2, PTL DEF Spec

(***************************************************************************)
(* Unless something else that a client writes has a T in it, each answer   *)
(* the server takes is one the client wrote, in the order it wrote them,   *)
(* wherever a read of handle_TRICK times out in the middle of a packet and *)
(* whatever trick the server is at: what is left of a packet never begins  *)
(* with the name of one.                                                   *)
(***************************************************************************)
THEOREM AnswersWereWritten == NoOtherT /\ Spec => []TakesOnlyWritten
PROOF
<1>1. Inv /\ NoOtherT => TakesOnlyWritten
  BY Zenon DEF Inv, AnswersInv, TakesOnlyWritten, Answers
<1>2. NoOtherT /\ [Next]_vars => NoOtherT'
  BY DEF NoOtherT
<1>3. QED
  BY <1>1, <1>2, WireInvariance, PTL DEF Spec
=============================================================================
