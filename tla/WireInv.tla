------------------------------ MODULE WireInv ------------------------------
(***************************************************************************)
(* Why Wire keeps its promises: where the reader is in what was written,   *)
(* and what it expects there.                                              *)
(***************************************************************************)
EXTENDS Wire

Texts == [i \in DOMAIN written |-> Text(written[i])]
All == FlattenSeq(Texts)
Done == Len(readings)

(***************************************************************************)
(* How many characters the first k messages have.                          *)
(***************************************************************************)
Start(k) == Len(FlattenSeq(SubSeq(Texts, 1, k)))

-----------------------------------------------------------------------------
(***************************************************************************)
(* The packet that is being read: its name is not complete, or its body    *)
(* has begun and does not exceed its buffer.  The main thread reads the    *)
(* name of IAM with the rest.                                              *)
(***************************************************************************)
PacketInv ==
    /\ program \in Server \cup Client \cup {"closed"}
    /\ at \in {"name", "body"}
    /\ name \in Seq(0 .. 255) /\ buff \in Seq(0 .. 255) /\ stream \in Seq(0 .. 255)
    /\ Len(name) <= 5
    /\ Len(buff) <= Size
    /\ program # "closed" /\ at = "name" =>
            buff = << >> /\ (name = << >> \/ Len(name) < NameLength(name))
    /\ program \notin {"closed", "iam"} /\ at = "body" => Len(name) = NameLength(name)
    /\ readers_id \in Nat
    /\ timeouts \in 0 .. MaxTimeouts

(***************************************************************************)
(* Who wrote what is read, and what was read of it before.                 *)
(***************************************************************************)
Origin ==
    /\ written \in ToServer \cup ToWaiting \cup ToPlaying
    /\ Done \in Nat /\ readings = [i \in 1 .. Done |-> readings[i]]
    /\ program = "iam" =>
            written \in ToServer /\ at = "body" /\ name = << >> /\ readings = << >>
    /\ program \in {"trick", "unasked"} => written \in ToServer /\ readings # << >>
    /\ program = "waiting" => written \in ToWaiting
    /\ program = "playing" =>
            written \in ToPlaying \/ (written \in ToWaiting /\ readings # << >>)
    /\ program \in Client => timeouts = 0

(***************************************************************************)
(* Nothing has yet happened that may leave the reader out of step.         *)
(***************************************************************************)
InStep ==
    /\ program # "closed" /\ timeouts = 0
    /\ \A j \in DOMAIN written : j <= Done + 1 => written[j].name # "OTHER"

(***************************************************************************)
(* Then what was read since the last packet, and what is on its way, is    *)
(* what was written behind the messages that were read.                    *)
(***************************************************************************)
Place ==
    /\ Done <= Len(written)
    /\ Start(Done) + Len(name) + Len(buff) + Len(stream) = Len(All)
    /\ \A i \in 1 .. Len(name) : name[i] = All[Start(Done) + i]
    /\ \A i \in 1 .. Len(buff) : buff[i] = All[Start(Done) + Len(name) + i]
    /\ \A i \in 1 .. Len(stream) : stream[i] = All[Start(Done) + Len(name) + Len(buff) + i]

(***************************************************************************)
(* The packet is no longer than the message it is read from, and a client  *)
(* without a deal has read nothing.                                        *)
(***************************************************************************)
Within ==
    /\ program = "waiting" => readings = << >>
    /\ Done < Len(written) =>
            LET m == written[Done + 1]
            IN /\ Len(name) + Len(buff) <= Len(Text(m))
               /\ program # "iam" => Len(name) <= Len(NameChars[m.name])
               /\ program # "iam" /\ at = "name" => Len(name) < Len(NameChars[m.name])
               /\ program # "iam" /\ at = "body" => Len(name) = Len(NameChars[m.name])

StepInv == InStep => Place /\ Within

-----------------------------------------------------------------------------
(***************************************************************************)
(* Where the packet that is being read begins, in step or not.             *)
(***************************************************************************)
Here == Len(All) - Len(name) - Len(buff) - Len(stream)

(***************************************************************************)
(* What was read since a place, and what is on its way, is what was        *)
(* written from there on.                                                  *)
(***************************************************************************)
Laid(all, s, n, b, st) ==
    /\ s + Len(n) + Len(b) + Len(st) = Len(all)
    /\ \A i \in 1 .. Len(n) : n[i] = all[s + i]
    /\ \A i \in 1 .. Len(b) : b[i] = all[s + Len(n) + i]
    /\ \A i \in 1 .. Len(st) : st[i] = all[s + Len(n) + Len(b) + i]

(***************************************************************************)
(* Nothing is lost, and no body goes on behind its end.                    *)
(***************************************************************************)
Lies ==
    /\ Here \in Nat
    /\ Laid(All, Here, name, buff, stream)
    /\ \A i \in 2 .. Len(buff) - 1 : ~ (buff[i - 1] = CR /\ buff[i] = LF)

(***************************************************************************)
(* Whatever else a client writes has no T in it.                           *)
(***************************************************************************)
NoOtherT ==
    \A texts \in ToServer : \A i \in DOMAIN texts :
        texts[i].name = "OTHER" => \A c \in DOMAIN texts[i].text : texts[i].text[c] # 84

(***************************************************************************)
(* The answers the server took are messages behind which it has read on.   *)
(***************************************************************************)
Answers == {i \in DOMAIN readings : IsAnswer(readings[i].message)}

AnswersInv ==
    program \in Server =>
        \E of \in [Answers -> DOMAIN written] :
            \A i \in Answers :
                /\ readings[i].message = written[of[i]]
                /\ Start(of[i]) <= Here
                /\ \A j \in Answers : j < i => of[j] < of[i]

Inv == PacketInv /\ Origin /\ StepInv /\ Lies /\ (NoOtherT => AnswersInv)
=============================================================================
