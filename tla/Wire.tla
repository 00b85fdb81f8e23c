-------------------------------- MODULE Wire --------------------------------
(***************************************************************************)
(* One direction of a connection, character by character: what one program *)
(* wrote is on its way, and the other reads it as it comes                 *)
(* (TCP_handler.cpp, and whoever calls it: kierki-serwer.cpp, handle_TRICK *)
(* and handle_player_msg_at_wrong_time in TCP_threads.cpp,                 *)
(* klient_auto_lib.cpp).                                                   *)
(*                                                                         *)
(* TCP keeps the order and loses nothing; it may stop anywhere, and the    *)
(* server's reads then time out.  The client sets no timeout.  The end of  *)
(* the stream is in TrickExchange and KierkiServer.                        *)
(***************************************************************************)
EXTENDS Messages

CONSTANTS
    ToServer,     \* what a client may write: sequences of messages or other text
    ToWaiting,    \* what the server may write before the client has a deal
    ToPlaying,    \* and after it
    ReadersIds,   \* the trick the reader is at
    MaxTimeouts   \* reads of the server that time out

(***************************************************************************)
(* A client begins with IAM and goes on with its answers, among whatever   *)
(* else it may send.  A client without a deal hears of the seats that are  *)
(* taken, or gets its deal first.                                          *)
(***************************************************************************)
Playing == DEALs \cup TRICKs \cup WRONGs \cup TAKENs \cup SCOREs \cup TOTALs
OTHERs == [name : {"OTHER"}, text : Seq(0 .. 255)]

ASSUME WireAssumption ==
    /\ ToServer \subseteq Seq(IAMs \cup TRICKs \cup OTHERs)
    /\ \A texts \in ToServer : \A i \in DOMAIN texts :
            \/ texts[i].name = "OTHER"
            \/ texts[1].name = "OTHER"
            \/ texts[i].name = "IAM" <=> i = 1
    /\ ToPlaying \subseteq Seq(Playing)
    /\ ToWaiting \subseteq Seq(BUSYs \cup Playing)
    /\ \A texts \in ToWaiting : \A i \in DOMAIN texts :
            texts[i] \in IF i = 1 THEN BUSYs \cup DEALs ELSE Playing
    /\ ReadersIds \subseteq Nat
    /\ MaxTimeouts \in Nat

VARIABLES
    program,     \* where the reader is: see Server and Client, or "closed"
    at,          \* "name" or "body" of a packet
    name, buff,  \* the characters of the packet that were read
    readers_id,  \* curr_lewa_nbr of the server, curr_lewa_id of the client
    stream,      \* what is on its way
    written,     \* what was written (history)
    readings,    \* what was made of each packet, and at which trick (history)
    timeouts

vars == <<program, at, name, buff, readers_id, stream, written, readings, timeouts>>

(***************************************************************************)
(* "iam": the main thread; "trick" and "unasked": the TCP thread's two     *)
(* readers; "waiting": klient_auto_main; "playing": play_game.             *)
(***************************************************************************)
Server == {"iam", "trick", "unasked"}
Client == {"waiting", "playing"}

Text(m) == CASE m.name = "IAM" -> WriteIAM(m)
             [] m.name = "BUSY" -> WriteBUSY(m)
             [] m.name = "DEAL" -> WriteDEAL(m)
             [] m.name = "TRICK" -> WriteTRICK(m)
             [] m.name = "WRONG" -> WriteWRONG(m)
             [] m.name = "TAKEN" -> WriteTAKEN(m)
             [] m.name = "SCORE" -> WriteSCORE(m)
             [] m.name = "TOTAL" -> WriteTOTAL(m)
             [] m.name = "OTHER" -> m.text

Init ==
    /\ \/ program = "iam" /\ written \in ToServer /\ readers_id \in ReadersIds
       \/ program = "waiting" /\ written \in ToWaiting /\ readers_id = 1
       \/ program = "playing" /\ written \in ToPlaying /\ readers_id \in ReadersIds
    /\ stream = FlattenSeq([i \in DOMAIN written |-> Text(written[i])])
    /\ at = IF program = "iam" THEN "body" ELSE "name"
    /\ name = << >> /\ buff = << >>
    /\ readings = << >>
    /\ timeouts = 0

-----------------------------------------------------------------------------
(***************************************************************************)
(* The names the reader looks for, and the one it has read.                *)
(***************************************************************************)
Known == CASE program = "iam" -> {"IAM"}
           [] program \in {"trick", "unasked"} -> {"TRICK"}
           [] program = "waiting" -> {"BUSY", "DEAL"}
           [] program = "playing" -> {"DEAL", "TRICK", "TAKEN", "SCORE", "TOTAL", "WRONG"}
           [] OTHER -> {}

(* Mutant: the server takes whatever comes for a TRICK, without a look at  *)
(* its name.                                                               *)
Name_NotCompared ==
    IF program = "iam" THEN "IAM"
    ELSE IF program \in {"trick", "unasked"} THEN "TRICK"
    ELSE IF \E n \in Known : NameChars[n] = name
    THEN CHOOSE n \in Known : NameChars[n] = name
    ELSE "unknown"

Name == IF program = "iam" THEN "IAM"
        ELSE IF \E n \in Known : NameChars[n] = name
        THEN CHOOSE n \in Known : NameChars[n] = name
        ELSE "unknown"

(***************************************************************************)
(* The client reads a character, and three more for a name with D or B.    *)
(***************************************************************************)
NameLength(chars) == IF program \in Client /\ chars[1] \in {68, 66} THEN 4 ELSE 5

Size == IF program \in {"trick", "unasked"} THEN MaxSize.TRICK
        ELSE IF Name # "unknown" THEN MaxSize[Name]
        ELSE IF program = "waiting" THEN MaxSize.DEAL
        ELSE MaxSize.TOTAL

ReadNameChar ==
    /\ program # "closed" /\ at = "name" /\ stream # << >>
    /\ name' = Append(name, Head(stream))
    /\ stream' = Tail(stream)
    /\ at' = IF Len(name') = NameLength(name') THEN "body" ELSE "name"
    /\ UNCHANGED <<program, buff, readers_id, written, readings, timeouts>>

(* Mutant: a packet without an end is read past the end of the buffer.     *)
PacketEnds_NoLimit == IsSuffix(EndChars, buff)

(***************************************************************************)
(* TCP_read_till_newline stops behind CR LF, or when the buffer is full.   *)
(***************************************************************************)
PacketEnds == IsSuffix(EndChars, buff) \/ Len(buff) = Size

ReadChar ==
    /\ program # "closed" /\ at = "body" /\ ~PacketEnds /\ stream # << >>
    /\ buff' = Append(buff, Head(stream))
    /\ stream' = Tail(stream)
    /\ UNCHANGED <<program, at, name, readers_id, written, readings, timeouts>>

(* Mutant: the end is put behind what was read while any room is left.     *)
WithEndChars_AnyRoom(chars, size) ==
    IF IsSuffix(EndChars, chars) THEN chars
    ELSE IF Len(chars) < size THEN chars \o EndChars
    ELSE SubSeq(chars, 1, Len(chars) - 2) \o EndChars

(***************************************************************************)
(* add_rn_to_buff_if_needed.                                               *)
(***************************************************************************)
WithEndChars(chars, size) ==
    IF IsSuffix(EndChars, chars) THEN chars
    ELSE IF chars = <<CR>> THEN EndChars
    ELSE IF Len(chars) < 2 \/ Len(chars) < size - 2 THEN chars \o EndChars
    ELSE SubSeq(chars, 1, Len(chars) - 2) \o EndChars

Reading ==
    LET packet == WithEndChars(buff, Size)
    IN IF ~IsSuffix(<<LF>>, buff) \/ Name = "unknown" THEN Rejected
       ELSE CASE Name = "IAM" -> ReadIAM(packet)
              [] Name = "BUSY" -> ReadBUSY(packet)
              [] Name = "DEAL" -> ReadDEAL(packet)
              [] Name = "TRICK" -> ReadTRICK(packet, readers_id)
              [] Name = "WRONG" -> ReadWRONG(packet, readers_id)
              [] Name = "TAKEN" -> ReadTAKEN(packet, readers_id)
              [] Name = "SCORE" -> ReadSCORE(packet)
              [] Name = "TOTAL" -> ReadTOTAL(packet)

TakePacket(start) ==
    /\ at = "body" /\ PacketEnds
    /\ readings' = Append(readings, [message |-> Reading, at_id |-> readers_id])
    /\ at' = start /\ name' = << >> /\ buff' = << >>
    /\ UNCHANGED <<stream, written, timeouts>>

(***************************************************************************)
(* A packet the server does not understand ends the connection; between    *)
(* packets the rest of the thread decides where the next one is read.      *)
(***************************************************************************)
ServerTakes ==
    /\ program \in Server
    /\ TakePacket("name")
    /\ program' \in (IF Reading = Rejected THEN {"closed"} ELSE {"trick", "unasked"})
    /\ UNCHANGED readers_id

(***************************************************************************)
(* klient_auto_main, until BUSY or the first deal.                         *)
(***************************************************************************)
WaitingTakes ==
    /\ program = "waiting"
    /\ TakePacket("name")
    /\ program' = IF Name = "BUSY" THEN "closed"
                  ELSE IF Reading.name = "DEAL" THEN "playing"
                  ELSE IF Name = "DEAL" /\ ~IsSuffix(<<LF>>, buff) THEN "closed"
                  ELSE "waiting"
    /\ UNCHANGED readers_id

(***************************************************************************)
(* play_game.  What does not parse is passed over; a full buffer without   *)
(* a newline is an error, and so is WRONG when no Lewa can be built for it *)
(* or its id does not parse.                                               *)
(***************************************************************************)
PlayingTakes ==
    /\ program = "playing"
    /\ ~(Name = "WRONG" /\ readers_id > 13)
    /\ TakePacket("name")
    /\ program' =
            IF \/ Name = "WRONG" /\ IsSuffix(<<LF>>, buff) /\ Len(buff) >= MinSize.WRONG
                  /\ Reading = Rejected
               \/ Name \notin {"WRONG", "unknown"} /\ ~IsSuffix(<<LF>>, buff)
            THEN "closed" ELSE "playing"
    /\ readers_id' = IF Reading.name = "DEAL" THEN 1
                     ELSE IF Reading.name = "TAKEN" THEN readers_id + 1
                     ELSE readers_id

WrongAfterLastTrick ==
    /\ program = "playing" /\ at = "body" /\ Name = "WRONG" /\ readers_id > 13
    /\ program' = "closed"
    /\ UNCHANGED <<at, name, buff, readers_id, stream, written, readings, timeouts>>

(***************************************************************************)
(* readn and TCP_read_till_newline drop what they have read when they time *)
(* out.  handle_TRICK then asks again and expects a name; the others give  *)
(* up.                                                                     *)
(***************************************************************************)
ReadTimesOut ==
    /\ program \in Server /\ timeouts < MaxTimeouts
    /\ timeouts' = timeouts + 1
    /\ program' = IF program = "trick" THEN "trick" ELSE "closed"
    /\ at' = "name" /\ name' = << >> /\ buff' = << >>
    /\ UNCHANGED <<readers_id, stream, written, readings>>

Next == ReadNameChar \/ ReadChar \/ ServerTakes \/ WaitingTakes \/ PlayingTakes
        \/ WrongAfterLastTrick \/ ReadTimesOut

Spec == Init /\ [][Next]_vars

-----------------------------------------------------------------------------
(***************************************************************************)
(* Every variable keeps its type.                                          *)
(***************************************************************************)
TypeOK ==
    /\ program \in Server \cup Client \cup {"closed"}
    /\ at \in {"name", "body"}
    /\ Len(name) <= 5
    /\ Len(buff) <= Size
    /\ readers_id \in Nat
    /\ timeouts \in 0 .. MaxTimeouts

(***************************************************************************)
(* Wherever the end of the stream or a timeout cuts a packet, the two      *)
(* characters put behind it stay inside the buffer it was read into.       *)
(***************************************************************************)
EndCharsFit == program # "closed" /\ at = "body" => Len(WithEndChars(buff, Size)) <= Size

HasId(m) == m.name \in {"TRICK", "TAKEN", "WRONG"}
SameLength(id, readers_id_then) == (id >= 10) = (readers_id_then >= 10)

(***************************************************************************)
(* As long as nothing timed out and nothing else was written, each packet  *)
(* is read as the message that was written, and the next one from its      *)
(* first character on, whatever the lengths of their ids, cards and        *)
(* numbers; the reader has to be at a trick whose id is as long.           *)
(***************************************************************************)
ReadAsWritten ==
    timeouts = 0 =>
        \A i \in DOMAIN readings :
            (\A j \in 1 .. i : /\ written[j].name # "OTHER"
                               /\ HasId(written[j]) =>
                                    SameLength(written[j].id, readings[j].at_id))
                => readings[i].message = written[i]

(***************************************************************************)
(* A TRICK or TAKEN whose id is longer or shorter than the reader's is     *)
(* never taken for another one; but an empty TRICK 4 is read as TRICK 5 by *)
(* a reader that expects two digits, the second of them being CR.          *)
(***************************************************************************)
OtherLengthRejected ==
    timeouts = 0 =>
        \A i \in DOMAIN readings :
            /\ \A j \in 1 .. i : written[j].name # "OTHER"
            /\ written[i].name \in {"TRICK", "TAKEN"}
            /\ ~SameLength(written[i].id, readings[i].at_id)
            => \/ readings[i].message = Rejected
               \/ written[i].name = "TRICK" /\ written[i].id = 4 /\ written[i].cards = << >>

(***************************************************************************)
(* What handle_TRICK takes for an answer.                                  *)
(***************************************************************************)
IsAnswer(m) == m.name = "TRICK" /\ Len(m.cards) = 1

(***************************************************************************)
(* Wherever a read times out and whatever else a client writes, each       *)
(* answer the server takes is one the client wrote, in the order it wrote  *)
(* them: parts of two messages never make a third.                         *)
(***************************************************************************)
TakesOnlyWritten ==
    LET answers == {i \in DOMAIN readings : IsAnswer(readings[i].message)}
    IN program \in Server =>
        \E of \in [answers -> DOMAIN written] :
            \A i \in answers :
                /\ readings[i].message = written[of[i]]
                /\ \A j \in answers : j < i => of[j] < of[i]
=============================================================================
