--------------------------- MODULE TrickExchange ---------------------------
(***************************************************************************)
(* One seat, message by message: its TCP thread (TCP_threads.cpp), the     *)
(* commands its player thread gives, and the client that sits there        *)
(* (klient_auto_lib.cpp), with the repeats after a timeout, WRONG, and the *)
(* result of poll() that is looked at after the command was served.        *)
(*                                                                         *)
(* KierkiServer has handle_TRICK as one step and all the threads; here are *)
(* the messages of handle_TRICK, and the other seats are what they led and *)
(* the time they take.  A message is delivered whole: both programs write  *)
(* one with a single call (Wire has the bytes).                            *)
(*                                                                         *)
(* The seat is followed to the end of its game, or until its TCP thread    *)
(* ends between the release of a permit and the player thread's test of    *)
(* thread_ended (HandedOff).  The player thread then repeats a command     *)
(* that was served; KierkiServer has what comes of that.                   *)
(***************************************************************************)
EXTENDS Cards, Sequences, FiniteSets

CONSTANTS
    NumTricks,  \* MAX_NBR_OF_LEWAS, 13 in the code
    TwoDigits,  \* the first trick id that takes two characters, 10
    Suits,      \* what another seat may lead
    Hands,      \* Hands[r]: the cards the game file deals the seat in round r
    MaxLate,    \* timeouts that end before a client that has work answers
    MaxJunk,    \* messages a client sends without being asked
    MaxLost     \* clients that close

ASSUME ExchangeAssumption ==
    /\ NumTricks \in Nat \ {0}
    /\ TwoDigits \in Nat
    /\ Suits \subseteq Nat \ {NONE_SUIT}
    /\ Hands \in Seq(SUBSET [suit : Suits, value : Nat]) /\ Hands # << >>
    /\ \A r \in DOMAIN Hands : IsFiniteSet(Hands[r]) /\ Cardinality(Hands[r]) = NumTricks
    /\ {MaxLate, MaxJunk, MaxLost} \subseteq Nat

Led == Suits \cup {NONE_SUIT}
Card == [suit : Suits, value : Nat]

VARIABLES
    command,         \* what the player thread asks of the TCP thread, or does, next
    pending,         \* the command is in the pipe or being served
    collected,       \* the player thread has taken the permit that answers it
    round_number, curr_lewa_nbr, led, laid,  \* the monitor, as the seat sees it
    hand, was_card_played,                   \* the server's Player
    tcp, revents,                            \* the TCP thread and what its poll() saw
    client, my_hand, my_played, curr_lewa_id, got,  \* the client
    to_client, to_server,                    \* the connection
    late, junk, lost                         \* what has gone wrong so far

thread == <<command, pending, collected>>
game == <<round_number, curr_lewa_nbr, led, laid>>
player == <<hand, was_card_played>>
conn == <<tcp, revents>>
clientVars == <<client, my_hand, my_played, curr_lewa_id, got>>
trouble == <<late, junk, lost>>
vars == <<thread, game, player, conn, clientVars, to_client, to_server, trouble>>

Commands == {"DEAL", "TRICK", "TAKEN", "SCORE", "TOTAL", "END"}

(***************************************************************************)
(* Messages.  Of the cards on the table the seat needs the suit that was   *)
(* led, and of a finished trick its own card.                              *)
(***************************************************************************)
Message(name, id, suit, cards) == [name |-> name, id |-> id, led |-> suit, cards |-> cards]
Deal(h) == Message("DEAL", 0, NONE_SUIT, h)
Trick(id, suit) == Message("TRICK", id, suit, {})
Answer(id, cards) == Message("TRICK", id, NONE_SUIT, cards)
Taken(id, card) == Message("TAKEN", id, NONE_SUIT, {card})
Wrong(id) == Message("WRONG", id, NONE_SUIT, {})
Plain(name) == Message(name, 0, NONE_SUIT, {})

(***************************************************************************)
(* determine_lewa_id: the reader takes as many digits as its own trick id  *)
(* has.  With another number of digits the cards that follow do not parse  *)
(* and the reader throws (OtherLengthRejected of Wire).                    *)
(***************************************************************************)
Readable(id, readers_id) == (id >= TwoDigits) = (readers_id >= TwoDigits)

Init ==
    /\ command = "DEAL" /\ pending = FALSE /\ collected = TRUE
    /\ round_number = 1 /\ curr_lewa_nbr = 1 /\ led \in Led /\ laid = << >>
    /\ hand = Hands[1] /\ was_card_played = {}
    /\ tcp = "poll" /\ revents = FALSE
    /\ client = "playing" /\ my_hand = {} /\ my_played = {}
    /\ curr_lewa_id = 1 /\ got = {}
    /\ to_client = << >> /\ to_server = << >>
    /\ late = 0 /\ junk = 0 /\ lost = 0

-----------------------------------------------------------------------------
(* The player thread, and the rest of the table.                           *)

(***************************************************************************)
(* The command goes into the pipe; before TRICK the seats that come first  *)
(* have laid their cards.                                                  *)
(***************************************************************************)
SendCommand ==
    /\ command \in Commands /\ ~pending /\ collected
    /\ pending' = TRUE
    /\ IF command = "TRICK" THEN led' \in Led ELSE UNCHANGED led
    /\ UNCHANGED <<command, collected, round_number, curr_lewa_nbr, laid, player, conn,
                   clientVars, to_client, to_server, trouble>>

(***************************************************************************)
(* semaphore_TCP is acquired and thread_ended is still false: the command  *)
(* was served, or the replacement has been told everything and the command *)
(* is written to the pipe again.                                           *)
(***************************************************************************)
Collect ==
    /\ ~collected /\ tcp # "none"
    /\ collected' = TRUE
    /\ UNCHANGED <<command, pending, game, player, conn, clientVars, to_client,
                   to_server, trouble>>

(***************************************************************************)
(* Otherwise thread_ended is true although the permit was for a command    *)
(* that was served, or for a resend that was complete.                     *)
(***************************************************************************)
HandedOff == ~collected /\ tcp = "none"

(***************************************************************************)
(* prepare_new_lewa, called first by some seat, and check_if_round_finished *)
(***************************************************************************)
PrepareNewLewa ==
    /\ command = "newlewa" /\ collected
    /\ curr_lewa_nbr' = curr_lewa_nbr + 1
    /\ command' \in (IF curr_lewa_nbr < NumTricks THEN {"TRICK", "SCORE"} ELSE {"SCORE"})
    /\ UNCHANGED <<pending, collected, round_number, led, laid, player, conn, clientVars,
                   to_client, to_server, trouble>>

(* Mutant: the last round is not recognised as the last.                   *)
PrepareNewRound_PastLast ==
    /\ command = "nextround" /\ collected /\ round_number <= Len(Hands)
    /\ curr_lewa_nbr <= NumTricks
    /\ round_number' = round_number + 1
    /\ curr_lewa_nbr' = 1
    /\ laid' = << >>
    /\ command' = "DEAL"
    /\ UNCHANGED <<conn, pending, collected, led, player, clientVars, to_client,
                   to_server, trouble>>

(***************************************************************************)
(* prepare_new_round throws after a round of all the tricks, which ends    *)
(* the process and with it the connection.                                 *)
(***************************************************************************)
PrepareNewRound ==
    /\ command = "nextround" /\ collected /\ round_number < Len(Hands)
    /\ IF curr_lewa_nbr <= NumTricks
       THEN /\ round_number' = round_number + 1
            /\ curr_lewa_nbr' = 1
            /\ laid' = << >>
            /\ command' = "DEAL"
            /\ UNCHANGED conn
       ELSE /\ command' = "aborted"
            /\ tcp' = "none"
            /\ UNCHANGED <<round_number, curr_lewa_nbr, laid, revents>>
    /\ UNCHANGED <<pending, collected, led, player, clientVars, to_client, to_server,
                   trouble>>

LastRoundOver ==
    /\ command = "nextround" /\ collected /\ round_number = Len(Hands)
    /\ command' = "END"
    /\ UNCHANGED <<pending, collected, game, player, conn, clientVars, to_client,
                   to_server, trouble>>

(***************************************************************************)
(* The player thread finds that its TCP thread has ended, and a client     *)
(* that comes is given a new connection, a new TCP thread and the command  *)
(* again.  DEAL and the TAKENs are resent first.                           *)
(***************************************************************************)
Replace ==
    /\ tcp = "none" /\ pending /\ collected /\ command \in Commands \ {"END"}
    /\ tcp' = "resend" /\ revents' = FALSE
    /\ client' = "playing" /\ my_hand' = {} /\ my_played' = {}
    /\ curr_lewa_id' = 1 /\ got' = {}
    /\ to_client' = << >> /\ to_server' = << >>
    /\ UNCHANGED <<thread, game, player, trouble>>

(***************************************************************************)
(* After END any permit will do: nobody is waited for.                     *)
(***************************************************************************)
EndUnserved ==
    /\ tcp = "none" /\ pending /\ command = "END"
    /\ command' = "over" /\ pending' = FALSE
    /\ UNCHANGED <<collected, game, player, conn, clientVars, to_client, to_server,
                   trouble>>

-----------------------------------------------------------------------------
(* The TCP thread.                                                         *)

SocketReadable == to_server # << >>

(* Mutant: the socket is read after every command, whatever poll() saw.    *)
Served_ReadsAlways(seen, next) ==
    /\ pending' = FALSE /\ collected' = FALSE
    /\ command' = next
    /\ tcp' = "unasked"

(***************************************************************************)
(* The command is served and semaphore_TCP released; what poll() saw on    *)
(* the socket comes next.                                                  *)
(***************************************************************************)
Served(seen, next) ==
    /\ pending' = FALSE /\ collected' = FALSE
    /\ command' = next
    /\ tcp' = IF seen THEN "unasked" ELSE "poll"

(***************************************************************************)
(* The thread ends and the socket is closed, with what was unread.         *)
(***************************************************************************)
Disconnect ==
    /\ tcp' = "none"
    /\ to_server' = << >>

Told(c) == tcp = "poll" /\ pending /\ collected /\ command = c

Tell(name, msg, next) ==
    /\ Told(name)
    /\ to_client' = Append(to_client, msg)
    /\ Served(SocketReadable, next)
    /\ UNCHANGED <<revents, game, clientVars, to_server, trouble>>

(* Mutant: the marks of the last round stay on the server's copy.          *)
HandleDeal_KeepsMarks ==
    /\ Tell("DEAL", Deal(Hands[round_number]), "TRICK")
    /\ hand' = Hands[round_number]
    /\ UNCHANGED was_card_played

HandleDeal ==
    /\ Tell("DEAL", Deal(Hands[round_number]), "TRICK")
    /\ hand' = Hands[round_number]
    /\ was_card_played' = {}

HandleTaken ==
    /\ Tell("TAKEN", Taken(curr_lewa_nbr, laid[curr_lewa_nbr]), "newlewa")
    /\ UNCHANGED player

HandleScore == Tell("SCORE", Plain("SCORE"), "TOTAL") /\ UNCHANGED player

HandleTotal == Tell("TOTAL", Plain("TOTAL"), "nextround") /\ UNCHANGED player

HandleEnd ==
    /\ Told("END")
    /\ command' = "over" /\ pending' = FALSE
    /\ tcp' = "none"
    /\ UNCHANGED <<collected, revents, game, player, clientVars, to_client, to_server,
                   trouble>>

Ask == Trick(curr_lewa_nbr, led)

AskForCard ==
    /\ Told("TRICK")
    /\ to_client' = Append(to_client, Ask)
    /\ tcp' = "TRICK" /\ revents' = SocketReadable
    /\ UNCHANGED <<thread, game, player, clientVars, to_server, trouble>>

(***************************************************************************)
(* SO_RCVTIMEO ends the read and TRICK is written again.  It surely ends   *)
(* when the client has nothing left to read and will send nothing; a       *)
(* client that still has something to read is late.                        *)
(***************************************************************************)
TimeOutCounted == IF to_client = << >> THEN late' = late
                  ELSE late < MaxLate /\ late' = late + 1

TimeoutInTrick ==
    /\ tcp = "TRICK" /\ ~SocketReadable /\ client = "playing"
    /\ TimeOutCounted
    /\ to_client' = Append(to_client, Ask)
    /\ UNCHANGED <<thread, game, player, conn, clientVars, to_server, junk, lost>>

Parsed(msg) == msg.name = "TRICK" /\ Readable(msg.id, curr_lewa_nbr)

Acceptable(msg) ==
    \E card \in msg.cards :
        /\ msg.cards = {card}
        /\ CardCorrect(hand \ was_card_played, card,
                       IF led = NONE_SUIT THEN card.suit ELSE led)

(* Mutant: the card is not marked in the server's copy of the hand.        *)
AcceptCard_NotMarked ==
    /\ tcp = "TRICK" /\ SocketReadable
    /\ Parsed(Head(to_server)) /\ Acceptable(Head(to_server))
    /\ \E card \in Head(to_server).cards : laid' = Append(laid, card)
    /\ to_server' = Tail(to_server)
    /\ Served(revents, "TAKEN")
    /\ UNCHANGED <<revents, round_number, curr_lewa_nbr, led, player, clientVars,
                   to_client, trouble>>

(***************************************************************************)
(* The id in the answer is not compared with the current trick's.          *)
(***************************************************************************)
AcceptCard ==
    /\ tcp = "TRICK" /\ SocketReadable
    /\ Parsed(Head(to_server)) /\ Acceptable(Head(to_server))
    /\ \E card \in Head(to_server).cards :
        /\ laid' = Append(laid, card)
        /\ was_card_played' = was_card_played \cup {card}
    /\ to_server' = Tail(to_server)
    /\ Served(revents, "TAKEN")
    /\ UNCHANGED <<revents, round_number, curr_lewa_nbr, led, hand, clientVars,
                   to_client, trouble>>

RefuseCard ==
    /\ tcp = "TRICK" /\ SocketReadable
    /\ Parsed(Head(to_server)) /\ ~Acceptable(Head(to_server))
    /\ to_client' = to_client \o <<Wrong(curr_lewa_nbr), Ask>>
    /\ to_server' = Tail(to_server)
    /\ UNCHANGED <<thread, game, player, conn, clientVars, trouble>>

(***************************************************************************)
(* handle_player_msg_at_wrong_time.  A message that parses is answered     *)
(* with WRONG; the Lewa for it is built outside the try, and cannot be     *)
(* after the last trick, which ends the process.                           *)
(***************************************************************************)
AnswerUnasked ==
    /\ tcp = "unasked" /\ SocketReadable /\ Parsed(Head(to_server))
    /\ to_server' = Tail(to_server)
    /\ IF curr_lewa_nbr <= NumTricks
       THEN /\ to_client' = Append(to_client, Wrong(curr_lewa_nbr))
            /\ tcp' = "poll"
            /\ UNCHANGED command
       ELSE /\ command' = "aborted"
            /\ tcp' = "none"
            /\ UNCHANGED to_client
    /\ UNCHANGED <<pending, collected, revents, game, player, clientVars, trouble>>

(***************************************************************************)
(* A message that does not parse costs the client its seat.                *)
(***************************************************************************)
RejectMessage ==
    /\ tcp \in {"TRICK", "unasked"} /\ SocketReadable /\ ~Parsed(Head(to_server))
    /\ Disconnect
    /\ UNCHANGED <<thread, revents, game, player, clientVars, to_client, trouble>>

(***************************************************************************)
(* Nothing is there to be read any more: the reads time out, and the       *)
(* thread takes that for an error.                                         *)
(***************************************************************************)
UnaskedTimesOut ==
    /\ tcp = "unasked" /\ ~SocketReadable /\ client = "playing"
    /\ TimeOutCounted
    /\ Disconnect
    /\ UNCHANGED <<thread, revents, game, player, clientVars, to_client, junk, lost>>

PollSocket ==
    /\ tcp = "poll" /\ ~(pending /\ collected) /\ SocketReadable
    /\ tcp' = "unasked"
    /\ UNCHANGED <<thread, revents, game, player, clientVars, to_client,
                   to_server, trouble>>

(* Mutant: a replacement is sent the deal only.                            *)
Resend_NoTaken ==
    /\ tcp = "resend"
    /\ to_client' = <<Deal(hand)>>
    /\ tcp' = "poll" /\ collected' = FALSE
    /\ UNCHANGED <<command, pending, revents, game, player, clientVars, to_server,
                   trouble>>

Resend ==
    /\ tcp = "resend"
    /\ to_client' = <<Deal(hand)>> \o [i \in 1 .. curr_lewa_nbr - 1 |-> Taken(i, laid[i])]
    /\ tcp' = "poll" /\ collected' = FALSE
    /\ UNCHANGED <<command, pending, revents, game, player, clientVars, to_server,
                   trouble>>

(***************************************************************************)
(* Reading the end of the stream or writing to a closed socket.            *)
(***************************************************************************)
NoticeLoss ==
    /\ tcp # "none" /\ client # "playing"
    /\ Disconnect
    /\ UNCHANGED <<thread, revents, game, player, clientVars, to_client, trouble>>

-----------------------------------------------------------------------------
(* The client.                                                             *)

Received(name) ==
    client = "playing" /\ to_client # << >> /\ Head(to_client).name = name

Read(name) == /\ Received(name)
              /\ to_client' = Tail(to_client)
              /\ UNCHANGED <<thread, game, player, conn, trouble>>

(* Mutant: the client goes on counting the tricks over a new deal.         *)
ReadDeal_KeepsCount ==
    /\ Read("DEAL")
    /\ my_hand' = Head(to_client).cards
    /\ my_played' = {}
    /\ got' = {}
    /\ UNCHANGED <<client, curr_lewa_id, to_server>>

(* Mutant: the marks of the last hand stay on the new one.                 *)
ReadDeal_KeepsPlayed ==
    /\ Read("DEAL")
    /\ my_hand' = Head(to_client).cards
    /\ curr_lewa_id' = 1
    /\ got' = {}
    /\ UNCHANGED <<client, my_played, to_server>>

ReadDeal ==
    /\ Read("DEAL")
    /\ my_hand' = Head(to_client).cards
    /\ my_played' = {}
    /\ curr_lewa_id' = 1
    /\ got' = {}
    /\ UNCHANGED <<client, to_server>>

MyLeft == my_hand \ my_played

(***************************************************************************)
(* Every TRICK is answered with another card, which is marked at once.     *)
(* When no card is left, or the message does not parse, the exception is   *)
(* caught and nothing is sent.                                             *)
(***************************************************************************)
ReadTrick ==
    /\ Read("TRICK")
    /\ LET msg == Head(to_client)
           card == AutoCard(MyLeft, msg.led)
       IN IF Readable(msg.id, curr_lewa_id) /\ MyLeft # {}
          THEN /\ my_played' = my_played \cup {card}
               /\ to_server' = Append(to_server, Answer(msg.id, {card}))
          ELSE UNCHANGED <<my_played, to_server>>
    /\ UNCHANGED <<client, my_hand, curr_lewa_id, got>>

(* Mutant: the card of the trick is not marked.                            *)
ReadTaken_NotMarked ==
    /\ Read("TAKEN")
    /\ IF Readable(Head(to_client).id, curr_lewa_id)
       THEN curr_lewa_id' = curr_lewa_id + 1
       ELSE UNCHANGED curr_lewa_id
    /\ UNCHANGED <<client, my_hand, my_played, got, to_server>>

ReadTaken ==
    /\ Read("TAKEN")
    /\ IF Readable(Head(to_client).id, curr_lewa_id)
       THEN /\ my_played' = my_played \cup (Head(to_client).cards \cap my_hand)
            /\ curr_lewa_id' = curr_lewa_id + 1
       ELSE UNCHANGED <<my_played, curr_lewa_id>>
    /\ UNCHANGED <<client, my_hand, got, to_server>>

(***************************************************************************)
(* WRONG is read outside the try: after the last trick no Lewa can be      *)
(* built, and an id shorter than the client's own does not parse.          *)
(***************************************************************************)
ReadWrong ==
    /\ Read("WRONG")
    /\ client' = IF \/ curr_lewa_id > NumTricks
                    \/ curr_lewa_id >= TwoDigits /\ Head(to_client).id < TwoDigits
                 THEN "failed" ELSE client
    /\ UNCHANGED <<my_hand, my_played, curr_lewa_id, got, to_server>>

ReadPoints ==
    /\ Read("SCORE") \/ Read("TOTAL")
    /\ got' = got \cup {Head(to_client).name}
    /\ UNCHANGED <<client, my_hand, my_played, curr_lewa_id, to_server>>

(***************************************************************************)
(* The server has closed the connection.                                   *)
(***************************************************************************)
ReadEnd ==
    /\ client = "playing" /\ tcp = "none" /\ to_client = << >>
    /\ client' = IF got = {"SCORE", "TOTAL"} THEN "finished" ELSE "failed"
    /\ UNCHANGED <<thread, game, player, conn, my_hand, my_played, curr_lewa_id,
                   got, to_client, to_server, trouble>>

(***************************************************************************)
(* A client that is not the program above: it sends a card of its hand or  *)
(* something else, unasked.                                                *)
(***************************************************************************)
SendJunk ==
    /\ client = "playing" /\ tcp # "none" /\ junk < MaxJunk
    /\ junk' = junk + 1
    /\ \E msg \in {Plain("OTHER"), Answer(curr_lewa_nbr, {}), Answer(TwoDigits, {})}
                    \cup {Answer(curr_lewa_id, {card}) : card \in my_hand} :
            to_server' = Append(to_server, msg)
    /\ UNCHANGED <<thread, game, player, conn, clientVars, to_client, late, lost>>

CloseClient ==
    /\ client = "playing" /\ tcp # "none" /\ lost < MaxLost
    /\ client' = "gone"
    /\ lost' = lost + 1
    /\ UNCHANGED <<thread, game, player, conn, my_hand, my_played, curr_lewa_id,
                   got, to_client, to_server, late, junk>>

-----------------------------------------------------------------------------
PlayerThread == \/ SendCommand \/ Collect \/ PrepareNewLewa \/ PrepareNewRound
                \/ LastRoundOver \/ EndUnserved

TCPThread ==
    \/ HandleDeal \/ HandleTaken \/ HandleScore \/ HandleTotal \/ HandleEnd
    \/ AskForCard \/ AcceptCard \/ RefuseCard \/ AnswerUnasked \/ RejectMessage
    \/ PollSocket \/ Resend \/ NoticeLoss

TimeoutFires == TimeoutInTrick \/ UnaskedTimesOut

Client == \/ ReadDeal \/ ReadTrick \/ ReadTaken \/ ReadWrong \/ ReadPoints
          \/ ReadEnd

(***************************************************************************)
(* The game is over for the server, and for the client that sat here last; *)
(* or the seat is followed no further.                                     *)
(***************************************************************************)
Stopped ==
    /\ command \in {"over", "aborted"} \/ HandedOff
    /\ client # "playing"
    /\ UNCHANGED vars

Next ==
    \/ PlayerThread \/ TCPThread \/ TimeoutFires \/ Client \/ Replace
    \/ SendJunk \/ CloseClient
    \/ Stopped

Spec == Init /\ [][Next]_vars

(***************************************************************************)
(* The threads run, the client reads what it is sent, a read with nothing  *)
(* to come times out, and for an empty seat a client comes.  Nothing is    *)
(* ever late, closed or sent unasked by necessity.                         *)
(***************************************************************************)
Fairness ==
    /\ WF_vars(PlayerThread)
    /\ WF_vars(TCPThread)
    /\ WF_vars(Client)
    /\ WF_vars(TimeoutFires /\ late' = late)
    /\ WF_vars(Replace)

FairSpec == Spec /\ Fairness

-----------------------------------------------------------------------------
(***************************************************************************)
(* Every variable keeps its type.                                          *)
(***************************************************************************)
TypeOK ==
    /\ command \in Commands \cup {"newlewa", "nextround", "over", "aborted"}
    /\ {pending, collected, revents} \subseteq BOOLEAN
    /\ round_number \in DOMAIN Hands
    /\ curr_lewa_nbr \in 1 .. NumTricks + 1
    /\ led \in Led
    /\ laid \in Seq(Card)
    /\ hand \in SUBSET Card /\ was_card_played \in SUBSET Card
    /\ tcp \in {"none", "resend", "poll", "TRICK", "unasked"}
    /\ client \in {"playing", "gone", "finished", "failed"}
    /\ my_hand \in SUBSET Card /\ my_played \in SUBSET Card
    /\ curr_lewa_id \in Nat
    /\ got \in SUBSET {"SCORE", "TOTAL"}
    /\ late \in 0 .. MaxLate /\ junk \in 0 .. MaxJunk /\ lost \in 0 .. MaxLost

Prompt == late = 0 /\ junk = 0

(***************************************************************************)
(* As long as no client was late or sent anything unasked, a client that   *)
(* is about to answer TRICK has the same cards left as the server's copy   *)
(* of its hand, whichever clients were lost before it, up to HandedOff     *)
(* (ReadTrick, ReadTaken, Resend against AcceptCard and HandleDeal).       *)
(***************************************************************************)
HandsAgree == Prompt /\ Received("TRICK") => MyLeft = hand \ was_card_played

(***************************************************************************)
(* Until then the server never cuts off a client that did not close, and   *)
(* no client fails before the server is done: neither the stale result of  *)
(* poll() nor a WRONG outside the try is ever met.                         *)
(***************************************************************************)
PromptClientServed ==
    Prompt /\ (client = "failed" \/ (client = "playing" /\ tcp = "none"))
        => command \in {"over", "aborted"}

(***************************************************************************)
(* Whatever is late, lost or sent unasked, up to HandedOff, the client's   *)
(* own count of the tricks, by which it decides how many digits an id has, *)
(* is the id of every TRICK and TAKEN by the time it reads it.             *)
(***************************************************************************)
ClientCountsTricks ==
    client = "playing" =>
        \A i \in DOMAIN to_client :
            to_client[i].name \in {"TRICK", "TAKEN"} =>
                LET named(name) == {k \in 1 .. i - 1 : to_client[k].name = name}
                    start == IF named("DEAL") = {} THEN curr_lewa_id ELSE 1
                    since == {k \in named("TAKEN") : \A d \in named("DEAL") : d < k}
                IN to_client[i].id = start + Cardinality(since)

(***************************************************************************)
(* Whatever is late, lost or sent unasked, up to HandedOff, every card the *)
(* server has marked as played is marked by the client too, or lies on the *)
(* table, or is in a TAKEN on its way: the client never offers a card      *)
(* again that was accepted.                                                *)
(***************************************************************************)
MarksReachClient ==
    LET deals == {k \in DOMAIN to_client : to_client[k].name = "DEAL"}
        on_its_way == UNION {to_client[k].cards : k \in
            {n \in DOMAIN to_client : /\ to_client[n].name = "TAKEN"
                                      /\ \A d \in deals : d < n}}
        on_table == {laid[i] : i \in {n \in DOMAIN laid : n = curr_lewa_nbr}}
    IN client = "playing" /\ tcp \notin {"none", "resend"} /\ command # "DEAL" =>
        was_card_played \subseteq
            (IF deals = {} THEN my_played ELSE {}) \cup on_its_way \cup on_table

(***************************************************************************)
(* The seat's game goes on to its end, with a replacement for every client *)
(* lost, unless one is lost between served and collected (HandedOff), was  *)
(* late or sent something unasked (a late client's surplus answer costs it *)
(* a card, and one day it has none to answer TRICK with).                  *)
(***************************************************************************)
SeatFinishes == <>(command \in {"over", "aborted"} \/ HandedOff \/ ~Prompt)

(***************************************************************************)
(* Hiding the connection and the client, the seat plays the game it is     *)
(* promised as far as this module follows it: TRICK repeated after a       *)
(* timeout, late answers, and TRICK again for a replacement whose          *)
(* predecessor was lost before the command was served, never make it lay   *)
(* two cards in a trick, a card twice, or one that does not follow suit.   *)
(* Excepted is what comes after HandedOff: a client lost between served    *)
(* and collected has TRICK repeated although its card is on the table, and *)
(* the code lets the seat lay a second one.                                *)
(***************************************************************************)
Seat == INSTANCE SeatGame
            WITH round <- round_number, tricks <- curr_lewa_nbr - 1

SeatSpec == Seat!Spec
=============================================================================
