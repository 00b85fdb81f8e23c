# A specification of kierki-serwer and kierki-klient

`src/` is a server and a client for *kierki* (hearts): four players, 13 tricks
("lewy") in a deal, seven kinds of deal, TCP, and a game that is suspended when a
client is lost until another one takes its seat. This directory holds TLA+ models of
the server's concurrency, of the conversation between a seat and its client, of the
messages' text and of the cards, the TLC runs that check them, and machine-checked proofs
(TLAPS) that the properties of the server, of a seat's conversation, of the cards and of
the text hold for every number of seats, rounds and tricks, every hand and every deck, and
every message.

## 1. The system and its parts

| Part | Code | State | Operations | Talks to | Hard because | Correct when | Here |
|---|---|---|---|---|---|---|---|
| Monitor `GameMaster` | `game_master.cpp` | seats taken, turn semaphores, trick, round, counters | ~35 methods under `mutex_gm` | every thread | one method takes a semaphore under the mutex; several are called once by every thread and must act once | one turn permit; rounds and tricks advance once | `GameMaster` |
| Player thread, one per seat | `player_threads.cpp` | its place in `thread_main`, pipe, `semaphore_TCP`, `thread_ended` | the loop of a round; recovery | monitor, barrier, its TCP thread | one barrier used at eight places; recovery in the middle of any of five exchanges | in step with the others; never asleep for ever | `SeatThreads` |
| TCP thread, one per connection | `TCP_threads.cpp`, `polls_func.cpp` | socket, `poll` results | seven commands; end on failure | player thread (pipe, semaphore, flag), monitor, client | failure between any two steps; a served command may still be waiting to be collected | every command is answered once; an honest client is not cut off | `SeatThreads`, `TrickExchange`, `Wire` |
| Resending | `resend_lib.cpp` | - | DEAL and TAKENs for a replacement | client | reads the monitor in mid-round | the replacement knows what it missed | `SeatThreads` (`Resync`), `TrickExchange` (`Resend`) |
| Main thread | `kierki-serwer.cpp` | the connection being served | IAM, BUSY, admission, exit | monitor, END pipe | check and update are separate critical sections; its return kills the others | one pair of threads per seat; exit after the last TOTAL | `KierkiServer` |
| `Player` | `player_class.cpp` | hand, points, socket | under `mutex_player` | TCP thread, monitor | handlers are repeated after a failure | hand and points follow the tricks | `Cards`, `CardPlay`, `SeatThreads` |
| Cards, tricks, decks | `card_classes.cpp` | marks on a hand | values, suits, trick ids | | limits (trick 13/14) | suits are followed, marks agree | `Cards`, `CardPlay`, trick id in `GameMaster` |
| Rounds, counters, points | `game_classes.cpp` | counters | end of a round, points | | equality tests on totals | a round ends when its points are dealt out | `CardPlay`, outline in `GameMaster` |
| TCP packets | `TCP_handler.cpp` | buffers | write, read to newline | sockets | short reads, full buffers, timeouts in the middle of a message | no buffer overrun; messages are not cut or joined | `Wire`; writes that fail in `SeatThreads` |
| Messages | `init_comm_wrappers.cpp`, `ingame_comm_wrappers.cpp` | - | encode, decode | TCP packets | the reader's own trick id says how many digits an id has | what is written is what is read | `Messages`, `Wire` |
| Game file | `read_file.cpp` | - | parse | main | | | not modelled (constants) |
| Client | `kierki-klient.cpp`, `klient_auto_lib.cpp` | hand, marks, its count of tricks | reads messages, answers TRICK | server | late and repeated TRICKs, cards marked before they are accepted | its card is accepted; it knows when the game is over | `TrickExchange`, `Wire`, `CardPlay` |
| Sockets, options, logs, errors | `socket_fd_handler.cpp`, `parameters_handling.cpp`, `common.cpp`, `err.cpp`, `exception_wrappers.cpp` | - | system calls, conversions | | | | conversions in `Messages`, the rest not modelled |

How they interact. The main thread admits a client (`add_new_player`) and starts the
seat's player thread, which starts its TCP thread. The player threads walk through a
round in step, meeting at `sync_barrier`. To talk to its client a player thread writes a
command into a pipe and acquires `semaphore_TCP`; the TCP thread reads the command,
exchanges messages, changes the monitor and its `Player`, and releases. When the client
is lost the TCP thread sets `thread_ended`, releases the same semaphore and ends; the
player thread then makes a new pipe, frees the seat, waits for `disconnected_sem`, which
the main thread releases when a replacement is admitted, starts a new TCP thread, which
resends the deal, and repeats the interrupted command. The last player thread to leave
writes END to the main thread, which returns.

The hazards, each at its line and with the properties that watch it, are listed in
`PROJECT.json`. The ones this design lives by are: the hand-off (one semaphore answers
both "served" and "gone"), the barrier (one object, eight places), the turn permit (three
ways of handing it on), the seat count (it also tells a newcomer from a replacement) and
handlers that run again for a replacement.

## 2. Modules

| Module | What it holds |
|---|---|
| `GameMaster` | the monitor: one operator per method of `gm::GameMaster`, each one atomic because it runs under `mutex_gm` |
| `SeatThreads` | the player thread and the TCP thread of every seat, and the failures; extends `GameMaster` |
| `KierkiServer` | the main thread, `Next`, fairness, the properties; extends `SeatThreads` |
| `Cards` | suits and values, which card may be laid, the automatic client's choice |
| `CardPlay` | the cards of a round: following suit, the taker, points, the end of a round; extends `Cards` |
| `TrickExchange` | one seat's TCP thread, its commands and its client, message by message; extends `Cards` |
| `SeatGame` | what a seat is promised: one card in each trick, no messages |
| `Messages` | the text of every message: what is written, and what is made of it |
| `Wire` | one direction of a connection, character by character; extends `Messages` |
| `TableGame` | what the players are promised: one game at a table, no threads |
| `MCKierkiServer`, `MCCardPlay`, `MCTrickExchange`, `MCWire` | values of the constants for TLC |
| `KierkiServerInv` | the inductive invariant of the server in layers: `IInv` (the threads), `OrderOfPlay`, `Ledger`, `Points`, `Departure`; together `GameInv` |
| `TrickExchangeInv` | the inductive invariant of the conversation in layers: `SeatInv`, `CountInv`, `MarksInv`, `PromptInv`; together `ExchangeInv` |
| `CardPlayInv` | the inductive invariant of the cards, `PlayInv` |
| `WireInv` | the inductive invariant of a connection's text: `PacketInv`, `Origin`, `StepInv`, `Lies`, `AnswersInv` |
| `KierkiThreadsProofs` | each conjunct of `IInv` is kept by every step: types, the hand-off, the barrier |
| `KierkiServerProofs` | the theorems that follow from `IInv`; the order of play, and that `KierkiServer` implements `TableGame` |
| `KierkiLedgerProofs` | hands, TAKENs, points, totals and the end of the process; `GameInv` |
| `TrickExchangeProofs` | `TrickExchange` implements `SeatGame`; its safety properties |
| `CardsProofs` | lemmas about the choice of a card |
| `CardPlayProofs` | `PlayInv`, and the safety properties of `CardPlay` |
| `MessagesProofs` | every text that is written is read back as the same message |
| `WireProofs` | a reader of such texts stays in step with them; the safety properties of `Wire` |

### How state and actions correspond to the code

* `loc[s]` is the statement of `thread_main` seat `s`'s player thread stands at, named
  after the command, barrier or call found there; `sub[s]` is its place inside
  `handle_btwn_thread_comm` and `handle_disconnection` (`ready`, `wait` for the permit,
  `recover`, `left` waiting for a replacement, `sync` waiting for the resend).
* `tcp[s]` is the place of the seat's TCP thread: polling, inside `handle_TRICK`,
  resending, or not there. Setting `thread_ended` and releasing are two steps, so
  `dying[s]` counts threads between the two.
* `main` is the place of the main thread in `handle_game_joining_request`; the check
  that a seat is free, the list sent with BUSY and the admission are separate steps, as
  they are separate critical sections.
* Every other action is a whole handler or method. A handler that computes, writes and
  releases is one step whose outcome is "served" or "the write failed"; the code before
  the write (points added, hand set) happens in both.
* `pos_taken_map[s]` also stands for the socket, which is stored with it and dropped just
  before it is cleared, while no TCP thread runs (`SocketInUse` is what makes this sound).
* `tcp[s] = "resync"` at the start of a new TCP thread stands for
  `player_was_disconnected`. `is_game_started` and `resend_TRICK_msg` are written and
  never read, and are left out. The loop bound `i < nbr_of_rounds` never decides while
  the threads are in step (`check_if_last_round` returns first) and is left out.
* `CardPlay` has one action for everything between two meetings of the player threads:
  `PlayCard` is an answer that `handle_TRICK` accepts, `TakeLewa` is `check_who_won_lewa`,
  `set_first_player_for_next_turn`, `count_cards`, the taker's `handle_TAKEN` and
  `prepare_new_lewa`, and `NewRound` is `prepare_new_round` with every seat's
  `handle_DEAL`. That these are not interleaved with each other is what `BarrierAligned`
  and `TableSpec` say of `KierkiServer`. `WhoseTurn` and `LewaId` are computed from the
  trick and the list of tricks; that the code's own variables follow them is again
  `KierkiServer`'s. A replacement's client is not a process: what it would know, had it
  been admitted now, is an operator on the tricks (`ClientMarked`).
* In `TrickExchange`, `command`, `pending` and `collected` are the player thread (the
  command it asks for, or the step it does itself, whether the TCP thread has it, and
  whether the last permit was collected: the release of the TCP thread and the test of
  `thread_ended` after the acquire are two steps, `Served` and `Collect`), `tcp` is the place
  of the TCP thread (`poll`, inside `TRICK`, in `handle_player_msg_at_wrong_time`
  (`unasked`), resending or ended) and `revents` what its `poll()` saw of the socket before
  the command. The client is `play_game`: `my_hand`, `my_played` (its marks),
  `curr_lewa_id` and `got` (`got_score`, `got_total`). The two directions of the connection
  are queues of messages. The other seats are the suit they led and the time they take.
* The server does not compare the id of an answer with the current trick's, and neither
  does `AcceptCard`; what matters is only whether it has as many digits (`Readable`).
* In `Wire` a character is its ASCII code; `name` and `buff` are what the reader has of the
  packet, `program` says which of the five readers it is, and `readings` keeps what was
  made of each packet. `stream` is everything written and not yet read, so that a read may
  time out with part of a message read and the rest still to come.
* `Messages` has one operator per `write` and `read`. `Rejected` is an error code or an
  exception; where callers treat them differently (`WRONG` in `play_game`, a deal without a
  newline in `klient_auto_main`), `Wire` tells them apart. The sets `IAMs` .. `TOTALs` are
  the messages the wrappers can be asked to write: every seat, id, list of cards and hand
  of thirteen, scores that a `uint8_t` below 255 holds and totals that a `uint32_t` does.
* Three variables are history: `tricks_won` (what TOTAL should say), and `announced` and
  `taken_seen` (what the seat's client was told).

### What is abstracted

In the server's modules a card on the table is the seat that laid it. Who takes a trick is
any seat, and a deal may be over after any trick and must be after the last: the code
computes both from cards, as `CardPlay` does. A trick is worth a point to its taker. The
exchange inside `handle_TRICK` (timeouts, refused cards, WRONG, the repeats) is one step
that ends with a legal card or with the loss of the client; `TrickExchange` has it message
by message and shows that this is what it comes to (`SeatSpec`). Messages are written
whole or not at all. A connection that brings no well formed IAM changes nothing.

In the code a finished trick keeps its taker (`player_who_took_lewa`), here it is
`who_won_lewa`. The two differ only for a trick that is put away undecided, which takes a
seat that runs ahead after `handoff`; `resend_TAKEN` would then throw.

`TrickExchange` has one seat, and follows it up to a client lost between "served" and
"collected" (`HandedOff`: the permit is there and the TCP thread has ended). The player
thread then repeats a command that was served, TRICK among them, and the seat can lay a
second card in the same trick: no property of this module speaks of what comes after. What
it does to the threads is in `KierkiServer` (`handoff`). A client lost at any other moment
is replaced, before END; while END waits to be served nobody is waited for
(`EndUnserved`). Messages arrive whole, and of the cards on the table a TRICK carries the
suit that was led. `Wire` has the characters, but no game: what is
written is any of a set of messages, the reader is at any trick, and the end of the stream
is left to the other modules.

### Failures

`Failures` says which kinds may happen, `MaxFaults` how often. They are told apart by the
code path: a write that throws (one kind per message), a client that closes while its TCP
thread polls (`idle`, or `handoff` if a served command has not been collected yet), inside
TRICK (`trick`), a failed read of the packet name (`reset`), SIGPIPE, an unsolicited TRICK
when the id cannot be put in a WRONG, a WRONG that cannot be written. The server recovers
from the kinds in `PromptFailures` without harm.

## 3. Properties

Safety of the threads (definitions and comments in `KierkiServer`):
`TurnToken` one turn permit; `BarrierAligned` no thread waits at another barrier place;
`NewRoundSafe` the acquire under `mutex_gm` never waits and a next round exists;
`SpawnOnce` one pair of threads per seat; `ReplacementAwaited` the replacement semaphore
is binary and awaited; `SocketInUse` no socket is dropped under a thread; `NoLostWakeup`
no player thread sleeps with nobody to wake it; `SemaphoreTCPBinary`; `HandMatchesTricks`;
`OneTakenPerTrick` a client is told of the finished tricks in order and without a gap; `ScoreTruthful`, `TotalTruthful`; `ExitAfterTotals`.

Safety of the cards (in `CardPlay`):
`NoRevoke` nobody gets away with not following suit; `TakerHighest` the right seat takes;
`PointsByRules` a seat pays what the repository's README charges for its tricks;
`RoundOverWhenDealtOut` a round is cut short exactly when its points are given out;
`ReplacementKnowsHand` DEAL and the TAKENs tell a newcomer the server's copy of the hand;
`AutoPlayAccepted` the automatic client always has a card that the server accepts.

Safety of a seat's conversation (in `TrickExchange`), up to a client lost between "served"
and "collected" (`HandedOff`): whatever is late, lost or sent unasked, `ClientCountsTricks` the client's own count is the id of the next TRICK and TAKEN
when it reads it (otherwise ids of another length would be misread) and `MarksReachClient`
every card the server accepted is marked by the client, or its TAKEN is on its way. As long
as no client was late and nothing was sent unasked (`Prompt`), whichever clients were lost,
`HandsAgree` client and server have the same cards left at each TRICK, and
`PromptClientServed` no client is cut off or fails before the end.

The last two have to be conditional, and so watch only one side of the hazards they are
named for. A late client has answered twice: its second answer costs it a
card (it marks what it sends), and one day it has no card for a TRICK, which the server
then repeats for ever. And a message that came before a command and is consumed by it (an
answer that came early) makes the TCP thread read a socket with nothing to read, whose
timeout ends the connection. Nor does a prompt client ever meet a WRONG: the ones that end
a late client or the server (`ReadWrong`, `AnswerUnasked`) are what the code does, and no
property denies them.

Safety of the text (in `Wire`): `EndCharsFit` the end characters that are put behind every
packet stay inside its buffer; `ReadAsWritten` whatever is written is read as that, at
every edge of the formats, and the next message from its first character;
`OtherLengthRejected` an id of another length is not taken for another id;
`TakesOnlyWritten` whatever times out in the middle of a message, and whatever else a
client writes, the answers the server takes are messages the client wrote, in that order.

Refinement: `SeatSpec`. Hiding the connection and the client, a seat plays `SeatGame`: it
is dealt a hand and lays one card of it in each trick, never twice the same, following
suit, up to `HandedOff`, after which the code does not keep to that. And `TableSpec`: hiding threads, pipes, semaphores and lost clients, the server
plays `TableGame`: the seats follow the leader clockwise, each once per trick, the taker
leads the next one, and rounds open in order with their starters.

Liveness: `GameEnds` and `SeatResumes` of the server, and `SeatFinishes`: with a prompt
client the game of a seat goes on to its end (or to `HandedOff`), under the fairness below.

## 4. Runs

| Run | Instance | Checks | States |
|---|---|---|---|
| `server_table` | 4 seats, 1 round, 2 tricks, no failure | `TurnToken`, `TableSpec` | 463,360 |
| `server_recover` | 2 seats, 2 rounds, 2 tricks, 2 recoverable failures | `TypeOK`, `GameInv` and the safety properties, `TableSpec` | 294,803 |
| `server_chaos` | 2 seats, 2 rounds, 2 tricks, 1 failure of any kind | `TurnToken`, `ReplacementAwaited`, `SocketInUse` | 560,055 |
| `server_live` | 2 seats, 1 round, 2 tricks, 2 recoverable failures, fair | `GameEnds`, `SeatResumes` | 102,325 |
| `cards` | 3 seats, 3 tricks, 9 cards, 420 deals of every kind, a second round | the seven properties of `CardPlay` | 229,372 |
| `exchange` | 1 seat, 2 rounds, 3 tricks (the third with a longer id), 2 suits; 1 late answer, 1 unasked message, 1 lost client | the seven properties of `TrickExchange`, `ExchangeInv` | 1,780,852 |
| `messages` | 2 or 3 messages in a row, at the edges of their formats, readers at tricks 1, 9, 10, 13, 14; 2 timeouts | the five properties of `Wire` | 1,446,268 |
| `abort` | no failure | `NoAbort`, violated | |
| `reset` | one failed read in TRICK | `NoLostWakeup`, violated | |
| `handoff` | one client lost at the hand-off | `NoTakenTwice`, violated | |
| `score` | one SCORE that cannot be written | `TotalTruthful`, violated | |
| `deal` | one idle client lost | `DealNamesStarter`, violated | |

Bounds. Two seats already give every interleaving of a seat with another one that is
ahead, behind or recovering; two tricks give a first, a middle and a last one, and a round
that ends early or with the last trick; two rounds give one that is followed by another
and a last one. Two failures let a second client be lost while the first seat recovers,
and one seat lose its client again while it is brought up to date. `server_table` has the
four seats of the code. What the failure-free parts of larger instances add is covered by
the proofs, which bound nothing. `MCStarter` gives the two rounds different starters.

In `cards` three suits of jack, queen and king have every kind of card that is counted
together with ones that are not (for instance any jack in a round of queens); three tricks
have a middle one that stands for the seventh and let a revoke show a trick later; seat 0
has a hand of one, two or three suits, and the other six cards are dealt in all 20 ways. A
round of full length is not followed by another (the exception of `abort`), and one that
is cut short is. With the code's own constants a round of the last kind gives out
13 + 13 + 20 + 16 + 18 + 20 = 100 points, far from the limits of `uint8_t`.

In `exchange` the two hands share cards, so that a mark left over from the first round, or
a card of it still on its way, would do harm in the second; one hand has two cards of a
suit, so that following it leaves a choice. One late answer, one unasked message and one
lost client meet in every order (a replacement may be the one that is late). Ids become
longer at the third trick instead of the tenth.

In `messages` the texts are the shortest and the longest of each kind: hands with thirteen
cards of one suit and with all the tens, tricks with none, one and three cards, scores of
0, 254 and ten digits, ids on both sides of 9 / 10. A second message follows each, because
a reader that takes too little or too much of one is only seen in the next. What clients
may send besides are parts of an answer, ends of lines without text, text without an end,
five cards, and WRONG, once each before or after an answer: two such pieces may well make
an answer. Two timeouts may cut any read of the server.

The passing runs check deadlock too, except `messages`, whose reader may wait for ever
when nothing more is written: a state in which the process runs and nothing can
step would be reported. The process may end, and then stays ended (`Stopped`).

Two properties are not claimed in every run. In `server_chaos` `BarrierAligned` and the
properties of the hand-off do not hold, because `handoff` and `reset` really break them
(see below); what survives every failure is what is checked there.

Fairness (`Fairness`). Threads that can run do run (the kernel); a client asked for a card
answers in the end, or is lost; and for an empty seat a client keeps coming and is not
passed over for ever by clients that ask for taken seats (strong fairness, since the main
thread leaves `idle` for those again and again). Failures are never due. Nothing else is
assumed; without the third the game may wait for a replacement for ever, as the
repository's README intends. In `TrickExchange` it is the same: the player and the TCP
thread run, the client reads what it is sent, a client comes to an empty seat, and a read
times out when nothing is to come (the socket's `SO_RCVTIMEO`); a timeout that outruns a
client with something to do is never due, nor is a loss or an unasked message.

### What the violated runs show

1. `abort` - a round played to its last trick and followed by another ends the process:
   `prepare_new_round` reads an id that `get_lewa_id` refuses. For this reason `GameEnds`
   counts an abort as an end.
2. `reset` - a read error in TRICK ends the TCP thread silently; the seat and then the
   table stand still.
3. `handoff` - a client lost between "served" and "collected" makes the command be served
   twice, and the release of the ended thread comes on top: from then on the seat's player
   thread takes each permit for the answer to its next command and is one ahead of its TCP
   thread. TLC's trace loses the client of a served DEAL. The player thread then passes the
   barrier after TAKEN with its TAKEN unread in the pipe, another seat puts the trick away,
   and that TAKEN is written from the empty trick 2 (with points for it again, if the seat
   took the first); at the end of trick 2 TAKEN 2 is written once more. The client is told
   of trick 2 twice and of trick 1 never (`NoTakenTwice`). Where the same happens before
   anybody has taken a trick, TAKEN cannot be written and the client is cut off
   (`TakenThrows`).
4. `score` - the points of a round are added again when SCORE is repeated.
5. `deal` - the DEAL for a replacement names the last taker, not the seat that opened.

`PROJECT.json` ("findings") quotes the sentence of the repository each contradicts.

## 5. Proofs

Every safety property and both refinements of the server, of the conversation, of the cards
and of the text are proved, for arbitrary constants; the only assumptions on constants are
the named ones in the modules that declare them, and, where a theorem says so, on the kinds
of failure and on what else a client writes. Four invariants carry the proofs, one for
each. TLC checks the first two in `server_recover` and `exchange`. The other two are not
listed in a run: `PlayInv` held in every state of `cards` too, and the invariant of the
text, which is slow to evaluate, on parts of the instance of `messages` (89,850 states in
step with what is written, 36,536 with other text that has no T).

### The server: `GameInv` (`KierkiServerInv`)

The theorems assume `Failures \subseteq RecoverableKinds` (every kind but `handoff` and
`reset`, whose runs show that they must be left out), and those about points `Failures
\subseteq PromptKinds` (neither a TAKEN nor a SCORE that cannot be written; `score` shows
the second). How often they happen is not bounded. The invariant comes in layers, each
inductive with the ones before it:

* `IInv`, the threads (`Invariance`). `Handoff` says, for each seat, which combinations of
  pipe, permits, flag, TCP thread and place of the player thread occur: the command is
  unread, being served, served, or its thread is lost. From it follow `NoLostWakeup`,
  `SemaphoreTCPBinary` and half of `SocketInUse`. `Lockstep` says that all player threads
  are between the same two barriers, in one of ten phases, and what is known of the trick
  in each; from it follow `BarrierAligned` and `NewRoundSafe`. In the phase `Playing` it
  ties the cards on the table to the threads that have played, each once; that the trick
  is full exactly when all have played is a pigeonhole argument (`FullTable`). `TurnToken`
  is nearly inductive; it needs from `Lockstep` that nobody plays while a new round opens,
  and from `TakerKnown` that the lead goes to a seat. `Admission` ties the count of
  players, the flags, the replacement semaphore and the threads together; it gives
  `SpawnOnce` and `ReplacementAwaited`, and needs `Lockstep` to know that the count only
  goes down when nobody can be started any more. `TypeOK` needs `Handoff` and `TakerKnown`
  where a value is read that is not always there.
* `OrderOfPlay` (`OrderKept`): the cards on the table go clockwise from the leader's,
  `whose_turn` is the seat after the last card, or still that card's seat until it has
  passed the turn on, and the trick's id is its number. With `IInv` it makes every step a
  step of `TableGame` or a stutter (`OneGameAtTheTable`: `Spec => TableSpec`).
* `Ledger` (`LedgerKept`): a seat's hand and what its client was told follow the tricks,
  with one more from the moment the command is served (`InHand`) and not from when its
  answer is collected. A client that has no connection is excepted, because its
  replacement is told everything again. That a TAKEN is only written when somebody has taken
  the trick (`TakerTold`: `TakenThrows` does not happen) needs `OrderOfPlay`. It gives `HandMatchesTricks` and
  `OneTakenPerTrick`.
* `Points` (`PointsKept`): the points of the round and of the game are the tricks taken,
  again from the moment the command is served. `ServedOnce` is why the writes of TAKEN and
  SCORE may not fail: a command that was read and not served would be run again. It gives
  `ScoreTruthful` and `TotalTruthful`.
* `Departure`: past TOTAL the round is over, the players present are those whose threads
  have not yet passed the last count, and END is written when there is none. It gives
  `ExitAfterTotals`.

### The conversation: `ExchangeInv` (`TrickExchangeInv`)

For any number of tricks and rounds, any hands and any number of late answers, unasked
messages and lost clients (`ExchangeAssumption`: the constants are what their names say),
as far as the module follows them, which is up to a client lost between "served" and
"collected":

* `SeatInv` says how many cards the seat has laid when each command is given (`InStep`),
  that the marks on the server's copy of the hand are exactly those cards (`MarksAreLaid`),
  and that a card is awaited only while TRICK is being served (`Asking`). Without
  `MarksAreLaid` a card could be laid twice; it is not inductive without `InStep`, because
  DEAL clears the marks and must then find no card laid. It is what
  `SeatGameImplemented` (`Spec => SeatSpec`) needs; the mapping is the identity but for
  `tricks`, which is `curr_lewa_nbr - 1`. Most steps of the connection and of the client
  are `Quiet`: they change neither the command nor the game, and are treated together.
* `CountInv` is about the messages under way: the id of each is what the client will have
  counted when it comes to it (one for each TAKEN since the last DEAL), and the server's
  trick is what it will have counted when it has read them all. It gives
  `ClientCountsTricks`.
* `MarksInv`: once everything under way is read, the client has the hand of the last DEAL
  and every mark of the server's copy, but for the card that was accepted and is not in a
  TAKEN yet. It gives `MarksReachClient`.
* `PromptInv`: until somebody is late or speaks unasked, TRICK is asked once and last, it
  has at most one answer, whose card will be accepted, and the client marks nothing but
  what it has laid or offers. With `AutoCardCorrect` (`CardsProofs`: the card chosen by
  `play_card` passes `check_card_correctness`) it gives `HandsAgree` and
  `PromptClientServed`.

### The cards: `PlayInv` (`CardPlayInv`, `CardPlayProofs`)

For any deck, any number of players, tricks and rounds. `SizesAssumption`,
`DeckAssumption` and `GamesAssumption` say that the deck is finite, has the figures and
hearts that the counters' totals speak of, and is dealt in equal hands, which is what the
repository's README lets the server assume of its game file (and with the 52 cards of the
code is a fact); `PointsAssumption`, that the most a round can cost a seat is below 255, is
100 in the code. The conjuncts are the story of the round: every card comes from the hand
of the seat whose turn it was (`InTurn`), no card is laid twice (`LaidOnce`), the marks are
the cards laid and one of each seat for each trick (`Marked`), `CardCounter` counts the
tricks and the cards in them (`Counted`), who did not follow suit had nothing of it left
(`Followed`), and what was charged is the price of the tricks taken (`PointsByRules`).

* `NoRevoke` and `TakerHighest` are read off. That the pass of `check_who_won_lewa` ends at
  the highest card of the suit is an induction over the positions of the trick.
* `PointsByRules`: the points charged for a trick, kind by kind, are the sum of its
  prices, and the price of a set of tricks is the sum of theirs because no card is in two.
* `RoundOverWhenDealtOut`: the points of all seats together are the price of the cards and
  tricks gone, so all is given out exactly when nothing that costs is left, which is what
  the counters compare with their totals. It needs that after the last trick every card is
  laid (`AllLaid`, a pigeonhole argument over the hands).
* `TypeOK`: the points of a seat are at most the price of everything.
* `ReplacementKnowsHand` and `AutoPlayAccepted`: the marks are the cards laid, and the
  client rebuilds them from the tricks; `AutoCardCorrect` does the rest.

Sums over sets and the pass over a trick are recursive functions. What is proved of them
is an induction over an interval of numbers, carried out with sets (`UpTo`: a set that has
0 and, below `n`, with a number its successor, has all of `0 .. n`), because the library's
induction theorem has a predicate as parameter. `PlayInv` does not mention the game file,
which never changes; the proof carries that beside it (`RoundInv`).

### The text: `TextFramed` and `Inv` (`MessagesProofs`, `WireInv`, `WireProofs`)

The theorems speak of any sequences of messages, any other text, readers at any trick and
any number of timeouts. `WireAssumption` says what is a sequence of messages in each
direction: a client that begins with IAM writes no second one, a client without a deal is
told BUSY or is dealt its hand first. The first is what `kierki-klient` does; a client that
begins with something else may write what it likes. The second is the order in
`kierki-serwer.cpp` and `thread_main`.

* `TextFramed`: for each of the eight messages, the text fits the buffer of its reader, ends
  with CR LF and has no LF before, and a reader that expects an id as long makes the same
  message of it. Its parts are the round trips of `MessagesProofs`: a card, a list of cards
  (a ten has three characters, so where a card begins depends on those before it), a hand
  (`HandInOrder`: no two cards have as many before them in the order of `operator<`, so
  each is listed once), ids and lists of seats and of numbers (`Numeral` and `Number`
  are inverse, whatever the number of digits). Buffers are computed by hand in
  `constants.h`; the proof is where the longest message of each kind is seen to fit.
* `PacketInv` and `Origin` say which parts of a packet are there at each place of a reader,
  and whose messages it reads. They give `TypeOK` and, with `EndFits` (for every buffer and
  each of the seven sizes), `EndCharsFit`, neither of which depends on what the text says.
* `StepInv`: until something times out or other text comes, what was read since the last
  packet and what is on its way are together the texts of the messages that come after the
  ones taken (`Place`), and the packet is no longer than the next of them (`Within`). With
  `TextFramed` the packet then ends exactly where its message does, which keeps the
  invariant and gives `ReadAsWritten`. `OtherLengthRejected` needs what each reader makes of
  an id that is longer or shorter than it expects: a digit is taken for part of a card or a
  card's for part of the id, and no card begins with what is left, but for the empty TRICK 4.
* `Lies`, in step or not: what was read since the last packet began and what is on its way
  is the end of what was written, and there is no CR LF inside it before its end.
  `AnswersInv`: the answers the server took are messages that were written, in their order,
  behind which it has read on. A packet taken for TRICK begins with the letters of the
  name. If no other text has a T, they are in a message of the client (IAM has none), at
  its beginning (a TRICK has one T), and the packet that begins there is that message. This
  gives `TakesOnlyWritten` wherever and however often reads time out.

`AnswersWereWritten` assumes `NoOtherT`: what else a client writes has no T in it. For a
client that writes only its messages, which is what `kierki-klient` does, it holds whatever
times out. Without it the property cannot hold for every text, as two pieces of other
text may make an answer; for single pieces that do contain the letters, before or after an
answer, `messages` checks it.

The proof also corrected the model: `Reading` was a CASE whose first arms overlapped the
others. TLC takes the first one that is true and so did what was meant, but TLA+ leaves the
choice open, and nothing could be proved of it. It now begins with the condition.

### What is only model-checked

* Liveness: `GameEnds`, `SeatResumes`, `SeatFinishes` (fairness and ENABLED are out of the
  prover's reach).
* `TakesOnlyWritten` for clients that write other text with a T in it (`messages`).
* `server_chaos`: what survives the failures outside `RecoverableKinds`.

## 6. What is not modelled, and the plan

Done: the server's threads, admission and exit, the abstract table game, the cards, the
conversation with a client, the messages and their reading; the inductive invariants of all
four and, from them, every safety property of theirs and both refinements.

Left: what survives the failures outside `RecoverableKinds` (the properties of
`server_chaos`) from a weaker `Handoff`.

Not modelled, and why:

* The game file reader (`read_file.cpp`). It runs once, before there is a thread or a
  socket; the repository's README lets it assume a correct file, and what it reads is a
  constant of every module here.
* Options, host names, addresses and sockets (`parameters_handling.cpp`, most of
  `common.cpp` and `socket_fd_handler.cpp`, the start of both `main`s): system calls before
  the first message, whose failure ends the program.
* Log lines: each handler prints what it read and wrote; no property speaks of that. (The
  semaphore that guards the output is never held over another wait.)
* `resend_TRICK`, `tests.cpp` and the `Makefile`: not part of the running system.

Three things seen on the way that no run shows. BUSY may list no seat, if the seat's client
is lost between `check_if_position_taken` and `get_taken_positions` and no other seat is
taken (`init_comm_wrappers.cpp:71` says this should never happen). A packet that fills its
buffer exactly may end with a lone LF (`IAMNX` LF is admitted as N). An answer that does
not parse costs the client its connection, where the repository's README has WRONG for a
wrong answer; only an answer that parses, with a card that may not be laid, gets WRONG.
