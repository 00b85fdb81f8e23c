----------------------------- MODULE TableGame -----------------------------
(***************************************************************************)
(* What the server promises the players, whatever threads it uses: one     *)
(* game at a table.  In a trick the leader lays a card and the others      *)
(* follow clockwise, one card each; when every seat has laid a card one of *)
(* them takes the trick and leads the next; a round opens with the seat    *)
(* the game file names.                                                    *)
(***************************************************************************)
EXTENDS Integers, Sequences

CONSTANTS NumSeats, NumRounds, NumTricks, Starter

VARIABLES
    leader,     \* the seat that leads the trick on the table
    table,      \* the seats that laid a card, in order
    taken,      \* takers of this round's tricks
    number      \* the round

vars == <<leader, table, taken, number>>

Players == 0 .. NumSeats - 1

Init == /\ leader = Starter[1]
        /\ table = << >>
        /\ taken = << >>
        /\ number = 1

Play(p) ==
    /\ Len(table) < NumSeats /\ Len(taken) < NumTricks
    /\ p = (leader + Len(table)) % NumSeats
    /\ table' = Append(table, p)
    /\ UNCHANGED <<leader, taken, number>>

Take(p) ==
    /\ Len(table) = NumSeats
    /\ taken' = Append(taken, p)
    /\ leader' = p
    /\ table' = << >>
    /\ UNCHANGED number

OpenRound ==
    /\ number < NumRounds
    /\ table = << >> /\ taken # << >>
    /\ number' = number + 1
    /\ leader' = Starter[number + 1]
    /\ taken' = << >>
    /\ UNCHANGED table

Next == OpenRound \/ \E p \in Players : Play(p) \/ Take(p)

Spec == Init /\ [][Next]_vars
=============================================================================
