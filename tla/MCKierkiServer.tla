--------------------------- MODULE MCKierkiServer ---------------------------
(***************************************************************************)
(* Instances of KierkiServer for TLC.                                      *)
(***************************************************************************)
EXTENDS KierkiServerInv

(***************************************************************************)
(* The last seat opens the first round and the first seat the others.      *)
(***************************************************************************)
MCStarter == [r \in 1 .. NumRounds |-> IF r = 1 THEN NumSeats - 1 ELSE 0]

NoFailures == {}

(***************************************************************************)
(* The failures the server recovers from: the client is lost while it is   *)
(* idle or in the middle of a message whose handler can be repeated.       *)
(***************************************************************************)
PromptFailures == {"idle", "deal", "trick", "total", "resync"}

AllFailures == FailureKinds

(***************************************************************************)
(* One kind alone, for the runs that show what it does to the server.      *)
(***************************************************************************)
IdleOnly == {"idle"}
ScoreOnly == {"score"}
ResetOnly == {"reset"}
HandoffOnly == {"handoff"}
=============================================================================
