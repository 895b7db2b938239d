--------------------------- MODULE MCSessionLive ---------------------------
(***************************************************************************)
(* Session under fair scheduling, for TLC, from the moment the server is   *)
(* up: behaviours in which it stays up, with two players of different      *)
(* nicknames, and behaviours in which it is stopped, whose players use the *)
(* same one.                                                               *)
(***************************************************************************)
EXTENDS MCSession

VARIABLE stops   \* whether this behaviour's server may be told to stop

liveVars == <<vars, stops>>

LiveInit ==
    /\ stops \in BOOLEAN
    /\ InitFrom("run")

LiveNext ==
    /\ Next /\ stops' = stops
    /\ IF stops THEN \A c \in Conn : nickname'[c] \in {NoInfo, Match("alice")}
                ELSE mainPc' # "kick"

LiveSpec == LiveInit /\ [][LiveNext]_liveVars /\ Fairness
=============================================================================
