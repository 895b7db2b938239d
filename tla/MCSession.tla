------------------------------ MODULE MCSession ------------------------------
(* Small instances of Session for TLC.                                       *)
EXTENDS Session, TLC

\* Nicknames by length: the shortest and the longest allowed, and a short one.
MCNickLen == [n \in Nick |-> CASE n = "alice" -> 5 [] n = "maximilian12" -> 12 [] OTHER -> 3]

Match(n)  == [version |-> "match", nick |-> n]
MCPlayers == {Match(n) : n \in Nick}
MCTyped   == MCPlayers \cup [version : {"differ", "oddsize"}, nick : {"alice"}]

\* The server is up before anybody connects.
WarmSpec == InitFrom("run") /\ [][Next]_vars

ConnSymmetry == Permutations(Conn)

=============================================================================
