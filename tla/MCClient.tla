------------------------------ MODULE MCClient ------------------------------
(***************************************************************************)
(* The client program around its game, for TLC: its threads from start to  *)
(* destruction (ClientLifecycle), the keyboard's way to a shortcut         *)
(* (InputRouting), and the map's editing and trying out (StudioPlay).  The *)
(* models share no state; a behaviour is about one of them, its `subject`, *)
(* and the others keep the state they start in.                            *)
(***************************************************************************)
EXTENDS ClientLifecycle, StudioPlay, InputRouting, TLC

VARIABLE subject

clientVars == <<subject, vars, inputVars, playVars>>

-----------------------------------------------------------------------------
\* Presses of each input; a behaviour has either two of the key or a mouse.
MCMaxPresses == [i \in {"ctrl", "key", "button"} |-> IF i = "key" THEN 2 ELSE 1]
KeyPresses == IF subject = "typing" THEN 2 ELSE 1
ButtonPresses == IF subject = "typing" THEN 0 ELSE 1

\* The addresses of bodies are interchangeable: one choice of the first ones.
ClientInit ==
    /\ subject \in {"threads", "typing", "clicking", "studio"}
    /\ addr = [p \in Parts |->
                 CASE p = "p" -> "a1" [] p = "q" -> "a2" [] OTHER -> None]
    /\ subject # "studio" => pos = [p \in Parts |-> "x1"]
    /\ Init /\ InputInit /\ PlayInit

ClientNext ==
    /\ subject' = subject
    /\ \/ subject = "threads" /\ Next /\ UNCHANGED <<inputVars, playVars>>
       \/ /\ subject \in {"typing", "clicking"} /\ InputNext /\ UNCHANGED <<vars, playVars>>
          /\ presses'[Key] <= KeyPresses /\ presses'[Button] <= ButtonPresses
       \/ subject = "studio" /\ PlayNext /\ UNCHANGED <<vars, inputVars>>

\* The fairness of ClientLifecycle: in the other behaviours its main thread is
\* before the start, and no other runs.
ClientSpec == ClientInit /\ [][ClientNext]_clientVars /\ Fairness

-----------------------------------------------------------------------------
(* A player who loses the server is told so, a hello is answered or the     *)
(* player is told it is not, and leaving comes to an end, whatever the      *)
(* threads are blocked in (client.cpp, client_replicator.cpp).              *)
PlayerIsTold ==
    /\ [](subject = "threads" => TypeOK /\ LossIsTold)
    /\ subject = "threads" => LeavingEnds /\ AnsweredOrTold
=============================================================================
