--------------------------- MODULE MCInstanceTree ---------------------------
(***************************************************************************)
(* The map for TLC: the tree of a running game with those that listen to   *)
(* it (InstanceTree), and saving, opening, copying and pasting (MapFile).  *)
(* The models share no state; a behaviour is about one of them, its        *)
(* `subject`, and the other keeps the state it starts in.                  *)
(***************************************************************************)
EXTENDS InstanceTree

CONSTANTS g, w, r, a, b

MCKind == [n \in Nodes |-> CASE n = g -> "Game" [] n = w -> "Workspace"
                             [] n = r -> "Rig" [] OTHER -> "Part"]

VARIABLES
    subject,
    fileTree, id, created, clip, file, steps                              \* MapFile

\* Game, Workspace, three models and two parts, in six operations.
FileKind == <<"Game", "Workspace", "Model", "Model", "Model", "Part", "Part">>
Files == INSTANCE MapFile WITH
    Nodes <- 1..7, Kind <- FileKind, None <- 0, Game <- 1, Workspace <- 2,
    Places <- 1..4, MaxSteps <- 6, tree <- fileTree, used <- created

ASSUME Files!NodesAssumption /\ Files!RootsAssumption

Sym == Permutations({a, b})

-----------------------------------------------------------------------------
fileVars == <<fileTree, id, created, clip, file, steps>>

MapInit == subject \in {"tree", "file"} /\ Init /\ Files!Init

MapNext ==
    /\ subject' = subject
    /\ \/ subject = "tree" /\ Next /\ UNCHANGED fileVars
       \/ subject = "file" /\ Files!Next /\ UNCHANGED vars

MapSpec == MapInit /\ [][MapNext]_<<subject, vars, fileVars>>

-----------------------------------------------------------------------------
(* What was saved or copied reads back as it was, an id names one record of *)
(* a buffer, and a paste adds the copy and changes nothing else             *)
(* (nbx_file.cpp, devtools.cpp).                                            *)
SavedReadsBack ==
    /\ [](subject = "file" =>
             Files!TypeOK /\ Files!FileReadsBack /\ Files!ClipReadsBack /\ Files!IdsNameOneRecord)
    /\ Files!PasteAddsTheCopy
=============================================================================
