------------------------------ MODULE MCHaClient ------------------------------
(***************************************************************************)
(* HaClient for TLC, in two parts: "modes" meets both subscription modes   *)
(* and one change of state, "changes" only the first mode and every change *)
(* the .cfg allows.  No step changes the part.                             *)
(***************************************************************************)
EXTENDS HaClient

CONSTANTS tank, door

VARIABLE part

partVars == <<part, vars>>

BothModes == INSTANCE HaClient WITH MaxChanges <- 1
AllChanges == INSTANCE HaClient WITH Modes <- {"entities"}

PartInit ==
  /\ part \in {"modes", "changes"}
  /\ Init /\ (part = "changes" => support = "entities")

PartNext ==
  \/ part = "modes" /\ BothModes!Next /\ UNCHANGED part
  \/ part = "changes" /\ AllChanges!Next /\ UNCHANGED part

\* The fairness of HaClient.
PartFairness ==
  /\ WF_vars(Server) /\ WF_vars(Client) /\ WF_vars(Main)
  /\ WF_vars((part = "modes" /\ Open) \/ (part = "changes" /\ AllChanges!Open))

PartSpec == PartInit /\ [][PartNext]_partVars /\ PartFairness
=============================================================================
