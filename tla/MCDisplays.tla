------------------------------ MODULE MCDisplays ------------------------------
(***************************************************************************)
(* displayctl for TLC: what its commands do to the credentials             *)
(* (DisplayCredentials) and to a display's build directories               *)
(* (DisplayBuild).  The two are under different locks and are checked      *)
(* apart in one run: "part" says which of them a behaviour is about, the   *)
(* other rests in an initial state, and no step changes "part".            *)
(*                                                                         *)
(* Two displays and two commands: one command at work and one that waits   *)
(* for the lock, or retries after it; the displays are interchangeable,    *)
(* and so are the commands.                                                *)
(***************************************************************************)
EXTENDS DisplayCredentials, DisplayBuild, TLC

VARIABLE part

displaysVars == <<part, vars, buildVars>>

Symmetric == Permutations(Displays) \cup Permutations(Commands) \cup Permutations(Builders)

DisplaysInit ==
  /\ part \in {"credentials", "build"}
  /\ Init
  /\ BuildInit /\ (part # "build" => ~madeDirs)

DisplaysNext ==
  \/ part = "credentials" /\ Next /\ UNCHANGED <<part, buildVars>>
  \/ part = "build" /\ BuildNext /\ UNCHANGED <<part, vars>>
  \/ part = "build" /\ commands = MaxCommands /\ UNCHANGED displaysVars   \* all commands have been given

DisplaysSpec == DisplaysInit /\ [][DisplaysNext]_displaysVars
=============================================================================
