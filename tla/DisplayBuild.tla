----------------------------- MODULE DisplayBuild -----------------------------
(***************************************************************************)
(* build/displays/<id> of one display: what `vesselstackctl display        *)
(* render` (export does the same), `build`, `flash`, `remove` and `wifi    *)
(* --clear` do to its directories, each under the display's build lock,    *)
(* while the configuration and the credentials change under another lock.  *)
(* A command may be killed between any two steps, and its flock goes with  *)
(* it.                                                                     *)
(*                                                                         *)
(* A directory holds what it was made from, whether it is whole, and       *)
(* whether it has a secrets.yaml.  Symbolic links, owners and modes are    *)
(* not modelled.                                                           *)
(***************************************************************************)
EXTENDS Integers, Sequences

CONSTANTS
  Builders,   \* processes of displayctl
  Absent, Placeholder,
  MaxCommands, MaxChanges, MaxKills   \* bounds

\* What a directory may hold: what it was made from, whether it is whole and has a secrets.yaml.
Trees == [source : Nat, own : Nat, wifi : Nat \cup {Placeholder}, whole : BOOLEAN, secret : BOOLEAN]

ASSUME BuildAssumption ==
  /\ Absent \notin Builders \cup Nat \cup Trees
  /\ MaxCommands \in Nat /\ MaxChanges \in Nat /\ MaxKills \in Nat

VARIABLES
  configured,  \* the configuration: [present, source, own, wifi]; wifi may be Absent
  madeDirs,    \* build/displays exists
  ownDir,      \* the display's own directory in it exists
  dirs,        \* directory -> its tree, or Absent
  buildLock,   \* the holder of the build lock, or Absent
  building,    \* process -> its command, or AtRest
  uploaded,    \* what the last flash sent to the device: [image, checked, forced], or Absent
  scrubbed,    \* how the last `wifi --clear` ended, "no" once Wi-Fi was stored again
  stored,      \* a build stored an image, and the display was not removed since
  removed,     \* how the last remove ended, "no" once the display was added again
  commands, changes, kills

buildVars == <<configured, madeDirs, ownDir, dirs, buildLock, building, uploaded, scrubbed, stored, removed, commands,
               changes, kills>>

\* "done": with success and without a warning.  "slipped": so too, but it found no directory and took no
\* lock, while a first render or build that had read the configuration before was still to write.
Endings == {"no", "done", "slipped"}

AtRest == [kind |-> "none", pc |-> "idle", held |-> FALSE, made |-> Absent, next |-> 1, begun |-> FALSE]
Kinds == {"render", "build", "flash", "rollback", "remove", "clear"}
ProjectDirs == {"project", "project.new", "project.prev", "legacy"}   \* legacy: the old layout
Dirs == ProjectDirs \cup {"firmware", "firmware.new", "firmware.prev"}

-----------------------------------------------------------------------------
(* Directory operations.  Removing and writing a tree can be cut half-way.   *)

Op(name, d, to) == [op |-> name, dir |-> d, to |-> to]
Rm(d) == Op("rm", d, d)
Put(d) == Op("put", d, d)
Mv(d, to) == Op("mv", d, to)
Unlink(d) == Op("unlink", d, d)

WriteProject ==
  <<Rm("legacy"), Rm("project.new"), Put("project.new"), Rm("project.prev"), Mv("project", "project.prev"),
    Mv("project.new", "project")>>

RotateMutant ==
  <<Rm("firmware.prev"), Rm("firmware.new"), Mv("firmware", "firmware.prev"), Put("firmware.new"),
    Rm("firmware.prev"), Mv("firmware.new", "firmware")>>
Rotate ==
  <<Rm("firmware.new"), Put("firmware.new"), Rm("firmware.prev"), Mv("firmware", "firmware.prev"),
    Mv("firmware.new", "firmware")>>

RemoveTree == <<Rm("firmware"), Rm("firmware.new"), Rm("firmware.prev"), Rm("legacy"), Rm("project"),
                Rm("project.new"), Rm("project.prev")>>

Scrub == <<Unlink("legacy"), Unlink("project"), Unlink("project.new"), Unlink("project.prev")>>

\* The directory program of a command.  Without the lock there is nothing to remove.
Program(j) ==
  CASE j.held /\ j.kind \in {"render", "build"} -> WriteProject
    [] j.held /\ j.kind = "stored"              -> Rotate
    [] j.held /\ j.kind = "remove"              -> RemoveTree
    [] j.held /\ j.kind = "clear"               -> Scrub
    [] OTHER                                    -> <<>>

-----------------------------------------------------------------------------
(* A process                                                                 *)

Set(p, fields) == building' = [building EXCEPT ![p] = fields]
Release(p) == buildLock' = IF buildLock = p THEN Absent ELSE buildLock
End(p) == Set(p, AtRest) /\ Release(p)
At(p, place) == building[p].pc = place

\* remove holds the configuration lock to its end; everyone else waits for it.
ConfigFree == ~\E p \in Builders : At(p, "dirs") /\ building[p].kind = "remove"

\* `wifi --clear` has dropped the credentials when it comes to the directories.
Begin(p, kind) ==
  /\ At(p, "idle") /\ commands < MaxCommands /\ commands' = commands + 1
  /\ (kind = "clear" => ConfigFree)
  /\ Set(p, [AtRest EXCEPT !.kind = kind, !.pc = IF kind = "clear" THEN "list" ELSE "lock"])
  /\ configured' = IF kind = "clear" THEN [configured EXCEPT !.wifi = Absent] ELSE configured
  /\ UNCHANGED <<madeDirs, ownDir, dirs, buildLock, uploaded, scrubbed, stored, removed, changes, kills>>

\* build_lock: remove creates nothing, and does without the lock when there is nothing.  The scrub
\* creates nothing either, but comes here only for a directory it has seen.
FreeMutant == TRUE
Free == buildLock = Absent

TakeLock(p) ==
  /\ At(p, "lock") /\ Free
  /\ IF building[p].kind = "remove" /\ ~madeDirs
     THEN /\ Set(p, [building[p] EXCEPT !.pc = "work"]) /\ UNCHANGED <<madeDirs, buildLock>>
     ELSE /\ Set(p, [building[p] EXCEPT !.pc = "work", !.held = TRUE]) /\ buildLock' = p /\ madeDirs' = TRUE
  /\ UNCHANGED <<configured, ownDir, dirs, uploaded, scrubbed, stored, removed, commands, changes, kills>>

GiveUp(p) ==
  /\ At(p, "lock") /\ buildLock # Absent /\ Set(p, AtRest)
  /\ UNCHANGED <<configured, madeDirs, ownDir, dirs, buildLock, uploaded, scrubbed, stored, removed, commands, changes,
                 kills>>

\* collect, under the configuration lock: a placeholder may stand for missing Wi-Fi credentials.
Rendered(wifi) == [source |-> configured.source, own |-> configured.own, wifi |-> wifi, whole |-> TRUE, secret |-> TRUE]

Render(p) ==
  /\ At(p, "work") /\ building[p].kind \in {"render", "build"} /\ ConfigFree
  /\ \/ \E wifi \in {configured.wifi} \cup (IF building[p].kind = "render" THEN {Placeholder} ELSE {}) :
          /\ configured.present /\ wifi # Absent /\ (wifi = Placeholder => configured.wifi = Absent)
          /\ Set(p, [building[p] EXCEPT !.pc = "dirs", !.made = Rendered(wifi)])
          /\ UNCHANGED buildLock
     \/ (~configured.present \/ configured.wifi = Absent) /\ End(p)
  /\ UNCHANGED <<configured, madeDirs, ownDir, dirs, uploaded, scrubbed, stored, removed, commands, changes, kills>>

\* The one-shot container; the artifacts are read back under the same lock.
Compile(p) ==
  /\ At(p, "compile")
  /\ \/ Set(p, [building[p] EXCEPT !.pc = "dirs", !.kind = "stored", !.made = [@ EXCEPT !.secret = FALSE],
                                   !.next = 1]) /\ UNCHANGED buildLock
     \/ End(p)
  /\ UNCHANGED <<configured, madeDirs, ownDir, dirs, uploaded, scrubbed, stored, removed, commands, changes, kills>>

\* A first render or build has read the configuration; flash needs a directory, remove makes nothing.
Early == \E q \in Builders : building[q].made # Absent

\* remove: the display and its credentials go first, the directories after them.  Without the lock
\* there was no directory when it looked, and it looks no more.
Remove(p) ==
  /\ At(p, "work") /\ building[p].kind = "remove" /\ ConfigFree
  /\ IF ~configured.present THEN End(p) /\ UNCHANGED <<configured, stored, removed>>
     ELSE /\ configured' = [configured EXCEPT !.present = FALSE] /\ stored' = FALSE
          /\ Set(p, [building[p] EXCEPT !.pc = "dirs"])
          /\ removed' = IF building[p].held THEN removed ELSE IF ownDir \/ Early THEN "slipped" ELSE "done"
          /\ UNCHANGED buildLock
  /\ UNCHANGED <<madeDirs, ownDir, dirs, uploaded, scrubbed, commands, changes, kills>>

\* `wifi --clear` looks for directories to scrub before it takes any lock.
ListProjects(p) ==
  /\ At(p, "list")
  /\ IF ownDir THEN Set(p, [building[p] EXCEPT !.pc = "lock"]) /\ UNCHANGED scrubbed
     ELSE /\ Set(p, AtRest)
          /\ scrubbed' = IF configured.wifi # Absent THEN "no" ELSE IF Early THEN "slipped" ELSE "done"
  /\ UNCHANGED <<configured, madeDirs, ownDir, dirs, buildLock, uploaded, stored, removed, commands, changes, kills>>

StartScrub(p) ==
  /\ At(p, "work") /\ building[p].kind = "clear"
  /\ Set(p, [building[p] EXCEPT !.pc = "dirs"])
  /\ UNCHANGED <<configured, madeDirs, ownDir, dirs, buildLock, uploaded, scrubbed, stored, removed, commands, changes,
                 kills>>

\* One step of the directory program
Current(p) == Program(building[p])[building[p].next]
Working(p) == At(p, "dirs") /\ building[p].next <= Len(Program(building[p]))
Content(p) == building[p].made
Step(p) ==
  /\ Working(p)
  /\ ownDir' = (ownDir \/ building[p].kind \in {"render", "build", "stored"})
  /\ LET op == Current(p)
         now == dirs[op.dir]
         cut == op.op \in {"rm", "put"} /\ ~building[p].begun /\ (op.op = "rm" => now # Absent)
     IN /\ \/ op.op = "rm" /\ cut /\ dirs' = [dirs EXCEPT ![op.dir].whole = FALSE]
           \/ op.op = "rm" /\ ~cut /\ dirs' = [dirs EXCEPT ![op.dir] = Absent]
           \/ op.op = "put" /\ dirs' = [dirs EXCEPT ![op.dir] = [Content(p) EXCEPT !.whole = @ /\ ~cut]]
           \/ op.op \in {"mv", "unlink"} /\ now = Absent /\ dirs' = dirs
           \/ op.op = "mv" /\ now # Absent /\ dirs' = [dirs EXCEPT ![op.to] = now, ![op.dir] = Absent]
           \/ op.op = "unlink" /\ now # Absent /\ dirs' = [dirs EXCEPT ![op.dir].secret = FALSE]
        /\ stored' = (stored \/ (op.op = "mv" /\ op.to = "firmware"))
        /\ Set(p, [building[p] EXCEPT !.begun = cut, !.next = IF cut THEN @ ELSE @ + 1])
  /\ UNCHANGED <<configured, madeDirs, buildLock, uploaded, scrubbed, removed, commands, changes, kills>>

\* A tree that cannot be written is removed again.
NotWritten(p) ==
  /\ Working(p) /\ Current(p).op = "put" /\ building[p].begun
  /\ dirs' = [dirs EXCEPT ![Current(p).dir] = Absent] /\ End(p)
  /\ UNCHANGED <<configured, madeDirs, ownDir, uploaded, scrubbed, stored, removed, commands, changes, kills>>

\* A removal ends with the display's own directory.
Finish(p) ==
  /\ At(p, "dirs") /\ ~Working(p)
  /\ IF building[p].kind = "build" THEN Set(p, [building[p] EXCEPT !.pc = "compile"]) /\ UNCHANGED buildLock ELSE End(p)
  /\ scrubbed' = IF building[p].kind # "clear" THEN scrubbed ELSE IF configured.wifi = Absent THEN "done" ELSE "no"
  /\ IF building[p].kind = "remove" /\ building[p].held
     THEN ownDir' = FALSE /\ removed' = "done"
     ELSE UNCHANGED <<ownDir, removed>>
  /\ UNCHANGED <<configured, madeDirs, dirs, uploaded, stored, commands, changes, kills>>

\* load_firmware: an image that does not match its manifest is refused, as is the old layout.
LoadFirmware(p) ==
  /\ At(p, "work") /\ building[p].kind \in {"flash", "rollback"}
  /\ LET image == dirs[IF building[p].kind = "flash" THEN "firmware" ELSE "firmware.prev"] IN
     IF dirs["legacy"] = Absent /\ image # Absent /\ image.whole
     THEN Set(p, [building[p] EXCEPT !.pc = "check", !.made = image]) /\ UNCHANGED buildLock
     ELSE End(p)
  /\ UNCHANGED <<configured, madeDirs, ownDir, dirs, uploaded, scrubbed, stored, removed, commands, changes, kills>>

\* check_credentials and check_source against what the display would be built from now
Matches(image) == image.source = configured.source /\ image.own = configured.own /\ image.wifi = configured.wifi

\* The container reads a private copy of the verified bytes and a project rendered afresh.
Staged(p) == building[p].made

Upload(p, force) ==
  /\ At(p, "check") /\ ConfigFree /\ End(p)
  /\ uploaded' = IF configured.present /\ configured.wifi # Absent /\ (force \/ Matches(building[p].made))
                 THEN [image |-> Staged(p), checked |-> configured, forced |-> force] ELSE uploaded
  /\ UNCHANGED <<configured, madeDirs, ownDir, dirs, scrubbed, stored, removed, commands, changes, kills>>

KillBuild(p) ==
  /\ ~At(p, "idle") /\ kills < MaxKills /\ kills' = kills + 1 /\ End(p)
  /\ UNCHANGED <<configured, madeDirs, ownDir, dirs, uploaded, scrubbed, stored, removed, commands, changes>>

-----------------------------------------------------------------------------
\* displays.json edited, `rotate`, `wifi`, and `add` after a remove with new credentials
Change ==
  /\ changes < MaxChanges /\ changes' = changes + 1 /\ ConfigFree
  /\ \/ configured.present /\ configured' = [configured EXCEPT !.source = @ + 1]
     \/ configured.present /\ configured' = [configured EXCEPT !.own = @ + 1]
     \/ configured' = [configured EXCEPT !.wifi = changes + 1]
     \/ ~configured.present /\ configured' = [configured EXCEPT !.present = TRUE, !.own = @ + 1]
  /\ scrubbed' = IF configured'.wifi = Absent THEN scrubbed ELSE "no"
  /\ removed' = IF configured'.present THEN "no" ELSE removed
  /\ UNCHANGED <<madeDirs, ownDir, dirs, buildLock, building, uploaded, stored, commands, kills>>

OldLayout == [source |-> 0, own |-> 0, wifi |-> 0, whole |-> TRUE, secret |-> TRUE]

BuildInit ==
  /\ configured = [present |-> TRUE, source |-> 0, own |-> 0, wifi |-> 0]
  /\ \E old \in {OldLayout, Absent} :
       /\ dirs = [d \in Dirs |-> IF d \in {"legacy", "firmware"} THEN old ELSE Absent]
       /\ stored = (old # Absent) /\ ownDir = (old # Absent)
       /\ madeDirs \in {b \in BOOLEAN : old # Absent => b}
  /\ buildLock = Absent /\ building = [p \in Builders |-> AtRest] /\ uploaded = Absent
  /\ scrubbed = "no" /\ removed = "no" /\ commands = 0 /\ changes = 0 /\ kills = 0

BuildNext ==
  \/ \E p \in Builders :
       \/ \E kind \in Kinds : Begin(p, kind)
       \/ TakeLock(p) \/ GiveUp(p) \/ Render(p) \/ Compile(p) \/ Remove(p) \/ ListProjects(p) \/ StartScrub(p)
       \/ Step(p) \/ NotWritten(p) \/ Finish(p) \/ LoadFirmware(p) \/ KillBuild(p)
       \/ \E force \in BOOLEAN : Upload(p, force)
  \/ Change

BuildSpec == BuildInit /\ [][BuildNext]_buildVars

-----------------------------------------------------------------------------
(* A build replaces the stored firmware or leaves it: once there was an      *)
(* image, a whole one can be flashed or rolled back to whenever no command   *)
(* is at work, until the display is removed.  It takes two kills, both       *)
(* between the steps of a rotation, to lose it.                              *)
ImageKept ==
  stored /\ buildLock = Absent /\ kills < 2 =>
    \E d \in {"firmware", "firmware.prev"} : dirs[d] # Absent /\ dirs[d].whole

(* Unless forced, a flash sends an image compiled from the configuration and *)
(* the credentials that were in force when it was checked.                   *)
FlashesCurrent ==
  uploaded # Absent /\ ~uploaded.forced =>
    /\ uploaded.image.whole /\ uploaded.image.source = uploaded.checked.source
    /\ uploaded.image.own = uploaded.checked.own /\ uploaded.image.wifi = uploaded.checked.wifi

(* After a remove nothing of the display is left, also when a render, a      *)
(* build or a flash of it was running, or starts afterwards.  The exception  *)
(* is a first render or build that slipped past it: remove had found no      *)
(* build/displays and went on without the lock.                              *)
RemoveCleans == removed = "done" => \A d \in Dirs : dirs[d] = Absent

(* After `wifi --clear` no rendered project has a secrets.yaml with the old  *)
(* Wi-Fi password, until one is stored again; with the same exception, as    *)
(* the scrub lists the directories before it takes any lock.                 *)
ClearScrubs ==
  scrubbed = "done" => \A d \in ProjectDirs : dirs[d] # Absent /\ dirs[d].secret => dirs[d].wifi = Placeholder

\* An image that was built is kept, and what is flashed is built from what is configured.
ImagesTrue == ImageKept /\ FlashesCurrent

\* remove leaves nothing of the display, and `wifi --clear` no old password in a rendered project,
\* unless a first render or build slipped past them.
CleanedUp == RemoveCleans /\ ClearScrubs
===============================================================================
