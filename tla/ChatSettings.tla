----------------------------- MODULE ChatSettings -----------------------------
(***************************************************************************)
(* Two writers of Boat Chat's settings: the control panel, which rewrites  *)
(* vessel.env, boat-chat.env and control-panel.env and then drops the      *)
(* saved keys from the override file, and Boat Chat's own Settings page,   *)
(* which edits the override file.  An override wins over the base file,    *)
(* and the base file is read once, into the environment of the process.    *)
(* The page's transactions take env_config.locked; the panel's take the    *)
(* lifecycle slot, and not that lock.                                      *)
(*                                                                         *)
(* A request saves one key.  Empty is a blank value, Null an explicit      *)
(* clear, Missing a key a file has no line for.  Values that validation    *)
(* refuses change nothing and are left out.                                *)
(***************************************************************************)
EXTENDS Integers, Sequences

CONSTANTS
  Owner,     \* [Keys -> {"vessel", "chat"}]: the file a key is kept in
  Secret,    \* the keys whose blank form field means "keep the stored value"
  Values, Empty, Null, Missing,
  Pages,     \* the Settings page's request threads
  MaxSaves, MaxFaults   \* bounds

ASSUME SettingsAssumption ==
  /\ \A k \in DOMAIN Owner : Owner[k] \in {"vessel", "chat"}
  /\ Missing \notin {Empty} \cup Values /\ Null \notin {Empty} \cup Values
  /\ Missing \notin Pages

VARIABLES
  base,       \* key -> its value in the base files
  override,   \* key -> its value in the override file, or Missing
  environ,    \* key -> its value in the environment of the running Boat Chat
  page,       \* thread -> its transaction [key, value, saw, cleared], or Idle
  lock,       \* the thread inside env_config.locked, or Missing
  panel,      \* the panel's save, or Idle; paged are the keys the page saved meanwhile
  meant,      \* key -> the value the last finished save gave it
  doubt,      \* keys of which the two writers' overlap, a stale environment or a crash decides
  saves, faults

settingsVars == <<base, override, environ, page, lock, panel, meant, doubt, saves, faults>>

Keys == DOMAIN Owner
ChatKeys == {k \in Keys : Owner[k] = "chat"}
Idle == <<>>
Paths == <<"vessel", "chat", "panel">>

Begin == saves < MaxSaves /\ saves' = saves + 1
Fault == faults < MaxFaults /\ faults' = faults + 1

-----------------------------------------------------------------------------
(* The Settings page                                                         *)

FreeMutant == TRUE
Free == lock = Missing

\* update_settings, locked
Open(t, k, v) ==
  /\ page[t] = Idle /\ Free /\ Begin
  /\ lock' = t /\ page' = [page EXCEPT ![t] = [key |-> k, value |-> v, saw |-> override, cleared |-> FALSE]]
  /\ UNCHANGED <<base, override, environ, panel, meant, doubt, faults>>

Keeps(k, v) == v = Empty /\ k \in Secret

\* An explicit clear masks the base value, a blank secret keeps it, and a value equal to the
\* environment's needs no override.
EditedValue(saw, k, v) ==
  CASE v = Null                          -> [saw EXCEPT ![k] = Empty]
    [] Keeps(k, v)                       -> saw
    [] v = environ[k] /\ ~Keeps(k, v)    -> [saw EXCEPT ![k] = Missing]
    [] OTHER                             -> [saw EXCEPT ![k] = v]
Given(v) == IF v = Null THEN Empty ELSE v

\* _write_env_config_unlocked
Commit(t) ==
  /\ page[t] # Idle
  /\ LET k == page[t].key  v == page[t].value  now == EditedValue(page[t].saw, k, v) IN
     /\ override' = now
     /\ meant' = IF Keeps(k, v) THEN meant ELSE [meant EXCEPT ![k] = Given(v)]
     /\ doubt' = (IF Keeps(k, v) THEN doubt ELSE doubt \ {k})
                 \cup (IF page[t].cleared THEN {x \in ChatKeys : now[x] # override[x]} ELSE {})
                 \cup (IF now[k] = Missing /\ environ[k] # base[k] THEN {k} ELSE {})
  /\ lock' = Missing /\ page' = [page EXCEPT ![t] = Idle]
  /\ panel' = IF panel = Idle THEN Idle ELSE [panel EXCEPT !.paged = @ \cup {page[t].key}]
  /\ UNCHANGED <<base, environ, saves, faults>>

-----------------------------------------------------------------------------
(* The control panel                                                         *)

\* _update_configuration: what is saved, and the snapshots kept in the backup directory
Save(k, v) ==
  /\ panel = Idle /\ Begin /\ ~Keeps(k, v)
  /\ panel' = [pc |-> "write", key |-> k, value |-> Given(v), backup |-> base, file |-> 1, saw |-> override,
               paged |-> {}]
  /\ UNCHANGED <<base, override, environ, page, lock, meant, doubt, faults>>

\* write_env replaces one file; when a file cannot be written, every original is copied back.
WriteFile ==
  /\ panel # Idle /\ panel.pc = "write"
  /\ \/ /\ base' = IF Owner[panel.key] = Paths[panel.file] THEN [base EXCEPT ![panel.key] = panel.value] ELSE base
        /\ panel' = IF panel.file = Len(Paths) THEN [panel EXCEPT !.pc = "clear"] ELSE [panel EXCEPT !.file = @ + 1]
        /\ UNCHANGED <<doubt, faults>>
     \/ /\ Fault /\ base' = panel.backup /\ panel' = Idle
        /\ doubt' = doubt \cup {k \in ChatKeys : environ[k] # panel.backup[k]}
  /\ UNCHANGED <<override, environ, page, lock, meant, saves>>

\* clear_chat_overrides reads the override file: a key that is not in it needs no clearing.
Stale(k) == k \in ChatKeys /\ override[k] # Missing

ReadOverrides ==
  /\ panel # Idle /\ panel.pc = "clear"
  /\ meant' = [meant EXCEPT ![panel.key] = panel.value] /\ doubt' = doubt \ {panel.key}
  /\ panel' = IF Stale(panel.key) THEN [panel EXCEPT !.pc = "replace", !.saw = override, !.paged = {}]
              ELSE Idle
  /\ UNCHANGED <<base, override, environ, page, lock, saves, faults>>

\* replace_in_service_dir, without the page's lock: a page save since the read is lost.
ReplaceOverrides ==
  /\ panel # Idle /\ panel.pc = "replace"
  /\ override' = [panel.saw EXCEPT ![panel.key] = Missing]
  /\ doubt' = doubt \cup panel.paged
  /\ page' = [t \in Pages |-> IF page[t] = Idle THEN Idle ELSE [page[t] EXCEPT !.cleared = TRUE]]
  /\ panel' = Idle
  /\ UNCHANGED <<base, environ, lock, meant, saves, faults>>

PanelDies ==
  /\ panel # Idle /\ Fault /\ panel' = Idle /\ doubt' = doubt \cup {panel.key}
  /\ UNCHANGED <<base, override, environ, page, lock, meant, saves>>

-----------------------------------------------------------------------------
\* systemd starts Boat Chat again with the base file in its environment: page requests are gone.
Restart ==
  /\ environ # [k \in ChatKeys |-> base[k]] \/ lock # Missing
  /\ environ' = [k \in ChatKeys |-> base[k]]
  /\ page' = [t \in Pages |-> Idle] /\ lock' = Missing
  /\ UNCHANGED <<base, override, panel, meant, doubt, saves, faults>>

SettingsInit ==
  /\ base \in [Keys -> {Empty} \cup Values]
  /\ override \in {o \in [ChatKeys -> {Missing, Empty} \cup Values] : \A k \in ChatKeys : o[k] # base[k]}
  /\ environ = [k \in ChatKeys |-> base[k]]
  /\ page = [t \in Pages |-> Idle] /\ lock = Missing /\ panel = Idle
  /\ meant = [k \in Keys |-> IF k \in ChatKeys /\ override[k] # Missing THEN override[k] ELSE base[k]]
  /\ doubt = {} /\ saves = 0 /\ faults = 0

SettingsNext ==
  \/ \E t \in Pages : Commit(t) \/ \E k \in ChatKeys, v \in Values \cup {Empty, Null} : Open(t, k, v)
  \/ \E k \in Keys, v \in Values \cup {Empty, Null} : Save(k, v)
  \/ WriteFile \/ ReadOverrides \/ ReplaceOverrides \/ PanelDies \/ Restart

SettingsSpec == SettingsInit /\ [][SettingsNext]_settingsVars

-----------------------------------------------------------------------------
InEffect(k) == IF k \in ChatKeys /\ override[k] # Missing THEN override[k] ELSE base[k]

(* The next start of Boat Chat finds for every key what the last finished    *)
(* save of either writer gave it, unless the two writers overlapped on the   *)
(* override file, a save was cut short, or the page compared a value with an *)
(* environment the panel has since changed: two page saves never lose one    *)
(* another, a panel save is not shadowed by an older override, and a save    *)
(* that could not be written leaves nothing behind.                          *)
SettingsStand == panel = Idle => \A k \in Keys \ doubt : InEffect(k) = meant[k]
===============================================================================
