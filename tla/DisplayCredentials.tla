-------------------------- MODULE DisplayCredentials --------------------------
(***************************************************************************)
(* The displays of the boat and what the broker lets them do               *)
(* (displays/lifecycle.py, mqtt_auth.py).                                  *)
(*                                                                         *)
(* add, remove, rotate and sync-mqtt are commands of their own processes,  *)
(* one at a time under the flock on config/.displays.lock.  Each changes   *)
(* displays.json and displays.secrets.json and then installs the passwords *)
(* and the ACL derived from them and has the broker read them again.  A    *)
(* command may fail at every step that calls Docker and may be killed at   *)
(* every step; the broker may stop and start at any time.                  *)
(*                                                                         *)
(* Abstractions.  The n-th password ever generated for a display is the    *)
(* number n, 0 is none.  The accounts of the administrator and the bridge, *)
(* the OTA and API keys and the .prev copies are left out.  Displays are   *)
(* enabled.  The hashing container dies with its command.                  *)
(***************************************************************************)
EXTENDS Naturals, FiniteSets

CONSTANTS
  Displays,     \* display ids
  Commands,     \* commands that may run
  MaxMade,      \* bound: passwords generated for a display
  MaxCrashes    \* bound: commands killed

ASSUME CredentialsAssumption == MaxMade \in Nat /\ MaxCrashes \in Nat

None == "none"

ASSUME NoCommandIsNone == None \notin Commands

VARIABLES
  config,     \* displays.json: the ids configured
  secret,     \* displays.secrets.json: the password of d
  made,       \* passwords generated for d so far
  plain,      \* passwords.new: the plaintext accounts, or NoFile
  passwords,  \* the password file: the password of d
  acl,        \* the ACL file: the ids granted something
  broker,     \* the broker: up, and its two files as it last read them
  lock,       \* holder of config/.displays.lock
  pc, job,    \* where command c is; its operation and display
  crashes,
  \* history, read by no action
  last,       \* how the last command ended: "ok", "failed" ("run sync-mqtt to retry"), "killed"
  steady,     \* displays with access that no command has touched since
  revoked     \* passwords of d that were no longer stored when a command last succeeded

files == <<config, secret, made, plain, passwords, acl>>
ghosts == <<last, steady, revoked>>
vars == <<files, broker, lock, pc, job, crashes, ghosts>>

NoFile == [d \in Displays |-> MaxMade + 1]
NoJob  == [op |-> None, d |-> None]

(* Names ending in Mutant are deliberately wrong variants of the definition  *)
(* that follows them: each shows that a property notices that mistake.       *)

AccountsMutant == secret  \* whatever the configuration

\* build_accounts, render_acl: what the configuration grants.
Accounts == [d \in Displays |-> IF d \in config THEN secret[d] ELSE 0]

Init ==
  /\ config = {} /\ secret = [d \in Displays |-> 0] /\ made = [d \in Displays |-> 0]
  /\ plain = NoFile
  /\ passwords = [d \in Displays |-> 0] /\ acl = {}
  /\ broker = [up |-> TRUE, acc |-> [d \in Displays |-> 0], acl |-> {}]
  /\ lock = None
  /\ pc = [c \in Commands |-> "idle"] /\ job = [c \in Commands |-> NoJob]
  /\ crashes = 0
  /\ last = "ok" /\ steady = {} /\ revoked = [d \in Displays |-> {}]

\* acquire_lock
LockFree == lock = None

Go(c, where) == pc' = [pc EXCEPT ![c] = where]

-----------------------------------------------------------------------------
(* The commands, up to the sync.                                            *)

\* The lock is taken, the files read and the display looked up.  The history forgets what the
\* command is about to touch.
Start(c, op, d) ==
  /\ pc[c] = "idle" /\ LockFree
  /\ CASE op = "add" -> d \notin config
       [] op = "remove" -> d \in config
       [] op = "rotate" -> d \in config /\ made[d] < MaxMade
  /\ lock' = c
  /\ job' = [job EXCEPT ![c] = [op |-> op, d |-> d]]
  /\ Go(c, IF op = "rotate" THEN "secrets" ELSE "config")
  /\ steady' = steady \ {d}
  /\ UNCHANGED <<files, broker, crashes, last, revoked>>

\* sync-mqtt, by an operator or the installer, starts with the sync.
SyncMqtt(c) ==
  /\ pc[c] = "idle" /\ LockFree
  /\ lock' = c
  /\ job' = [job EXCEPT ![c] = [op |-> "sync", d |-> None]]
  /\ Go(c, "sync")
  /\ UNCHANGED <<files, broker, crashes, ghosts>>

\* add, remove: write_config, by an atomic replace.
WriteConfig(c) ==
  /\ pc[c] = "config"
  /\ IF job[c].op = "add"
       THEN config' = config \cup {job[c].d} /\ Go(c, "sync")
       ELSE config' = config \ {job[c].d} /\ Go(c, "secrets")
  /\ UNCHANGED <<secret, made, plain, passwords, acl, broker, lock, job, crashes, ghosts>>

\* remove drops the entry of the display, rotate generates its secrets again.
WriteSecrets(c) ==
  /\ pc[c] = "secrets"
  /\ LET d == job[c].d IN
       IF job[c].op = "remove"
         THEN secret' = [secret EXCEPT ![d] = 0] /\ made' = made
         ELSE /\ made' = [made EXCEPT ![d] = @ + 1]
              /\ secret' = [secret EXCEPT ![d] = made[d] + 1]
  /\ Go(c, "sync")
  /\ UNCHANGED <<config, plain, passwords, acl, broker, lock, job, crashes, ghosts>>

-----------------------------------------------------------------------------
(* mqtt_auth.sync, under the lock of the command.                           *)

MissingMutant == config  \* generates all again
Missing == {d \in config : secret[d] = 0}

\* ensure_secrets: a configured display without a password gets one.
EnsureSecrets(c) ==
  /\ pc[c] = "sync"
  /\ \A d \in Missing : made[d] < MaxMade
  /\ made' = [d \in Displays |-> IF d \in Missing THEN made[d] + 1 ELSE made[d]]
  /\ secret' = [d \in Displays |-> IF d \in Missing THEN made[d] + 1 ELSE secret[d]]
  /\ Go(c, "write")
  /\ UNCHANGED <<config, plain, passwords, acl, broker, lock, job, crashes, ghosts>>

\* write_broker_files: leftovers are removed, acl.new and the plaintext passwords.new written.
WriteNew(c) ==
  /\ pc[c] = "write"
  /\ plain' = Accounts
  /\ Go(c, "hash")
  /\ UNCHANGED <<config, secret, made, passwords, acl, broker, lock, job, crashes, ghosts>>

\* The hashing container replaces passwords by passwords.new, hashed.
InstallPasswords(c) ==
  /\ pc[c] = "hash"
  /\ passwords' = plain /\ plain' = NoFile
  /\ Go(c, "acl")
  /\ UNCHANGED <<config, secret, made, acl, broker, lock, job, crashes, ghosts>>

\* os.replace("acl.new", "acl")
InstallAcl(c) ==
  /\ pc[c] = "acl"
  /\ acl' = config
  /\ Go(c, "reload")
  /\ UNCHANGED <<config, secret, made, plain, passwords, broker, lock, job, crashes, ghosts>>

\* The broker reads its two files.
Reads == broker' = [up |-> TRUE, acc |-> passwords, acl |-> acl]

SignalledMutant == FALSE
Signalled == broker.up

\* reload_broker signals a broker that runs, and the command ends.
Reload(c) ==
  /\ pc[c] = "reload"
  /\ IF Signalled THEN Reads ELSE broker' = broker
  /\ lock' = None
  /\ Go(c, "idle") /\ job' = [job EXCEPT ![c] = NoJob]
  /\ last' = "ok"
  /\ steady' = config
  /\ revoked' = [d \in Displays |-> (1 .. made[d]) \ {secret[d]}]
  /\ UNCHANGED <<files, crashes>>

CleansMutant(c) == FALSE
Cleans(c) == pc[c] \in {"write", "hash", "acl"}

\* The disk or Docker fails: the command raises.  write_broker_files removes its temporary
\* files first; a failure before it leaves those of a killed command.
Fail(c) ==
  /\ pc[c] # "idle"
  /\ plain' = IF Cleans(c) THEN NoFile ELSE plain
  /\ lock' = None
  /\ Go(c, "idle") /\ job' = [job EXCEPT ![c] = NoJob]
  /\ last' = IF last = "killed" THEN "killed" ELSE "failed"
  /\ UNCHANGED <<config, secret, made, passwords, acl, broker, crashes, steady, revoked>>

-----------------------------------------------------------------------------
(* What happens to commands and broker.                                     *)

\* SIGKILL or a power cut: the kernel releases the lock.
Kill(c) ==
  /\ pc[c] # "idle" /\ crashes < MaxCrashes
  /\ crashes' = crashes + 1
  /\ lock' = None
  /\ Go(c, "idle") /\ job' = [job EXCEPT ![c] = NoJob]
  /\ last' = "killed"
  /\ UNCHANGED <<files, broker, steady, revoked>>

Down == [up |-> FALSE, acc |-> [d \in Displays |-> 0], acl |-> {}]

\* A stopped broker forgets; what it kept is in its files.
BrokerStops ==
  /\ broker.up
  /\ broker' = Down
  /\ UNCHANGED <<files, lock, pc, job, crashes, ghosts>>

BrokerStarts ==
  /\ ~broker.up
  /\ Reads
  /\ UNCHANGED <<files, lock, pc, job, crashes, ghosts>>

-----------------------------------------------------------------------------
Next ==
  \/ \E c \in Commands :
       \/ \E d \in Displays, op \in {"add", "remove", "rotate"} : Start(c, op, d)
       \/ SyncMqtt(c)
       \/ WriteConfig(c) \/ WriteSecrets(c) \/ EnsureSecrets(c) \/ WriteNew(c)
       \/ InstallPasswords(c) \/ InstallAcl(c) \/ Reload(c) \/ Fail(c) \/ Kill(c)
  \/ BrokerStops \/ BrokerStarts

Spec == Init /\ [][Next]_vars

-----------------------------------------------------------------------------
(* Properties.                                                              *)

Idle == lock = None

Passwords == 0 .. MaxMade

\* The shape of the state: a command is at work exactly while it holds the lock.
TypeOK ==
  /\ config \subseteq Displays /\ acl \subseteq Displays /\ steady \subseteq Displays
  /\ secret \in [Displays -> Passwords] /\ made \in [Displays -> Passwords]
  /\ plain \in [Displays -> Passwords] \cup {NoFile}
  /\ passwords \in [Displays -> Passwords]
  /\ broker \in [up : BOOLEAN, acc : [Displays -> Passwords], acl : SUBSET Displays]
  /\ lock \in Commands \cup {None}
  /\ pc \in [Commands -> {"idle", "config", "secrets", "sync", "write", "hash", "acl", "reload"}]
  /\ \A c \in Commands : pc[c] # "idle" <=> lock = c
  /\ job \in [Commands -> [op : {None, "add", "remove", "rotate", "sync"}, d : Displays \cup {None}]]
  /\ \A c \in Commands : pc[c] \in {"config", "secrets"} => job[c].d \in Displays
  /\ crashes \in 0 .. MaxCrashes
  /\ last \in {"ok", "failed", "killed"}
  /\ revoked \in [Displays -> SUBSET (1 .. MaxMade)]

\* After a command that succeeded, whatever failed or was killed before it, the files grant what
\* the configuration says, every configured display has a password, and a broker that runs
\* has read them ("Run sync-mqtt to retry" repairs: lifecycle.py:264-266).
InSync ==
  Idle /\ last = "ok" =>
    /\ \A d \in Displays :
         IF d \in config THEN secret[d] # 0 /\ passwords[d] = secret[d] ELSE passwords[d] = 0
    /\ acl = config
    /\ broker.up => broker.acc = passwords /\ broker.acl = acl

\* "Other displays are untouched" (docs/DISPLAYS.md:202-203): a display that a successful command
\* left with access keeps it, under the password it holds, through every step, failure,
\* kill and broker restart of the commands for other displays.
Untouched ==
  broker.up => \A d \in steady : broker.acc[d] = secret[d] /\ d \in broker.acl

\* The broker accepts no password that remove or rotate has taken from the secrets, once the
\* command, or any command after it, has succeeded.
RevokedStaysOut ==
  broker.up => \A d \in Displays : broker.acc[d] \notin revoked[d]

\* The plaintext accounts are gone when no command runs, unless one was killed and none has
\* succeeded since ("is removed on every outcome", mqtt_auth.py:443-444).
PlainGone == Idle /\ plain # NoFile => last = "killed"

=============================================================================
