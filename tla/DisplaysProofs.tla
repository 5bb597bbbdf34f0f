---------------------------- MODULE DisplaysProofs ----------------------------
(***************************************************************************)
(* displayctl.  The displays' access, for any set of displays and commands *)
(* and any number of passwords and kills; the build directories of a       *)
(* display, for any number of processes, commands, changes of the          *)
(* configuration and kills.                                                *)
(***************************************************************************)
EXTENDS DisplayCredentials, DisplayBuild, TLAPS

-----------------------------------------------------------------------------
(* The displays' access.                                                     *)

Ops == {None, "add", "remove", "rotate", "sync"}
Pcs == {"idle", "config", "secrets", "sync", "write", "hash", "acl", "reload"}
Job == [op : Ops, d : Displays \cup {None}]
Broker == [up : BOOLEAN, acc : [Displays -> Passwords], acl : SUBSET Displays]

\* Only add and remove write the configuration, and a rotate found room for one more password.
Room ==
  \A c \in Commands :
    /\ pc[c] = "config" => job[c].op \in {"add", "remove"}
    /\ pc[c] = "secrets" /\ job[c].op # "remove" => made[job[c].d] < MaxMade

\* What the command at work has already derived from the configuration and the secrets.
Derived ==
  /\ \A c \in Commands : pc[c] \in {"write", "hash", "acl", "reload"} => \A d \in config : secret[d] # 0
  /\ \A c \in Commands : pc[c] = "hash" => plain = Accounts
  /\ \A c \in Commands : pc[c] \in {"acl", "reload"} => passwords = Accounts /\ plain = NoFile
  /\ \A c \in Commands : pc[c] = "reload" => acl = config

\* The files grant a steady display its access; the command at work is for another one.
SteadyFiles ==
  /\ \A d \in steady : d \in config /\ d \in acl /\ passwords[d] = secret[d] /\ secret[d] # 0
  /\ \A c \in Commands : pc[c] \in {"config", "secrets"} => job[c].d \notin steady

TypeInv == TypeOK /\ Room /\ Derived

USE CredentialsAssumption, NoCommandIsNone DEF Passwords, LockFree, Signalled, Cleans

LEMMA TypeInit == Init => TypeInv
<1> USE DEF Init, TypeInv, Room, Derived, NoJob
<1> SUFFICES ASSUME Init PROVE TypeInv
  OBVIOUS
<1>1. broker \in Broker
  BY DEF Broker
<1>2. job \in [Commands -> Job]
  BY DEF Job, Ops
<1> QED
  BY <1>1, <1>2 DEF TypeOK, Broker, Job, Ops

\* A step of command c that keeps the lock leaves every other command idle.
LEMMA Alone ==
  ASSUME TypeOK, NEW c \in Commands, pc[c] # "idle"
  PROVE  lock = c /\ \A e \in Commands \ {c} : pc[e] = "idle"
BY DEF TypeOK

\* What each kind of step does to the control part of the state.
ControlOK ==
  /\ lock \in Commands \cup {None}
  /\ pc \in [Commands -> Pcs]
  /\ \A c \in Commands : pc[c] # "idle" <=> lock = c
  /\ job \in [Commands -> Job]
  /\ \A c \in Commands : pc[c] \in {"config", "secrets"} => job[c].d \in Displays
  /\ crashes \in 0 .. MaxCrashes
  /\ last \in {"ok", "failed", "killed"}

DataOK ==
  /\ config \subseteq Displays /\ acl \subseteq Displays /\ steady \subseteq Displays
  /\ secret \in [Displays -> Passwords] /\ made \in [Displays -> Passwords]
  /\ plain \in [Displays -> Passwords] \cup {NoFile}
  /\ passwords \in [Displays -> Passwords]
  /\ broker \in Broker
  /\ revoked \in [Displays -> SUBSET (1 .. MaxMade)]

LEMMA TypeParts == TypeOK <=> ControlOK /\ DataOK
BY DEF TypeOK, ControlOK, DataOK, Pcs, Job, Ops, Broker

LEMMA ControlMoves ==
  ASSUME ControlOK, NEW c \in Commands, lock' = lock, job' = job, crashes' = crashes, last' = last,
         pc[c] # "idle",
         \E w \in Pcs \ {"idle", "config"} : Go(c, w) /\ (w = "secrets" => pc[c] = "config")
  PROVE  ControlOK'
BY DEF ControlOK, Go, Pcs

LEMMA ControlEnds ==
  ASSUME ControlOK, NEW c \in Commands, pc[c] # "idle", lock' = None, Go(c, "idle"),
         job' = [job EXCEPT ![c] = NoJob], crashes' \in 0 .. MaxCrashes,
         last' \in {"ok", "failed", "killed"}
  PROVE  ControlOK'
BY DEF ControlOK, Go, Pcs, Job, Ops, NoJob

LEMMA ControlStep == ControlOK /\ [Next]_vars => ControlOK'
<1> SUFFICES ASSUME ControlOK, [Next]_vars PROVE ControlOK'
  OBVIOUS
<1>1. ASSUME NEW c \in Commands, NEW d \in Displays, NEW op \in {"add", "remove", "rotate"}, Start(c, op, d)
      PROVE  ControlOK'
  <2>1. job' \in [Commands -> Job] /\ job'[c].d = d
    BY <1>1 DEF Start, ControlOK, Job, Ops
  <2>2. pc' \in [Commands -> Pcs]
    BY <1>1 DEF Start, Go, ControlOK, Pcs
  <2>3. \A e \in Commands \ {c} : job'[e] = job[e] /\ pc'[e] = pc[e]
    BY <1>1 DEF Start, Go, ControlOK
  <2>4. pc'[c] # "idle" /\ lock' = c /\ lock = None /\ crashes' = crashes /\ last' = last
    BY <1>1 DEF Start, Go, ControlOK
  <2> QED
    BY <2>1, <2>2, <2>3, <2>4 DEF ControlOK
<1>2. ASSUME NEW c \in Commands, SyncMqtt(c) PROVE ControlOK'
  BY <1>2 DEF SyncMqtt, Go, ControlOK, Pcs, Job, Ops, ghosts
<1>3. ASSUME NEW c \in Commands,
             WriteConfig(c) \/ WriteSecrets(c) \/ EnsureSecrets(c) \/ WriteNew(c)
               \/ InstallPasswords(c) \/ InstallAcl(c)
      PROVE  ControlOK'
  BY <1>3, ControlMoves
     DEF WriteConfig, WriteSecrets, EnsureSecrets, WriteNew, InstallPasswords, InstallAcl, Pcs, ghosts
<1>4. ASSUME NEW c \in Commands, Reload(c) PROVE ControlOK'
  <2>1. crashes' = crashes /\ last' = "ok"
    BY <1>4 DEF Reload
  <2> QED
    BY <1>4, <2>1, ControlEnds DEF Reload, ControlOK
<1>5. ASSUME NEW c \in Commands, Fail(c) PROVE ControlOK'
  BY <1>5, ControlEnds DEF Fail, ControlOK
<1>6. ASSUME NEW c \in Commands, Kill(c) PROVE ControlOK'
  <2>1. crashes' \in 0 .. MaxCrashes
    BY <1>6 DEF Kill, ControlOK
  <2> QED
    BY <1>6, <2>1, ControlEnds DEF Kill
<1>7. CASE BrokerStops \/ BrokerStarts
  BY <1>7 DEF BrokerStops, BrokerStarts, ControlOK, ghosts
<1>8. CASE UNCHANGED vars
  BY <1>8 DEF vars, ghosts, ControlOK
<1> QED
  BY <1>1, <1>2, <1>3, <1>4, <1>5, <1>6, <1>7, <1>8 DEF Next

LEMMA DataStep == ControlOK /\ Room /\ Derived /\ DataOK /\ [Next]_vars => DataOK'
<1> SUFFICES ASSUME ControlOK, Room, Derived, DataOK, [Next]_vars PROVE DataOK'
  OBVIOUS
<1> USE DEF DataOK
<1>1. ASSUME NEW c \in Commands, NEW d \in Displays, NEW op \in {"add", "remove", "rotate"}, Start(c, op, d)
      PROVE  DataOK'
  BY <1>1 DEF Start, files
<1>2. ASSUME NEW c \in Commands, SyncMqtt(c) PROVE DataOK'
  BY <1>2 DEF SyncMqtt, files, ghosts
<1>3. ASSUME NEW c \in Commands, WriteConfig(c) PROVE DataOK'
  BY <1>3 DEF WriteConfig, ControlOK, ghosts
<1>4. ASSUME NEW c \in Commands, WriteSecrets(c) PROVE DataOK'
  BY <1>4 DEF WriteSecrets, ControlOK, Room, ghosts
<1>5. ASSUME NEW c \in Commands, EnsureSecrets(c) PROVE DataOK'
  BY <1>5 DEF EnsureSecrets, Missing, ghosts
<1>6. ASSUME NEW c \in Commands, WriteNew(c) PROVE DataOK'
  BY <1>6 DEF WriteNew, Accounts, ghosts
<1>7. ASSUME NEW c \in Commands, InstallPasswords(c) PROVE DataOK'
  <2>1. plain \in [Displays -> Passwords]
    BY <1>7 DEF InstallPasswords, Derived, Accounts
  <2> QED
    BY <1>7, <2>1 DEF InstallPasswords, ghosts
<1>8. ASSUME NEW c \in Commands, InstallAcl(c) PROVE DataOK'
  BY <1>8 DEF InstallAcl, ghosts
<1>9. ASSUME NEW c \in Commands, Reload(c) PROVE DataOK'
  <2>1. broker' \in Broker
    <3>1. [up |-> TRUE, acc |-> passwords, acl |-> acl] \in Broker
      BY DEF Broker
    <3>2. CASE broker.up
      BY <1>9, <3>1, <3>2 DEF Reload, Reads
    <3>3. CASE ~broker.up
      BY <1>9, <3>3 DEF Reload
    <3> QED
      BY <3>2, <3>3
  <2>2. revoked' \in [Displays -> SUBSET (1 .. MaxMade)]
    <3>1. \A d \in Displays : (1 .. made[d]) \ {secret[d]} \subseteq 1 .. MaxMade
      OBVIOUS
    <3> QED
      BY <1>9, <3>1 DEF Reload
  <2> QED
    BY <1>9, <2>1, <2>2 DEF Reload, files
<1>10. ASSUME NEW c \in Commands, Fail(c) PROVE DataOK'
  BY <1>10 DEF Fail
<1>11. ASSUME NEW c \in Commands, Kill(c) PROVE DataOK'
  BY <1>11 DEF Kill, files
<1>12. CASE BrokerStops
  BY <1>12 DEF BrokerStops, Down, Broker, files, ghosts
<1>13. CASE BrokerStarts
  BY <1>13 DEF BrokerStarts, Reads, Broker, files, ghosts
<1>14. CASE UNCHANGED vars
  BY <1>14 DEF vars, files, ghosts
<1> QED
  BY <1>1, <1>2, <1>3, <1>4, <1>5, <1>6, <1>7, <1>8, <1>9, <1>10, <1>11, <1>12, <1>13, <1>14 DEF Next

\* The command at work derives each file from the one before it.
LEMMA DerivedStep == TypeInv /\ [Next]_vars => Room' /\ Derived'
<1> SUFFICES ASSUME TypeInv, [Next]_vars PROVE Room' /\ Derived'
  OBVIOUS
<1>0. ControlOK /\ DataOK /\ Room /\ Derived
  BY TypeParts DEF TypeInv
<1>a. \A c, e \in Commands : pc[c] # "idle" /\ e # c => pc[e] = "idle"
  BY <1>0 DEF ControlOK
<1>1. ASSUME NEW c \in Commands, NEW d \in Displays, NEW op \in {"add", "remove", "rotate"}, Start(c, op, d)
      PROVE  Room' /\ Derived'
  <2>1. \A e \in Commands : pc'[e] # "idle" => e = c
    BY <1>0, <1>1 DEF Start, Go, ControlOK
  <2>2. /\ pc'[c] = "secrets" => made[d] < MaxMade
        /\ pc'[c] = "config" => op \in {"add", "remove"}
        /\ pc'[c] \in {"secrets", "config"} /\ job'[c].d = d /\ job'[c].op = op
    BY <1>0, <1>1 DEF Start, Go, ControlOK, Job, Ops
  <2>3. made' = made
    BY <1>1 DEF Start, files
  <2> QED
    BY <2>1, <2>2, <2>3 DEF Room, Derived
<1>2. ASSUME NEW c \in Commands, SyncMqtt(c) PROVE Room' /\ Derived'
  <2>1. \A e \in Commands : pc'[e] # "idle" => pc'[e] = "sync"
    BY <1>0, <1>2 DEF SyncMqtt, Go, ControlOK
  <2> QED
    BY <2>1 DEF Room, Derived
<1>3. ASSUME NEW c \in Commands, WriteConfig(c) PROVE Room' /\ Derived'
  <2>1. \A e \in Commands : pc'[e] # "idle" => e = c
    BY <1>0, <1>a, <1>3 DEF WriteConfig, Go, ControlOK
  <2>2. pc'[c] \in {"sync", "secrets"} /\ (pc'[c] = "secrets" => job[c].op = "remove") /\ job' = job
    BY <1>0, <1>3 DEF WriteConfig, Go, ControlOK, Room
  <2> QED
    BY <2>1, <2>2 DEF Room, Derived
<1>4. ASSUME NEW c \in Commands, WriteSecrets(c) PROVE Room' /\ Derived'
  <2>1. \A e \in Commands : pc'[e] # "idle" => pc'[e] = "sync"
    BY <1>0, <1>a, <1>4 DEF WriteSecrets, Go, ControlOK
  <2> QED
    BY <2>1 DEF Room, Derived
<1>5. ASSUME NEW c \in Commands, EnsureSecrets(c) PROVE Room' /\ Derived'
  <2>1. \A e \in Commands : pc'[e] # "idle" => pc'[e] = "write"
    BY <1>0, <1>a, <1>5 DEF EnsureSecrets, Go, ControlOK
  <2>2. config' = config /\ \A d \in config : secret'[d] # 0
    BY <1>0, <1>5 DEF EnsureSecrets, Missing, DataOK
  <2> QED
    BY <2>1, <2>2 DEF Room, Derived
<1>6. ASSUME NEW c \in Commands, WriteNew(c) PROVE Room' /\ Derived'
  <2>1. \A e \in Commands : pc'[e] # "idle" => pc'[e] = "hash"
    BY <1>0, <1>a, <1>6 DEF WriteNew, Go, ControlOK
  <2>2. plain' = Accounts' /\ config' = config /\ secret' = secret
    BY <1>6 DEF WriteNew, Accounts
  <2> QED
    BY <1>0, <1>6, <2>1, <2>2 DEF Room, Derived, WriteNew
<1>7. ASSUME NEW c \in Commands, InstallPasswords(c) PROVE Room' /\ Derived'
  <2>1. \A e \in Commands : pc'[e] # "idle" => pc'[e] = "acl"
    BY <1>0, <1>a, <1>7 DEF InstallPasswords, Go, ControlOK
  <2>2. passwords' = Accounts' /\ plain' = NoFile /\ config' = config /\ secret' = secret
    BY <1>0, <1>7 DEF InstallPasswords, Accounts, Derived
  <2> QED
    BY <1>0, <1>7, <2>1, <2>2 DEF Room, Derived, InstallPasswords, NoFile
<1>8. ASSUME NEW c \in Commands, InstallAcl(c) PROVE Room' /\ Derived'
  <2>1. \A e \in Commands : pc'[e] # "idle" => pc'[e] = "reload"
    BY <1>0, <1>a, <1>8 DEF InstallAcl, Go, ControlOK
  <2>2. /\ acl' = config' /\ config' = config /\ secret' = secret
        /\ passwords' = passwords /\ plain' = plain /\ Accounts' = Accounts
    BY <1>8 DEF InstallAcl, Accounts
  <2> QED
    BY <1>0, <1>8, <2>1, <2>2 DEF Room, Derived, InstallAcl, NoFile
<1>9. ASSUME NEW c \in Commands, Reload(c) \/ Fail(c) \/ Kill(c) PROVE Room' /\ Derived'
  <2>1. \A e \in Commands : pc'[e] = "idle"
    BY <1>0, <1>a, <1>9 DEF Reload, Fail, Kill, Go, ControlOK
  <2> QED
    BY <2>1 DEF Room, Derived
<1>10. CASE BrokerStops \/ BrokerStarts \/ UNCHANGED vars
  <2>1. UNCHANGED <<files, pc, job>>
    BY <1>10 DEF BrokerStops, BrokerStarts, vars
  <2> QED
    BY <1>0, <2>1 DEF Room, Derived, files, Accounts, NoFile
<1> QED
  BY <1>1, <1>2, <1>3, <1>4, <1>5, <1>6, <1>7, <1>8, <1>9, <1>10 DEF Next

LEMMA TypeStep == TypeInv /\ [Next]_vars => TypeInv'
BY ControlStep, DataStep, DerivedStep, TypeParts, PTL DEF TypeInv

\* Types, the lock and what the command at work has derived (all of the commands' handlers).
THEOREM Typing == Spec => []TypeOK
<1>1. TypeInv => TypeOK
  BY DEF TypeInv
<1> QED
  BY TypeInit, TypeStep, <1>1, PTL DEF Spec

-----------------------------------------------------------------------------
(* What the files and the broker grant.                                     *)

\* While no command works, the last one's success stands; at its reload it becomes true.
SyncInv == TypeInv /\ InSync

LEMMA SyncStep == SyncInv /\ [Next]_vars => InSync'
<1> SUFFICES ASSUME SyncInv, [Next]_vars PROVE InSync'
  OBVIOUS
<1>0. ControlOK /\ DataOK /\ Room /\ Derived /\ InSync
  BY TypeParts DEF SyncInv, TypeInv
<1>1. ASSUME NEW c \in Commands, lock' = c \/ (pc[c] # "idle" /\ lock' = lock) PROVE InSync'
  BY <1>0, <1>1 DEF InSync, Idle, ControlOK
<1>2. ASSUME NEW c \in Commands, Reload(c) PROVE InSync'
  <2>1. passwords = Accounts /\ acl = config /\ \A d \in config : secret[d] # 0
    BY <1>0, <1>2 DEF Derived, Reload
  <2>2. UNCHANGED files
    BY <1>2 DEF Reload
  <2>3. broker'.up => broker'.acc = passwords /\ broker'.acl = acl
    BY <1>2 DEF Reload, Reads
  <2> QED
    BY <1>0, <2>1, <2>2, <2>3 DEF InSync, files, Accounts, DataOK
<1>3. ASSUME NEW c \in Commands, Fail(c) \/ Kill(c) PROVE InSync'
  BY <1>3 DEF InSync, Fail, Kill
<1>4. CASE BrokerStops
  BY <1>0, <1>4 DEF BrokerStops, Down, InSync, Idle, files, ghosts
<1>5. CASE BrokerStarts
  BY <1>0, <1>5 DEF BrokerStarts, Reads, InSync, Idle, files, ghosts
<1>6. CASE UNCHANGED vars
  BY <1>0, <1>6 DEF vars, InSync, Idle, files, ghosts
<1> QED
  BY <1>1, <1>2, <1>3, <1>4, <1>5, <1>6
     DEF Next, Start, SyncMqtt, WriteConfig, WriteSecrets, EnsureSecrets, WriteNew, InstallPasswords,
         InstallAcl

\* A command that succeeds leaves files and broker that grant what is configured
\* (lifecycle._sync, mqtt_auth.sync).
THEOREM SuccessInSync == Spec => []InSync
<1>1. Init => InSync
  BY DEF Init, InSync
<1> QED
  BY <1>1, TypeInit, TypeStep, SyncStep, PTL DEF Spec, SyncInv

-----------------------------------------------------------------------------
SteadyInv == TypeInv /\ SteadyFiles /\ Untouched

LEMMA SteadyStep == SteadyInv /\ [Next]_vars => SteadyFiles' /\ Untouched'
<1> SUFFICES ASSUME SteadyInv, [Next]_vars PROVE SteadyFiles' /\ Untouched'
  OBVIOUS
<1>0. ControlOK /\ DataOK /\ Room /\ Derived /\ SteadyFiles /\ Untouched
  BY TypeParts DEF SteadyInv, TypeInv
<1>a. \A c, e \in Commands : pc[c] # "idle" /\ e # c => pc[e] = "idle"
  BY <1>0 DEF ControlOK
<1>1. ASSUME NEW c \in Commands, NEW d \in Displays, NEW op \in {"add", "remove", "rotate"}, Start(c, op, d)
      PROVE  SteadyFiles' /\ Untouched'
  <2>1. \A e \in Commands : pc'[e] # "idle" => e = c
    BY <1>0, <1>1 DEF Start, Go, ControlOK
  <2>2. job'[c].d = d /\ steady' = steady \ {d}
    BY <1>0, <1>1 DEF Start, ControlOK, Job, Ops
  <2>3. UNCHANGED <<files, broker>>
    BY <1>1 DEF Start
  <2> QED
    BY <1>0, <2>1, <2>2, <2>3 DEF SteadyFiles, Untouched, files
<1>2. ASSUME NEW c \in Commands, SyncMqtt(c) PROVE SteadyFiles' /\ Untouched'
  <2>1. \A e \in Commands : pc'[e] # "idle" => pc'[e] = "sync"
    BY <1>0, <1>2 DEF SyncMqtt, Go, ControlOK
  <2> QED
    BY <1>0, <1>2, <2>1 DEF SyncMqtt, SteadyFiles, Untouched, files, ghosts
<1>3. ASSUME NEW c \in Commands, WriteConfig(c) PROVE SteadyFiles' /\ Untouched'
  <2>1. \A e \in Commands : pc'[e] # "idle" => e = c
    BY <1>0, <1>a, <1>3 DEF WriteConfig, Go, ControlOK
  <2>2. job[c].d \notin steady /\ \A d \in steady : d \in config => d \in config'
    BY <1>0, <1>3 DEF WriteConfig, SteadyFiles
  <2>3. UNCHANGED <<secret, passwords, acl, broker, job, steady>>
    BY <1>3 DEF WriteConfig, ghosts
  <2> QED
    BY <1>0, <2>1, <2>2, <2>3 DEF SteadyFiles, Untouched
<1>4. ASSUME NEW c \in Commands, WriteSecrets(c) PROVE SteadyFiles' /\ Untouched'
  <2>1. \A e \in Commands : pc'[e] # "idle" => pc'[e] = "sync"
    BY <1>0, <1>a, <1>4 DEF WriteSecrets, Go, ControlOK
  <2>2. \A d \in steady : secret'[d] = secret[d]
    BY <1>0, <1>4 DEF WriteSecrets, SteadyFiles, DataOK
  <2>3. UNCHANGED <<config, passwords, acl, broker, steady>>
    BY <1>4 DEF WriteSecrets, ghosts
  <2> QED
    BY <1>0, <2>1, <2>2, <2>3 DEF SteadyFiles, Untouched
<1>5. ASSUME NEW c \in Commands, EnsureSecrets(c) PROVE SteadyFiles' /\ Untouched'
  <2>1. \A e \in Commands : pc'[e] # "idle" => pc'[e] = "write"
    BY <1>0, <1>a, <1>5 DEF EnsureSecrets, Go, ControlOK
  <2>2. \A d \in steady : secret'[d] = secret[d]
    BY <1>0, <1>5 DEF EnsureSecrets, Missing, SteadyFiles, DataOK
  <2>3. UNCHANGED <<config, passwords, acl, broker, steady>>
    BY <1>5 DEF EnsureSecrets, Missing, ghosts
  <2> QED
    BY <1>0, <2>1, <2>2, <2>3 DEF SteadyFiles, Untouched
<1>6. ASSUME NEW c \in Commands, WriteNew(c) PROVE SteadyFiles' /\ Untouched'
  <2>1. \A e \in Commands : pc'[e] # "idle" => pc'[e] = "hash"
    BY <1>0, <1>a, <1>6 DEF WriteNew, Go, ControlOK
  <2> QED
    BY <1>0, <1>6, <2>1 DEF WriteNew, SteadyFiles, Untouched, ghosts
<1>7. ASSUME NEW c \in Commands, InstallPasswords(c) PROVE SteadyFiles' /\ Untouched'
  <2>1. \A e \in Commands : pc'[e] # "idle" => pc'[e] = "acl"
    BY <1>0, <1>a, <1>7 DEF InstallPasswords, Go, ControlOK
  <2>2. \A d \in steady : passwords'[d] = secret[d]
    BY <1>0, <1>7 DEF InstallPasswords, Derived, Accounts, SteadyFiles, DataOK
  <2> QED
    BY <1>0, <1>7, <2>1, <2>2 DEF InstallPasswords, SteadyFiles, Untouched, ghosts
<1>8. ASSUME NEW c \in Commands, InstallAcl(c) PROVE SteadyFiles' /\ Untouched'
  <2>1. \A e \in Commands : pc'[e] # "idle" => pc'[e] = "reload"
    BY <1>0, <1>a, <1>8 DEF InstallAcl, Go, ControlOK
  <2> QED
    BY <1>0, <1>8, <2>1 DEF InstallAcl, SteadyFiles, Untouched, ghosts
<1>9. ASSUME NEW c \in Commands, Reload(c) PROVE SteadyFiles' /\ Untouched'
  <2>1. \A e \in Commands : pc'[e] = "idle"
    BY <1>0, <1>a, <1>9 DEF Reload, Go, ControlOK
  <2>2. passwords = Accounts /\ acl = config /\ steady' = config /\ UNCHANGED files
    BY <1>0, <1>9 DEF Derived, Reload
  <2>3. broker'.up => broker'.acc = passwords /\ broker'.acl = acl
    BY <1>9 DEF Reload, Reads
  <2>4. \A d \in config : secret[d] # 0 /\ passwords[d] = secret[d]
    BY <1>0, <1>9, <2>2 DEF Derived, Reload, Accounts, DataOK
  <2> QED
    BY <2>1, <2>2, <2>3, <2>4 DEF SteadyFiles, Untouched, files
<1>10. ASSUME NEW c \in Commands, Fail(c) \/ Kill(c) PROVE SteadyFiles' /\ Untouched'
  <2>1. \A e \in Commands : pc'[e] = "idle"
    BY <1>0, <1>a, <1>10 DEF Fail, Kill, Go, ControlOK
  <2>2. UNCHANGED <<config, secret, passwords, acl, broker, steady>>
    BY <1>10 DEF Fail, Kill, files
  <2> QED
    BY <1>0, <2>1, <2>2 DEF SteadyFiles, Untouched
<1>11. CASE BrokerStops \/ BrokerStarts \/ UNCHANGED vars
  <2>1. UNCHANGED <<files, pc, job, steady>>
    BY <1>11 DEF BrokerStops, BrokerStarts, vars, ghosts
  <2>2. SteadyFiles'
    BY <1>0, <2>1 DEF SteadyFiles, files
  <2> QED
    BY <1>0, <1>11, <2>1, <2>2 DEF BrokerStops, BrokerStarts, Down, Reads, vars, SteadyFiles, Untouched, files
<1> QED
  BY <1>1, <1>2, <1>3, <1>4, <1>5, <1>6, <1>7, <1>8, <1>9, <1>10, <1>11 DEF Next

\* Commands for other displays, however they end, leave a display its access
\* (add, remove, rotate, ensure_secrets, write_broker_files).
THEOREM OthersUntouched == Spec => []Untouched
<1>1. Init => SteadyFiles /\ Untouched
  BY DEF Init, SteadyFiles, Untouched
<1> QED
  BY <1>1, TypeInit, TypeStep, SteadyStep, PTL DEF Spec, SteadyInv

-----------------------------------------------------------------------------
\* No file holds a revoked password; a new one is numbered above every revoked one.
RevokedGone ==
  \A d \in Displays :
    /\ revoked[d] \subseteq 1 .. made[d]
    /\ secret[d] \notin revoked[d] /\ passwords[d] \notin revoked[d]

RevokedInv == TypeInv /\ RevokedGone /\ RevokedStaysOut

LEMMA RevokedStep == RevokedInv /\ [Next]_vars => RevokedGone' /\ RevokedStaysOut'
<1> SUFFICES ASSUME RevokedInv, [Next]_vars PROVE RevokedGone' /\ RevokedStaysOut'
  OBVIOUS
<1>0. ControlOK /\ DataOK /\ Room /\ Derived /\ RevokedGone /\ RevokedStaysOut
  BY TypeParts DEF RevokedInv, TypeInv
<1>1. ASSUME UNCHANGED <<secret, made, passwords, revoked>>, broker' \in {broker, Down} \/ Reads
      PROVE  RevokedGone' /\ RevokedStaysOut'
  <2>1. RevokedGone'
    BY <1>0, <1>1 DEF RevokedGone
  <2>2. CASE broker' = broker
    BY <1>0, <1>1, <2>1, <2>2 DEF RevokedStaysOut
  <2>3. CASE broker' = Down
    BY <2>1, <2>3 DEF RevokedStaysOut, Down
  <2>4. CASE Reads
    BY <1>0, <1>1, <2>1, <2>4 DEF RevokedStaysOut, Reads, RevokedGone
  <2> QED
    BY <1>1, <2>1, <2>2, <2>3, <2>4
<1>2. ASSUME UNCHANGED <<passwords, revoked, broker>>, made' \in [Displays -> Nat],
             \A d \in Displays : \/ secret'[d] = secret[d] /\ made'[d] = made[d]
                                 \/ secret'[d] = 0 /\ made'[d] = made[d]
                                 \/ secret'[d] = made[d] + 1 /\ made'[d] = made[d] + 1
      PROVE  RevokedGone' /\ RevokedStaysOut'
  <2>1. RevokedStaysOut'
    BY <1>0, <1>2 DEF RevokedStaysOut
  <2>2. ASSUME NEW d \in Displays
        PROVE  /\ revoked'[d] \subseteq 1 .. made'[d]
               /\ secret'[d] \notin revoked'[d] /\ passwords'[d] \notin revoked'[d]
    <3>1. revoked'[d] = revoked[d] /\ revoked[d] \subseteq 1 .. made[d] /\ made[d] \in Nat
      BY <1>0, <1>2, <2>2 DEF RevokedGone, DataOK
    <3>2. secret[d] \notin revoked[d] /\ passwords'[d] \notin revoked[d]
      BY <1>0, <1>2, <2>2 DEF RevokedGone
    <3>3. revoked'[d] \subseteq 1 .. made'[d]
      BY <1>2, <3>1
    <3>4. secret'[d] \notin revoked'[d]
      BY <1>2, <3>1, <3>2
    <3> QED
      BY <3>1, <3>2, <3>3, <3>4
  <2> QED
    BY <2>1, <2>2 DEF RevokedGone
<1>3. ASSUME NEW c \in Commands, WriteSecrets(c) PROVE RevokedGone' /\ RevokedStaysOut'
  <2>1. UNCHANGED <<passwords, revoked, broker>>
    BY <1>3 DEF WriteSecrets, ghosts
  <2>2. made' \in [Displays -> Nat] /\ job[c].d \in Displays
    BY <1>0, <1>3 DEF WriteSecrets, ControlOK, DataOK
  <2>3. \A d \in Displays : \/ secret'[d] = secret[d] /\ made'[d] = made[d]
                            \/ secret'[d] = 0 /\ made'[d] = made[d]
                            \/ secret'[d] = made[d] + 1 /\ made'[d] = made[d] + 1
    <3>1. secret \in [Displays -> Passwords] /\ made \in [Displays -> Passwords]
      BY <1>0 DEF DataOK
    <3>2. CASE job[c].op = "remove"
      <4>1. secret' = [secret EXCEPT ![job[c].d] = 0] /\ made' = made
        BY <1>3, <3>2 DEF WriteSecrets
      <4>2. \A d \in Displays : secret'[d] \in {secret[d], 0} /\ made'[d] = made[d]
        BY <3>1, <4>1
      <4> QED
        BY <4>2
    <3>3. CASE job[c].op # "remove"
      <4>1. /\ secret' = [secret EXCEPT ![job[c].d] = made[job[c].d] + 1]
            /\ made' = [made EXCEPT ![job[c].d] = @ + 1]
        BY <1>3, <3>3 DEF WriteSecrets
      <4>2. \A d \in Displays \ {job[c].d} : secret'[d] = secret[d] /\ made'[d] = made[d]
        BY <3>1, <4>1
      <4>3. secret'[job[c].d] = made[job[c].d] + 1 /\ made'[job[c].d] = made[job[c].d] + 1
        BY <2>2, <3>1, <4>1
      <4> QED
        BY <4>2, <4>3
    <3> QED
      BY <3>2, <3>3
  <2> QED
    BY <1>2, <2>1, <2>2, <2>3
<1>4. ASSUME NEW c \in Commands, EnsureSecrets(c) PROVE RevokedGone' /\ RevokedStaysOut'
  <2>1. UNCHANGED <<passwords, revoked, broker>>
    BY <1>4 DEF EnsureSecrets, ghosts
  <2>2. made' \in [Displays -> Nat]
    BY <1>0, <1>4 DEF EnsureSecrets, DataOK
  <2>3. \A d \in Displays : \/ secret'[d] = secret[d] /\ made'[d] = made[d]
                            \/ secret'[d] = made[d] + 1 /\ made'[d] = made[d] + 1
    BY <1>4 DEF EnsureSecrets
  <2> QED
    BY <1>2, <2>1, <2>2, <2>3
<1>5. ASSUME NEW c \in Commands, InstallPasswords(c) PROVE RevokedGone' /\ RevokedStaysOut'
  <2>1. UNCHANGED <<secret, made, revoked, broker>>
    BY <1>5 DEF InstallPasswords, ghosts
  <2>2. \A d \in Displays : passwords'[d] \in {secret[d], 0}
    BY <1>0, <1>5 DEF InstallPasswords, Derived, Accounts
  <2>3. \A d \in Displays : 0 \notin revoked[d]
    BY <1>0 DEF RevokedGone, DataOK
  <2> QED
    BY <1>0, <2>1, <2>2, <2>3 DEF RevokedGone, RevokedStaysOut
<1>6. ASSUME NEW c \in Commands, Reload(c) PROVE RevokedGone' /\ RevokedStaysOut'
  <2>1. passwords = Accounts /\ UNCHANGED files
    BY <1>0, <1>6 DEF Derived, Reload
  <2>2. \A d \in Displays : passwords[d] \in {secret[d], 0} /\ made[d] \in Nat
    BY <1>0, <2>1 DEF Accounts, DataOK
  <2>3. \A d \in Displays : revoked'[d] = (1 .. made[d]) \ {secret[d]}
    BY <1>6 DEF Reload
  <2>4. broker'.up => broker'.acc = passwords
    BY <1>6 DEF Reload, Reads
  <2>5. RevokedGone'
    BY <2>1, <2>2, <2>3 DEF RevokedGone, files
  <2> QED
    BY <2>2, <2>3, <2>4, <2>5 DEF RevokedStaysOut
<1>7. CASE UNCHANGED vars
  BY <1>1, <1>7 DEF vars, files, ghosts
<1>8. CASE BrokerStops \/ BrokerStarts
  BY <1>1, <1>8 DEF BrokerStops, BrokerStarts, files, ghosts
<1>9. ASSUME NEW c \in Commands,
             \/ \E d \in Displays, op \in {"add", "remove", "rotate"} : Start(c, op, d)
             \/ SyncMqtt(c) \/ WriteConfig(c) \/ WriteNew(c) \/ InstallAcl(c) \/ Fail(c) \/ Kill(c)
      PROVE  RevokedGone' /\ RevokedStaysOut'
  <2>1. UNCHANGED <<secret, made, passwords, revoked, broker>>
    BY <1>9 DEF Start, SyncMqtt, WriteConfig, WriteNew, InstallAcl, Fail, Kill, files, ghosts
  <2> QED
    BY <1>1, <2>1
<1> QED
  BY <1>3, <1>4, <1>5, <1>6, <1>7, <1>8, <1>9 DEF Next

\* A password that remove or rotate took from the secrets is refused after the next success
\* (remove, rotate, write_broker_files, reload_broker).
THEOREM RevokedIsOut == Spec => []RevokedStaysOut
<1>1. Init => RevokedGone /\ RevokedStaysOut
  BY DEF Init, RevokedGone, RevokedStaysOut
<1> QED
  BY <1>1, TypeInit, TypeStep, RevokedStep, PTL DEF Spec, RevokedInv

-----------------------------------------------------------------------------
\* The plaintext exists while it is hashed, or since a kill.
PlainKnown == plain # NoFile => last = "killed" \/ \E c \in Commands : pc[c] = "hash"

LEMMA PlainStep == TypeInv /\ PlainKnown /\ [Next]_vars => PlainKnown'
<1> SUFFICES ASSUME TypeInv, PlainKnown, [Next]_vars PROVE PlainKnown'
  OBVIOUS
<1>0. ControlOK /\ DataOK /\ Derived
  BY TypeParts DEF TypeInv
<1>a. \A c, e \in Commands : pc[c] # "idle" /\ e # c => pc[e] = "idle"
  BY <1>0 DEF ControlOK
<1>1. ASSUME NEW c \in Commands, NEW d \in Displays, NEW op \in {"add", "remove", "rotate"}, Start(c, op, d)
      PROVE  PlainKnown'
  BY <1>0, <1>1 DEF Start, Go, ControlOK, PlainKnown, files, NoFile
<1>2. ASSUME NEW c \in Commands, SyncMqtt(c) PROVE PlainKnown'
  BY <1>0, <1>2 DEF SyncMqtt, Go, ControlOK, PlainKnown, files, ghosts, NoFile
<1>3. ASSUME NEW c \in Commands, WriteConfig(c) \/ WriteSecrets(c) \/ EnsureSecrets(c) \/ InstallAcl(c)
      PROVE  PlainKnown'
  <2>1. plain' = plain /\ last' = last /\ pc[c] # "hash"
    BY <1>3 DEF WriteConfig, WriteSecrets, EnsureSecrets, InstallAcl, ghosts
  <2> QED
    BY <1>0, <1>a, <1>3, <2>1
       DEF WriteConfig, WriteSecrets, EnsureSecrets, InstallAcl, PlainKnown, NoFile
<1>4. ASSUME NEW c \in Commands, WriteNew(c) PROVE PlainKnown'
  <2>1. pc'[c] = "hash"
    BY <1>0, <1>4 DEF WriteNew, Go, ControlOK
  <2> QED
    BY <2>1 DEF PlainKnown
<1>5. ASSUME NEW c \in Commands, InstallPasswords(c) PROVE PlainKnown'
  BY <1>5 DEF InstallPasswords, PlainKnown, NoFile
<1>6. ASSUME NEW c \in Commands, Reload(c) PROVE PlainKnown'
  BY <1>0, <1>6 DEF Reload, Derived, PlainKnown, files, NoFile
<1>7. ASSUME NEW c \in Commands, Fail(c) PROVE PlainKnown'
  <2>1. CASE pc[c] \in {"write", "hash", "acl"}
    BY <1>7, <2>1 DEF Fail, PlainKnown, NoFile
  <2>2. CASE pc[c] \notin {"write", "hash", "acl"}
    <3>1. \A e \in Commands : pc[e] # "hash"
      BY <1>a, <1>7, <2>2 DEF Fail
    <3> QED
      BY <1>7, <2>2, <3>1 DEF Fail, PlainKnown, NoFile
  <2> QED
    BY <2>1, <2>2
<1>8. ASSUME NEW c \in Commands, Kill(c) PROVE PlainKnown'
  BY <1>8 DEF Kill, PlainKnown
<1>9. CASE BrokerStops \/ BrokerStarts \/ UNCHANGED vars
  BY <1>9 DEF BrokerStops, BrokerStarts, vars, files, ghosts, PlainKnown, NoFile
<1> QED
  BY <1>1, <1>2, <1>3, <1>4, <1>5, <1>6, <1>7, <1>8, <1>9 DEF Next

\* The plaintext is removed however a command ends, a kill apart (write_broker_files).
THEOREM PlaintextGone == Spec => []PlainGone
<1>1. Init => PlainKnown
  BY DEF Init, PlainKnown
<1>2. TypeInv /\ PlainKnown => PlainGone
  BY TypeParts DEF TypeInv, PlainKnown, PlainGone, Idle, ControlOK
<1> QED
  BY <1>1, <1>2, TypeInit, TypeStep, PlainStep, PTL DEF Spec

-----------------------------------------------------------------------------
(* The build directories of a display.                                       *)

-----------------------------------------------------------------------------
(* The inductive invariants.                                                 *)

BuildJob == [kind : Kinds \cup {"none", "stored"}, pc : {"idle", "list", "lock", "work", "dirs", "compile", "check"},
        held : BOOLEAN, made : Trees \cup {Absent}, next : Nat, begun : BOOLEAN]
BuildTypes ==
  /\ configured \in [present : BOOLEAN, source : Nat, own : Nat, wifi : Nat \cup {Absent}]
  /\ dirs \in [Dirs -> Trees \cup {Absent}]
  /\ building \in [Builders -> BuildJob]
  /\ scrubbed \in Endings /\ stored \in BOOLEAN /\ removed \in Endings
  /\ changes \in Nat /\ kills \in Nat

Writes == {"render", "build", "stored"}
\* Who is at work under the lock, holds it, and what it writes is whole.
JobFacts(j) ==
  /\ j.next >= 1
  /\ j.pc \in {"idle", "list", "lock"} => ~j.held
  /\ j.pc \in {"work", "dirs", "compile", "check"} /\ j.kind # "remove" => j.held
  /\ j.pc = "compile" => j.kind = "build"
  /\ j.pc = "dirs" => j.kind \in Writes \cup {"remove", "clear"} /\ j.next <= Len(Program(j)) + 1
  /\ j.pc \in {"idle", "list", "lock", "work"} => j.next = 1 /\ j.kind # "stored"
  /\ j.pc \in {"dirs", "compile"} /\ j.kind \in Writes => j.made \in Trees /\ j.made.whole
  /\ j.pc = "check" => j.made \in Trees /\ j.made.whole
JobInv(p) == (building[p].held <=> buildLock = p) /\ JobFacts(building[p])
JobsInv == \A p \in Builders : JobInv(p)

\* Where a whole image is.  A rotation has one at each of its steps, though not always the old one.
Good(d) == dirs[d] # Absent /\ dirs[d].whole
Kept == IF kills = 0 THEN Good("firmware") ELSE Good("firmware") \/ Good("firmware.prev")
Rotating(p) == At(p, "dirs") /\ building[p].kind = "stored"
Removing(p) == At(p, "dirs") /\ building[p].kind = "remove" /\ building[p].held
Scrubbing(p) == At(p, "dirs") /\ building[p].kind = "clear" /\ building[p].held

RotationInv(p) ==
  LET k == building[p].next IN
  /\ k \in 3 .. 5 => Good("firmware.new")
  /\ k = 6 => Good("firmware")
  /\ stored /\ kills < 2 /\ k \in 1 .. 2 => Kept
  /\ stored /\ kills = 0 /\ k \in 3 .. 4 => Good("firmware")
  /\ stored /\ kills = 0 /\ k = 5 => Good("firmware.prev")

ImageInv ==
  /\ stored /\ kills < 2 => Kept \/ \E p \in Builders : Rotating(p)
  /\ \A p \in Builders : Rotating(p) => RotationInv(p)
  /\ \A p \in Builders : Removing(p) => ~stored

\* What a remove has come to is gone; once it has ended, nothing that writes is under way.
RemoveInv ==
  /\ \A p \in Builders : Removing(p) =>
       /\ ~configured.present
       /\ \A k \in 1 .. Len(RemoveTree) : k < building[p].next => dirs[RemoveTree[k].dir] = Absent
  /\ removed = "done" =>
       /\ ~configured.present /\ \A d \in Dirs : dirs[d] = Absent
       /\ \A p \in Builders : building[p].held => At(p, "work") \/ Scrubbing(p)

\* What a scrub has come to has no password; afterwards only projects with a placeholder are written.
Clean(d) == dirs[d] # Absent /\ dirs[d].secret => dirs[d].wifi = Placeholder

ScrubInv ==
  /\ \A p \in Builders : Scrubbing(p) =>
       \A k \in 1 .. Len(Scrub) : k < building[p].next => Clean(Scrub[k].dir)
  /\ scrubbed = "done" =>
       /\ configured.wifi = Absent /\ \A d \in ProjectDirs : Clean(d)
       /\ \A p \in Builders :
            At(p, "dirs") /\ building[p].kind \in {"render", "build"} => building[p].made.wifi = Placeholder

\* Everything of the display is in its own directory.
OwnInv == ownDir \in BOOLEAN /\ (ownDir \/ \A d \in Dirs : dirs[d] = Absent)

-----------------------------------------------------------------------------
(* The directory programs, operation by operation.                           *)

LEMMA ProjectOps ==
  /\ Len(WriteProject) = 6
  /\ \A k \in 1 .. 6 :
       /\ WriteProject[k].op \in {"rm", "put", "mv"}
       /\ WriteProject[k].dir \in ProjectDirs /\ WriteProject[k].to \in ProjectDirs
       /\ WriteProject[k].op = "mv" => WriteProject[k].dir # WriteProject[k].to
<1>1. Len(WriteProject) = 6 BY DEF WriteProject
<1>2. ASSUME NEW k \in 1 .. 6
      PROVE  WriteProject[k] \in {Rm("legacy"), Rm("project.new"), Put("project.new"), Rm("project.prev"),
                                  Mv("project", "project.prev"), Mv("project.new", "project")}
  <2>1. k = 1 \/ k = 2 \/ k = 3 \/ k = 4 \/ k = 5 \/ k = 6 OBVIOUS
  <2> QED BY <2>1 DEF WriteProject
<1> QED BY <1>1, <1>2 DEF Rm, Put, Mv, Op, ProjectDirs

LEMMA RotateOps ==
  /\ Len(Rotate) = 5
  /\ Rotate[1] = Rm("firmware.new") /\ Rotate[2] = Put("firmware.new") /\ Rotate[3] = Rm("firmware.prev")
  /\ Rotate[4] = Mv("firmware", "firmware.prev") /\ Rotate[5] = Mv("firmware.new", "firmware")
BY DEF Rotate

LEMMA RemoveOps ==
  /\ Len(RemoveTree) = 7
  /\ \A k \in 1 .. 7 : RemoveTree[k].op = "rm" /\ RemoveTree[k].dir \in Dirs /\ RemoveTree[k].to = RemoveTree[k].dir
  /\ \A d \in Dirs : \E k \in 1 .. 7 : RemoveTree[k].dir = d
<1>1. /\ Len(RemoveTree) = 7 /\ RemoveTree[1] = Rm("firmware") /\ RemoveTree[2] = Rm("firmware.new")
      /\ RemoveTree[3] = Rm("firmware.prev") /\ RemoveTree[4] = Rm("legacy") /\ RemoveTree[5] = Rm("project")
      /\ RemoveTree[6] = Rm("project.new") /\ RemoveTree[7] = Rm("project.prev")
  BY DEF RemoveTree
<1>2. \A k \in 1 .. 7 : k = 1 \/ k = 2 \/ k = 3 \/ k = 4 \/ k = 5 \/ k = 6 \/ k = 7 OBVIOUS
<1>3. ASSUME NEW k \in 1 .. 7 PROVE \E d \in Dirs : RemoveTree[k] = Rm(d)
  BY <1>1, <1>2 DEF Dirs, ProjectDirs
<1>4. ASSUME NEW d \in Dirs PROVE \E k \in 1 .. 7 : RemoveTree[k] = Rm(d)
  BY <1>1 DEF Dirs, ProjectDirs
<1> QED BY <1>1, <1>3, <1>4 DEF Rm, Op

LEMMA ScrubOps ==
  /\ Len(Scrub) = 4
  /\ \A k \in 1 .. 4 : Scrub[k].op = "unlink" /\ Scrub[k].dir \in ProjectDirs /\ Scrub[k].to = Scrub[k].dir
  /\ \A d \in ProjectDirs : \E k \in 1 .. 4 : Scrub[k].dir = d
<1>1. /\ Len(Scrub) = 4 /\ Scrub[1] = Unlink("legacy") /\ Scrub[2] = Unlink("project")
      /\ Scrub[3] = Unlink("project.new") /\ Scrub[4] = Unlink("project.prev")
  BY DEF Scrub
<1>2. \A k \in 1 .. 4 : k = 1 \/ k = 2 \/ k = 3 \/ k = 4 OBVIOUS
<1>3. ASSUME NEW k \in 1 .. 4 PROVE \E d \in ProjectDirs : Scrub[k] = Unlink(d)
  BY <1>1, <1>2 DEF ProjectDirs
<1>4. ASSUME NEW d \in ProjectDirs PROVE \E k \in 1 .. 4 : Scrub[k] = Unlink(d)
  BY <1>1 DEF ProjectDirs
<1> QED BY <1>1, <1>3, <1>4 DEF Unlink, Op

\* Which program a command at its directories runs.
LEMMA WhichProgram ==
  ASSUME BuildTypes, JobsInv, NEW p \in Builders, At(p, "dirs")
  PROVE  LET j == building[p] IN
         /\ j.kind \in {"render", "build"} => j.held /\ Program(j) = WriteProject /\ j.next \in 1 .. 7
         /\ j.kind = "stored" => j.held /\ Program(j) = Rotate /\ j.next \in 1 .. 6
         /\ j.kind = "remove" /\ j.held => Program(j) = RemoveTree /\ j.next \in 1 .. 8
         /\ j.kind = "clear" /\ j.held => Program(j) = Scrub /\ j.next \in 1 .. 5
         /\ ~j.held => Program(j) = <<>> /\ j.kind \in {"remove", "clear"}
<1> DEFINE j == building[p]
<1>1. /\ j.pc = "dirs" /\ j.kind \in Writes \cup {"remove", "clear"} /\ j.next \in Nat /\ j.next >= 1
      /\ j.next <= Len(Program(j)) + 1 /\ j.held \in BOOLEAN
      /\ j.kind \notin {"remove", "clear"} => j.held
  BY DEF JobsInv, JobInv, JobFacts, At, BuildTypes, BuildJob
<1> HIDE DEF j
<1>2. CASE j.kind \in {"render", "build"}
  <2>1. j.held /\ Program(j) = WriteProject BY <1>1, <1>2 DEF Program
  <2> QED BY <1>1, <1>2, <2>1, ProjectOps DEF j
<1>3. CASE j.kind = "stored"
  <2>1. j.held /\ Program(j) = Rotate BY <1>1, <1>3 DEF Program
  <2> QED BY <1>1, <1>3, <2>1, RotateOps DEF j
<1>4. CASE j.kind = "remove" /\ j.held
  <2>1. Program(j) = RemoveTree BY <1>1, <1>4 DEF Program
  <2> QED BY <1>1, <1>4, <2>1, RemoveOps DEF j
<1>5. CASE j.kind = "clear" /\ j.held
  <2>1. Program(j) = Scrub BY <1>1, <1>5 DEF Program
  <2> QED BY <1>1, <1>5, <2>1, ScrubOps DEF j
<1>6. CASE ~j.held
  <2>1. Program(j) = <<>> BY <1>6 DEF Program
  <2> QED BY <1>1, <1>6, <2>1 DEF j
<1> QED BY <1>1, <1>2, <1>3, <1>4, <1>5, <1>6 DEF Writes

\* A command with an operation before it holds the lock, and the operation is one of its program.
LEMMA CurrentOp ==
  ASSUME BuildTypes, JobsInv, NEW p \in Builders, Working(p)
  PROVE  LET j == building[p] IN
         /\ j.held /\ buildLock = p /\ j.pc = "dirs" /\ j.kind \in Writes \cup {"remove", "clear"}
         /\ j.kind \in {"render", "build"} =>
              /\ j.next \in 1 .. 6 /\ Current(p) = WriteProject[j.next]
              /\ Current(p).dir \in ProjectDirs /\ Current(p).to \in ProjectDirs
         /\ j.kind = "stored" => j.next \in 1 .. 5 /\ Current(p) = Rotate[j.next]
         /\ j.kind = "remove" => j.next \in 1 .. 7 /\ Current(p) = RemoveTree[j.next]
         /\ j.kind = "clear" => j.next \in 1 .. 4 /\ Current(p) = Scrub[j.next]
         /\ Current(p).op \in {"rm", "put", "mv", "unlink"}
         /\ Current(p).dir \in Dirs /\ Current(p).to \in Dirs
         /\ Current(p).op = "mv" => Current(p).dir # Current(p).to
         /\ Current(p).op = "put" => j.kind \in Writes
<1> DEFINE j == building[p]
<1>1. /\ j.pc = "dirs" /\ j.kind \in Writes \cup {"remove", "clear"} /\ (j.held <=> buildLock = p)
      /\ j.next \in Nat /\ j.next >= 1
  BY DEF JobsInv, JobInv, JobFacts, Working, At, BuildTypes, BuildJob
<1>2. Working(p) => j.next <= Len(Program(j)) BY DEF Working
<1>3. j.held
  <2>1. SUFFICES ASSUME ~j.held PROVE FALSE OBVIOUS
  <2>2. Program(j) = <<>> BY <2>1 DEF Program
  <2> QED BY <1>1, <1>2, <2>2
<1>4. ProjectDirs \subseteq Dirs BY DEF Dirs
<1>5. CASE j.kind \in {"render", "build"}
  <2>1. Program(j) = WriteProject BY <1>3, <1>5 DEF Program
  <2>2. j.next \in 1 .. 6 /\ Current(p) = WriteProject[j.next] BY <1>1, <1>2, <2>1, ProjectOps DEF Current
  <2> QED BY <1>1, <1>3, <1>4, <1>5, <2>2, ProjectOps DEF Writes
<1>6. CASE j.kind = "stored"
  <2>1. Program(j) = Rotate BY <1>3, <1>6 DEF Program
  <2>2. j.next \in 1 .. 5 /\ Current(p) = Rotate[j.next] BY <1>1, <1>2, <2>1, RotateOps DEF Current
  <2>3. j.next = 1 \/ j.next = 2 \/ j.next = 3 \/ j.next = 4 \/ j.next = 5 BY <2>2
  <2>4. /\ Current(p).op \in {"rm", "put", "mv"} /\ Current(p).dir \in Dirs /\ Current(p).to \in Dirs
        /\ Current(p).op = "mv" => Current(p).dir # Current(p).to
    BY <2>2, <2>3, RotateOps DEF Rm, Put, Mv, Op, Dirs
  <2> QED BY <1>1, <1>3, <1>6, <2>2, <2>4 DEF Writes
<1>7. CASE j.kind = "remove"
  <2>1. Program(j) = RemoveTree BY <1>3, <1>7 DEF Program
  <2>2. j.next \in 1 .. 7 /\ Current(p) = RemoveTree[j.next] BY <1>1, <1>2, <2>1, RemoveOps DEF Current
  <2> QED BY <1>1, <1>3, <1>7, <2>2, RemoveOps
<1>8. CASE j.kind = "clear"
  <2>1. Program(j) = Scrub BY <1>3, <1>8 DEF Program
  <2>2. j.next \in 1 .. 4 /\ Current(p) = Scrub[j.next] BY <1>1, <1>2, <2>1, ScrubOps DEF Current
  <2> QED BY <1>1, <1>3, <1>4, <1>8, <2>2, ScrubOps
<1> QED BY <1>1, <1>5, <1>6, <1>7, <1>8 DEF Writes

\* What one operation does.
LEMMA StepOutcome ==
  ASSUME BuildTypes, JobsInv, NEW p \in Builders, Step(p)
  PROVE  LET op == Current(p)  j == building[p]  n == building'[p].next IN
         /\ building' = [building EXCEPT ![p] = building'[p]] /\ building'[p] \in BuildJob
         /\ building'[p].kind = j.kind /\ building'[p].pc = j.pc /\ building'[p].held = j.held
         /\ building'[p].made = j.made /\ n \in {j.next, j.next + 1}
         /\ dirs' \in [Dirs -> Trees \cup {Absent}]
         /\ stored' \in BOOLEAN /\ (op.op # "mv" \/ op.to # "firmware" => stored' = stored)
         /\ \A d \in Dirs : d # op.dir /\ d # op.to => dirs'[d] = dirs[d]
         /\ op.op = "rm" =>
              \/ n = j.next + 1 /\ dirs' = [dirs EXCEPT ![op.dir] = Absent]
              \/ n = j.next /\ dirs[op.dir] # Absent /\ dirs' = [dirs EXCEPT ![op.dir].whole = FALSE]
         /\ op.op = "put" =>
              \/ n = j.next + 1 /\ dirs' = [dirs EXCEPT ![op.dir] = j.made]
              \/ n = j.next /\ dirs' = [dirs EXCEPT ![op.dir] = [j.made EXCEPT !.whole = FALSE]]
         /\ op.op = "mv" =>
              /\ n = j.next + 1
              /\ IF dirs[op.dir] = Absent THEN dirs' = dirs
                 ELSE dirs' = [dirs EXCEPT ![op.to] = dirs[op.dir], ![op.dir] = Absent]
         /\ op.op = "unlink" =>
              /\ n = j.next + 1
              /\ IF dirs[op.dir] = Absent THEN dirs' = dirs ELSE dirs' = [dirs EXCEPT ![op.dir].secret = FALSE]
<1> DEFINE op == Current(p)
           j == building[p]
           cut == op.op \in {"rm", "put"} /\ ~j.begun /\ (op.op = "rm" => dirs[op.dir] # Absent)
           n == building'[p].next
<1>1. Working(p) BY DEF Step
<1>2. /\ op.op \in {"rm", "put", "mv", "unlink"} /\ op.dir \in Dirs /\ op.to \in Dirs
      /\ op.op = "mv" => op.dir # op.to
      /\ op.op = "put" => j.kind \in Writes
      /\ j.pc = "dirs"
  BY <1>1, CurrentOp
<1>3. /\ building \in [Builders -> BuildJob] /\ j \in BuildJob /\ dirs \in [Dirs -> Trees \cup {Absent}]
      /\ dirs[op.dir] \in Trees \cup {Absent}
  BY <1>2 DEF BuildTypes
<1>4. op.op = "put" => j.made \in Trees /\ j.made.whole BY <1>2 DEF JobsInv, JobInv, JobFacts
<1>5. /\ \/ op.op = "rm" /\ cut /\ dirs' = [dirs EXCEPT ![op.dir].whole = FALSE]
         \/ op.op = "rm" /\ ~cut /\ dirs' = [dirs EXCEPT ![op.dir] = Absent]
         \/ op.op = "put" /\ dirs' = [dirs EXCEPT ![op.dir] = [j.made EXCEPT !.whole = @ /\ ~cut]]
         \/ op.op \in {"mv", "unlink"} /\ dirs[op.dir] = Absent /\ dirs' = dirs
         \/ op.op = "mv" /\ dirs[op.dir] # Absent
            /\ dirs' = [dirs EXCEPT ![op.to] = dirs[op.dir], ![op.dir] = Absent]
         \/ op.op = "unlink" /\ dirs[op.dir] # Absent /\ dirs' = [dirs EXCEPT ![op.dir].secret = FALSE]
      /\ stored' = (stored \/ (op.op = "mv" /\ op.to = "firmware"))
      /\ building' = [building EXCEPT ![p] = [j EXCEPT !.begun = cut, !.next = IF cut THEN @ ELSE @ + 1]]
  BY DEF Step, Set, Content
<1>6. cut \in BOOLEAN OBVIOUS
<1>7. cut => op.op \in {"rm", "put"} /\ (op.op = "rm" => dirs[op.dir] # Absent) OBVIOUS
<1> HIDE DEF op, cut
<1>9. building'[p] = [j EXCEPT !.begun = cut, !.next = IF cut THEN @ ELSE @ + 1] BY <1>3, <1>5
<1>10. j.next \in Nat BY <1>3 DEF BuildJob
<1>11. building'[p] \in BuildJob
  <2>1. (IF cut THEN j.next ELSE j.next + 1) \in Nat BY <1>10
  <2> QED BY <1>3, <1>6, <1>9, <2>1 DEF BuildJob
<1> HIDE DEF j
<1>12. /\ building'[p].kind = j.kind /\ building'[p].pc = j.pc /\ building'[p].held = j.held
       /\ building'[p].made = j.made
  BY <1>3, <1>9 DEF BuildJob
<1>13. n = (IF cut THEN j.next ELSE j.next + 1) BY <1>3, <1>9 DEF BuildJob
<1> HIDE DEF n
<1>14. /\ op.op = "rm" =>
            \/ n = j.next + 1 /\ dirs' = [dirs EXCEPT ![op.dir] = Absent]
            \/ n = j.next /\ dirs[op.dir] # Absent /\ dirs' = [dirs EXCEPT ![op.dir].whole = FALSE]
       /\ op.op = "put" =>
            \/ n = j.next + 1 /\ dirs' = [dirs EXCEPT ![op.dir] = j.made]
            \/ n = j.next /\ dirs' = [dirs EXCEPT ![op.dir] = [j.made EXCEPT !.whole = FALSE]]
       /\ op.op = "mv" =>
            /\ n = j.next + 1
            /\ IF dirs[op.dir] = Absent THEN dirs' = dirs
               ELSE dirs' = [dirs EXCEPT ![op.to] = dirs[op.dir], ![op.dir] = Absent]
       /\ op.op = "unlink" =>
            /\ n = j.next + 1
            /\ IF dirs[op.dir] = Absent THEN dirs' = dirs ELSE dirs' = [dirs EXCEPT ![op.dir].secret = FALSE]
  <2>1. CASE op.op = "rm"
    <3>1. CASE cut BY <1>5, <1>7, <1>13, <2>1, <3>1
    <3>2. CASE ~cut BY <1>5, <1>13, <2>1, <3>2
    <3> QED BY <3>1, <3>2
  <2>2. CASE op.op = "put"
    <3>1. j.made \in Trees /\ j.made.whole BY <1>4, <2>2
    <3>2. CASE cut
      <4>1. [j.made EXCEPT !.whole = @ /\ ~cut] = [j.made EXCEPT !.whole = FALSE] BY <3>1, <3>2
      <4> QED BY <1>5, <1>13, <2>2, <3>2, <4>1
    <3>3. CASE ~cut
      <4>1. [j.made EXCEPT !.whole = @ /\ ~cut] = j.made BY <3>1, <3>3 DEF Trees
      <4> QED BY <1>5, <1>13, <2>2, <3>3, <4>1
    <3> QED BY <3>2, <3>3
  <2>3. CASE op.op \in {"mv", "unlink"}
    <3>1. ~cut BY <1>7, <2>3
    <3> QED BY <1>5, <1>13, <2>3, <3>1
  <2> QED BY <1>2, <2>1, <2>2, <2>3
<1>15. dirs' \in [Dirs -> Trees \cup {Absent}]
  <2>1. \A t \in Trees : [t EXCEPT !.whole = FALSE] \in Trees /\ [t EXCEPT !.secret = FALSE] \in Trees BY DEF Trees
  <2>2. CASE op.op = "rm"
    <3>1. dirs[op.dir] # Absent => dirs[op.dir] \in Trees BY <1>3
    <3> QED BY <1>2, <1>3, <1>14, <2>1, <2>2, <3>1
  <2>3. CASE op.op = "put" BY <1>2, <1>3, <1>4, <1>14, <2>1, <2>3 DEF j
  <2>4. CASE op.op = "mv" BY <1>2, <1>3, <1>14, <2>4
  <2>5. CASE op.op = "unlink"
    <3>1. dirs[op.dir] # Absent => dirs[op.dir] \in Trees BY <1>3
    <3> QED BY <1>2, <1>3, <1>14, <2>1, <2>5, <3>1
  <2> QED BY <1>2, <2>2, <2>3, <2>4, <2>5
<1>16. \A d \in Dirs : d # op.dir /\ d # op.to => dirs'[d] = dirs[d]
  BY <1>2, <1>3, <1>14
<1>17. building' = [building EXCEPT ![p] = building'[p]] BY <1>5, <1>9
<1>18. n \in {j.next, j.next + 1} BY <1>13
<1>19. stored' \in BOOLEAN /\ (op.op # "mv" \/ op.to # "firmware" => stored' = stored) BY <1>5 DEF BuildTypes
<1> QED BY <1>11, <1>12, <1>14, <1>15, <1>16, <1>17, <1>18, <1>19 DEF op, j, n

-----------------------------------------------------------------------------
(* Types, and who holds the lock.                                            *)

LEMMA RestFacts == AtRest \in BuildJob /\ JobFacts(AtRest)
BY DEF AtRest, BuildJob, JobFacts, Writes

\* One command moves on; the lock is still its own or still another's.
LEMMA OneMoves ==
  ASSUME BuildTypes, JobsInv, NEW p \in Builders, NEW f \in BuildJob, building' = [building EXCEPT ![p] = f],
         JobFacts(f), f.held <=> buildLock' = p,
         \A q \in Builders : q # p => (buildLock' = q <=> buildLock = q)
  PROVE  building' \in [Builders -> BuildJob] /\ JobsInv'
<1>1. building \in [Builders -> BuildJob] BY DEF BuildTypes
<1>2. building' \in [Builders -> BuildJob] /\ building'[p] = f BY <1>1
<1>3. ASSUME NEW q \in Builders PROVE JobInv(q)'
  <2>1. CASE q = p BY <1>2, <2>1 DEF JobInv
  <2>2. CASE q # p
    <3>1. building'[q] = building[q] BY <1>1, <2>2
    <3>2. JobInv(q) BY DEF JobsInv
    <3> QED BY <2>2, <3>1, <3>2 DEF JobInv
  <2> QED BY <2>1, <2>2
<1> QED BY <1>2, <1>3 DEF JobsInv

LEMMA OneEnds ==
  ASSUME BuildTypes, JobsInv, NEW p \in Builders, End(p)
  PROVE  building' \in [Builders -> BuildJob] /\ JobsInv'
<1>1. building' = [building EXCEPT ![p] = AtRest] BY DEF End, Set
<1>2. buildLock' = IF buildLock = p THEN Absent ELSE buildLock BY DEF End, Release
<1>3. ~AtRest.held BY DEF AtRest
<1>4. buildLock' # p /\ \A q \in Builders : q # p => (buildLock' = q <=> buildLock = q)
  BY <1>2, BuildAssumption
<1> QED BY <1>1, <1>3, <1>4, RestFacts, OneMoves

\* Changes of the configuration.
Configuration == [present : BOOLEAN, source : Nat, own : Nat, wifi : Nat \cup {Absent}]

LEMMA TypesStep ==
  ASSUME BuildTypes, JobsInv, [BuildNext]_buildVars
  PROVE  BuildTypes' /\ JobsInv'
<1>0. /\ configured \in Configuration /\ dirs \in [Dirs -> Trees \cup {Absent}] /\ building \in [Builders -> BuildJob]
      /\ scrubbed \in Endings /\ stored \in BOOLEAN /\ removed \in Endings /\ changes \in Nat /\ kills \in Nat
  BY DEF BuildTypes, Configuration
<1>1. ASSUME NEW p \in Builders, NEW kind \in Kinds, Begin(p, kind) PROVE BuildTypes' /\ JobsInv'
  <2> DEFINE to == IF kind = "clear" THEN "list" ELSE "lock"
             f == [AtRest EXCEPT !.kind = kind, !.pc = to]
  <2>1. /\ building' = [building EXCEPT ![p] = f] /\ UNCHANGED buildLock /\ building[p].pc = "idle"
        /\ configured' = IF kind = "clear" THEN [configured EXCEPT !.wifi = Absent] ELSE configured
        /\ UNCHANGED <<dirs, scrubbed, stored, removed, changes, kills>>
    BY <1>1 DEF Begin, Set, At
  <2>2. f \in BuildJob /\ JobFacts(f) /\ ~f.held
    <3>1. AtRest \in BuildJob /\ AtRest.held = FALSE /\ AtRest.next = 1 BY RestFacts DEF AtRest
    <3>0. to \in {"list", "lock"} OBVIOUS
    <3> HIDE DEF to
    <3>2. f \in BuildJob BY <3>0, <3>1 DEF BuildJob
    <3>3. kind # "stored" BY DEF Kinds
    <3>4. f.pc = to /\ f.held = FALSE /\ f.next = 1 /\ f.kind = kind BY <3>1 DEF BuildJob
    <3> HIDE DEF f
    <3> QED BY <3>0, <3>2, <3>3, <3>4 DEF JobFacts
  <2>3. buildLock # p BY <2>1 DEF JobsInv, JobInv, JobFacts
  <2> HIDE DEF f
  <2>4. building' \in [Builders -> BuildJob] /\ JobsInv' BY <2>1, <2>2, <2>3, OneMoves
  <2>5. configured' \in Configuration BY <1>0, <2>1 DEF Configuration
  <2> QED BY <1>0, <2>1, <2>4, <2>5 DEF BuildTypes, Configuration
<1>2. ASSUME NEW p \in Builders, TakeLock(p) PROVE BuildTypes' /\ JobsInv'
  <2>1. UNCHANGED <<configured, dirs, scrubbed, stored, removed, changes, kills>> BY <1>2 DEF TakeLock
  <2>2. building[p] \in BuildJob /\ building[p].pc = "lock" /\ buildLock = Absent BY <1>0, <1>2 DEF TakeLock, At, Free
  <2>3. /\ ~building[p].held /\ building[p].next = 1 /\ building[p].kind # "stored"
    BY <2>2 DEF JobsInv, JobInv, JobFacts
  <2>4. CASE building[p].kind = "remove" /\ ~madeDirs
    <3> DEFINE f == [building[p] EXCEPT !.pc = "work"]
    <3>1. building' = [building EXCEPT ![p] = f] /\ UNCHANGED buildLock BY <1>2, <2>4 DEF TakeLock, Set
    <3>2. f \in BuildJob /\ JobFacts(f) /\ ~f.held BY <2>2, <2>3, <2>4 DEF BuildJob, JobFacts
    <3>3. buildLock # p BY <2>2, BuildAssumption
    <3> HIDE DEF f
    <3>4. building' \in [Builders -> BuildJob] /\ JobsInv' BY <3>1, <3>2, <3>3, OneMoves
    <3> QED BY <1>0, <2>1, <3>4 DEF BuildTypes, Configuration
  <2>5. CASE ~(building[p].kind = "remove" /\ ~madeDirs)
    <3> DEFINE f == [building[p] EXCEPT !.pc = "work", !.held = TRUE]
    <3>1. building' = [building EXCEPT ![p] = f] /\ buildLock' = p BY <1>2, <2>5 DEF TakeLock, Set
    <3>2. f \in BuildJob /\ JobFacts(f) /\ f.held
      <4>1. /\ f \in BuildJob /\ f.held /\ f.pc = "work" /\ f.kind = building[p].kind /\ f.next = 1
        BY <2>2, <2>3 DEF BuildJob
      <4> HIDE DEF f
      <4> QED BY <2>3, <4>1 DEF JobFacts
    <3>3. \A q \in Builders : q # p => (buildLock' = q <=> buildLock = q) BY <2>2, <3>1, BuildAssumption
    <3> HIDE DEF f
    <3>4. building' \in [Builders -> BuildJob] /\ JobsInv' BY <3>1, <3>2, <3>3, OneMoves
    <3> QED BY <1>0, <2>1, <3>4 DEF BuildTypes, Configuration
  <2> QED BY <2>4, <2>5
<1>3. ASSUME NEW p \in Builders, GiveUp(p) PROVE BuildTypes' /\ JobsInv'
  <2>1. /\ building' = [building EXCEPT ![p] = AtRest] /\ UNCHANGED buildLock /\ building[p].pc = "lock"
        /\ UNCHANGED <<configured, dirs, scrubbed, stored, removed, changes, kills>>
    BY <1>3 DEF GiveUp, Set, At
  <2>2. buildLock # p BY <2>1 DEF JobsInv, JobInv, JobFacts
  <2>3. ~AtRest.held BY DEF AtRest
  <2>4. building' \in [Builders -> BuildJob] /\ JobsInv' BY <2>1, <2>2, <2>3, RestFacts, OneMoves
  <2> QED BY <1>0, <2>1, <2>4 DEF BuildTypes, Configuration
<1>4. ASSUME NEW p \in Builders, End(p), configured' \in Configuration, dirs' \in [Dirs -> Trees \cup {Absent}],
             scrubbed' \in Endings, stored' \in BOOLEAN, removed' \in Endings, changes' \in Nat, kills' \in Nat
      PROVE  BuildTypes' /\ JobsInv'
  BY <1>4, OneEnds DEF BuildTypes, Configuration
<1>5. ASSUME NEW p \in Builders, Render(p) PROVE BuildTypes' /\ JobsInv'
  <2>1. UNCHANGED <<configured, dirs, scrubbed, stored, removed, changes, kills>> BY <1>5 DEF Render
  <2>2. CASE End(p) BY <1>0, <1>4, <2>1, <2>2
  <2>3. CASE ~End(p)
    <3>1. PICK wifi \in {configured.wifi} \cup (IF building[p].kind = "render" THEN {Placeholder} ELSE {}) :
            /\ wifi # Absent /\ UNCHANGED buildLock
            /\ building' = [building EXCEPT ![p] = [building[p] EXCEPT !.pc = "dirs", !.made = Rendered(wifi)]]
      BY <1>5, <2>3 DEF Render, Set
    <3> DEFINE f == [building[p] EXCEPT !.pc = "dirs", !.made = Rendered(wifi)]
    <3>2. Rendered(wifi) \in Trees /\ Rendered(wifi).whole
      BY <1>0, <3>1 DEF Rendered, Trees, Configuration
    <3>3. building[p] \in BuildJob /\ building[p].pc = "work" /\ building[p].kind \in {"render", "build"}
      BY <1>0, <1>5 DEF Render, At
    <3>4. building[p].held /\ building[p].next = 1 /\ buildLock = p
      BY <3>3 DEF JobsInv, JobInv, JobFacts
    <3>5. f \in BuildJob /\ f.held /\ f.pc = "dirs" /\ f.kind \in {"render", "build"} /\ f.next = 1 /\ f.made = Rendered(wifi)
      BY <3>2, <3>3, <3>4 DEF BuildJob
    <3>6. building' = [building EXCEPT ![p] = f] BY <3>1
    <3> HIDE DEF f
    <3>7. Len(Program(f)) = 6 BY <3>5, ProjectOps DEF Program
    <3>8. JobFacts(f) BY <3>2, <3>5, <3>7 DEF JobFacts, Writes
    <3>9. building' \in [Builders -> BuildJob] /\ JobsInv' BY <3>1, <3>4, <3>5, <3>6, <3>8, OneMoves
    <3> QED BY <1>0, <2>1, <3>9 DEF BuildTypes, Configuration
  <2> QED BY <2>2, <2>3
<1>6. ASSUME NEW p \in Builders, Compile(p) PROVE BuildTypes' /\ JobsInv'
  <2>1. UNCHANGED <<configured, dirs, scrubbed, stored, removed, changes, kills>> BY <1>6 DEF Compile
  <2>2. CASE End(p) BY <1>0, <1>4, <2>1, <2>2
  <2>3. CASE ~End(p)
    <3> DEFINE image == [building[p].made EXCEPT !.secret = FALSE]
               f == [building[p] EXCEPT !.pc = "dirs", !.kind = "stored", !.made = image, !.next = 1]
    <3>1. building' = [building EXCEPT ![p] = f] /\ UNCHANGED buildLock BY <1>6, <2>3 DEF Compile, Set
    <3>2. building[p] \in BuildJob /\ building[p].pc = "compile" BY <1>0, <1>6 DEF Compile, At
    <3>3. building[p].held /\ buildLock = p /\ building[p].made \in Trees /\ building[p].made.whole
      BY <3>2 DEF JobsInv, JobInv, JobFacts, Writes
    <3>4. image \in Trees /\ image.whole
      BY <3>3 DEF Trees
    <3> HIDE DEF image
    <3>5. /\ f \in BuildJob /\ f.held /\ f.pc = "dirs" /\ f.kind = "stored" /\ f.next = 1
          /\ f.made = image
      <4>1. f \in BuildJob
        <5> DEFINE g == [building[p] EXCEPT !.pc = "dirs", !.kind = "stored"]
        <5>1. g \in BuildJob BY <3>2 DEF BuildJob
        <5>2. f = [g EXCEPT !.made = image, !.next = 1] OBVIOUS
        <5> HIDE DEF f, g
        <5> QED BY <3>4, <5>1, <5>2 DEF BuildJob
      <4>2. f.held = building[p].held /\ f.pc = "dirs" /\ f.kind = "stored" /\ f.next = 1 /\ f.made = image
        BY <3>2 DEF BuildJob
      <4> QED BY <3>3, <4>1, <4>2
    <3> HIDE DEF f
    <3>6. Len(Program(f)) = 5 BY <3>5, RotateOps DEF Program
    <3>7. JobFacts(f) BY <3>4, <3>5, <3>6 DEF JobFacts, Writes
    <3>8. building' \in [Builders -> BuildJob] /\ JobsInv' BY <3>1, <3>3, <3>5, <3>7, OneMoves
    <3> QED BY <1>0, <2>1, <3>8 DEF BuildTypes, Configuration
  <2> QED BY <2>2, <2>3
<1>7. ASSUME NEW p \in Builders, Remove(p) \/ StartScrub(p) PROVE BuildTypes' /\ JobsInv'
  <2>1. /\ building[p] \in BuildJob /\ building[p].pc = "work" /\ building[p].kind \in {"remove", "clear"}
        /\ UNCHANGED <<dirs, scrubbed, changes, kills>> /\ removed' \in Endings
        /\ building[p].kind = "clear" => building[p].held
    BY <1>0, <1>7 DEF Remove, StartScrub, At, Endings, JobsInv, JobInv, JobFacts
  <2>2. configured' \in Configuration /\ stored' \in BOOLEAN
    BY <1>0, <1>7 DEF Remove, StartScrub, Configuration
  <2>3. CASE End(p) BY <1>0, <1>4, <2>1, <2>2, <2>3
  <2>4. CASE ~End(p)
    <3> DEFINE f == [building[p] EXCEPT !.pc = "dirs"]
    <3>1. building' = [building EXCEPT ![p] = f] /\ UNCHANGED buildLock BY <1>7, <2>4 DEF Remove, StartScrub, Set
    <3>2. (building[p].held <=> buildLock = p) /\ building[p].next = 1
      BY <2>1 DEF JobsInv, JobInv, JobFacts
    <3>3. /\ f \in BuildJob /\ f.held = building[p].held /\ f.pc = "dirs" /\ f.kind \in {"remove", "clear"} /\ f.next = 1
          /\ f.kind = building[p].kind
      BY <2>1, <3>2 DEF BuildJob
    <3> HIDE DEF f
    <3>4. Len(Program(f)) \in Nat
      <4>1. Program(f) = RemoveTree \/ Program(f) = Scrub \/ Program(f) = <<>> BY <3>3 DEF Program
      <4> QED BY <4>1, RemoveOps, ScrubOps
    <3>5. JobFacts(f) BY <2>1, <3>3, <3>4 DEF JobFacts, Writes
    <3>6. building' \in [Builders -> BuildJob] /\ JobsInv' BY <3>1, <3>2, <3>3, <3>5, OneMoves
    <3> QED BY <1>0, <2>1, <2>2, <3>6 DEF BuildTypes, Configuration
  <2> QED BY <2>3, <2>4
<1>8. ASSUME NEW p \in Builders, Step(p) PROVE BuildTypes' /\ JobsInv'
  <2> DEFINE f == building'[p]
  <2>1. UNCHANGED <<configured, buildLock, scrubbed, removed, changes, kills>> BY <1>8 DEF Step
  <2>2. /\ building' = [building EXCEPT ![p] = f] /\ f \in BuildJob
        /\ f.kind = building[p].kind /\ f.pc = building[p].pc /\ f.held = building[p].held
        /\ f.made = building[p].made /\ f.next \in {building[p].next, building[p].next + 1}
        /\ dirs' \in [Dirs -> Trees \cup {Absent}] /\ stored' \in BOOLEAN
    BY <1>0, <1>8, StepOutcome
  <2>3. /\ building[p].pc = "dirs" /\ building[p].next <= Len(Program(building[p]))
    BY <1>8 DEF Step, Working, At
  <2>4. JobInv(p) BY DEF JobsInv
  <2> HIDE DEF f
  <2>5. Program(f) = Program(building[p]) BY <2>2 DEF Program
  <2>6. building[p].next \in Nat /\ Len(Program(f)) \in Nat
    <3>1. Working(p) BY <1>8 DEF Step
    <3>2. building[p].next \in Nat BY <1>0 DEF BuildJob
    <3>3. \/ Program(building[p]) = WriteProject \/ Program(building[p]) = Rotate
          \/ Program(building[p]) = RemoveTree \/ Program(building[p]) = Scrub
      BY <2>3, <3>1, WhichProgram, CurrentOp DEF Working, Writes
    <3> QED BY <2>5, <3>2, <3>3, ProjectOps, RotateOps, RemoveOps, ScrubOps
  <2>7. f.next <= Len(Program(f)) + 1 BY <2>2, <2>3, <2>5, <2>6
  <2>8. JobFacts(f) BY <2>2, <2>3, <2>4, <2>6, <2>7 DEF JobInv, JobFacts
  <2>9. f.held <=> buildLock' = p BY <2>1, <2>2, <2>4 DEF JobInv
  <2>10. building' \in [Builders -> BuildJob] /\ JobsInv' BY <2>1, <2>2, <2>8, <2>9, OneMoves
  <2> QED BY <1>0, <2>1, <2>2, <2>10 DEF BuildTypes, Configuration
<1>9. ASSUME NEW p \in Builders, NotWritten(p) PROVE BuildTypes' /\ JobsInv'
  <2>1. /\ End(p) /\ UNCHANGED <<configured, scrubbed, stored, removed, changes, kills>>
        /\ dirs' = [dirs EXCEPT ![Current(p).dir] = Absent]
    BY <1>9 DEF NotWritten
  <2>2. dirs' \in [Dirs -> Trees \cup {Absent}] BY <1>0, <2>1
  <2> QED BY <1>0, <1>4, <2>1, <2>2
<1>10. ASSUME NEW p \in Builders, Finish(p) PROVE BuildTypes' /\ JobsInv'
  <2>1. /\ UNCHANGED <<configured, dirs, stored, changes, kills>> /\ scrubbed' \in Endings /\ removed' \in Endings
    BY <1>0, <1>10 DEF Finish, Endings
  <2>2. CASE End(p) BY <1>0, <1>4, <2>1, <2>2
  <2>3. CASE ~End(p)
    <3> DEFINE f == [building[p] EXCEPT !.pc = "compile"]
    <3>1. /\ building' = [building EXCEPT ![p] = f] /\ UNCHANGED buildLock
          /\ building[p].kind = "build" /\ building[p].pc = "dirs" /\ building[p] \in BuildJob
      BY <1>0, <1>10, <2>3 DEF Finish, Set, At
    <3>2. /\ building[p].held /\ buildLock = p /\ building[p].made \in Trees /\ building[p].made.whole
          /\ building[p].next >= 1
      BY <3>1 DEF JobsInv, JobInv, JobFacts, Writes
    <3>3. /\ f \in BuildJob /\ f.held /\ f.pc = "compile" /\ f.kind = "build" /\ f.made = building[p].made
          /\ f.next = building[p].next
      BY <3>1, <3>2 DEF BuildJob
    <3> HIDE DEF f
    <3>4. JobFacts(f) BY <3>2, <3>3 DEF JobFacts, Writes
    <3>5. building' \in [Builders -> BuildJob] /\ JobsInv' BY <3>1, <3>2, <3>3, <3>4, OneMoves
    <3> QED BY <1>0, <2>1, <3>5 DEF BuildTypes, Configuration
  <2> QED BY <2>2, <2>3
<1>11. ASSUME NEW p \in Builders, LoadFirmware(p) PROVE BuildTypes' /\ JobsInv'
  <2>1. UNCHANGED <<configured, dirs, scrubbed, stored, removed, changes, kills>> BY <1>11 DEF LoadFirmware
  <2>2. CASE End(p) BY <1>0, <1>4, <2>1, <2>2
  <2>3. CASE ~End(p)
    <3> DEFINE image == dirs[IF building[p].kind = "flash" THEN "firmware" ELSE "firmware.prev"]
               f == [building[p] EXCEPT !.pc = "check", !.made = image]
    <3>1. /\ building' = [building EXCEPT ![p] = f] /\ UNCHANGED buildLock /\ image # Absent /\ image.whole
          /\ building[p].pc = "work" /\ building[p].kind \in {"flash", "rollback"} /\ building[p] \in BuildJob
      BY <1>0, <1>11, <2>3 DEF LoadFirmware, Set, At
    <3>2. image \in Trees BY <1>0, <3>1 DEF Dirs
    <3>3. building[p].held /\ buildLock = p /\ building[p].next = 1 BY <3>1 DEF JobsInv, JobInv, JobFacts
    <3> HIDE DEF image
    <3>4. /\ f \in BuildJob /\ f.held /\ f.pc = "check" /\ f.kind \in {"flash", "rollback"} /\ f.made = image
          /\ f.next = 1
      BY <3>1, <3>2, <3>3 DEF BuildJob
    <3> HIDE DEF f
    <3>5. JobFacts(f) BY <3>1, <3>2, <3>4 DEF JobFacts
    <3>6. building' \in [Builders -> BuildJob] /\ JobsInv' BY <3>1, <3>3, <3>4, <3>5, OneMoves
    <3> QED BY <1>0, <2>1, <3>6 DEF BuildTypes, Configuration
  <2> QED BY <2>2, <2>3
<1>12. ASSUME NEW p \in Builders, NEW force \in BOOLEAN, Upload(p, force) PROVE BuildTypes' /\ JobsInv'
  <2>1. End(p) /\ UNCHANGED <<configured, dirs, scrubbed, stored, removed, changes, kills>> BY <1>12 DEF Upload
  <2> QED BY <1>0, <1>4, <2>1
<1>13. ASSUME NEW p \in Builders, KillBuild(p) PROVE BuildTypes' /\ JobsInv'
  <2>1. End(p) /\ kills' = kills + 1 /\ UNCHANGED <<configured, dirs, scrubbed, stored, removed, changes>>
    BY <1>13 DEF KillBuild
  <2> QED BY <1>0, <1>4, <2>1
<1>14. CASE Change
  <2>1. /\ UNCHANGED <<dirs, buildLock, building, stored, kills>> /\ changes' = changes + 1
        /\ \/ configured' = [configured EXCEPT !.source = @ + 1]
           \/ configured' = [configured EXCEPT !.own = @ + 1]
           \/ configured' = [configured EXCEPT !.wifi = changes + 1]
           \/ configured' = [configured EXCEPT !.present = TRUE, !.own = @ + 1]
        /\ scrubbed' \in Endings /\ removed' \in Endings
    BY <1>0, <1>14 DEF Change, Endings
  <2>2. configured' \in Configuration
    <3>1. changes + 1 \in Nat /\ configured.source + 1 \in Nat /\ configured.own + 1 \in Nat
      BY <1>0 DEF Configuration
    <3>2. CASE configured' = [configured EXCEPT !.source = @ + 1] BY <1>0, <3>1, <3>2 DEF Configuration
    <3>3. CASE configured' = [configured EXCEPT !.own = @ + 1] BY <1>0, <3>1, <3>3 DEF Configuration
    <3>4. CASE configured' = [configured EXCEPT !.wifi = changes + 1] BY <1>0, <3>1, <3>4 DEF Configuration
    <3>5. CASE configured' = [configured EXCEPT !.present = TRUE, !.own = @ + 1]
      BY <1>0, <3>1, <3>5 DEF Configuration
    <3> QED BY <2>1, <3>2, <3>3, <3>4, <3>5
  <2>3. JobsInv' BY <2>1 DEF JobsInv, JobInv
  <2> QED BY <1>0, <2>1, <2>2, <2>3 DEF BuildTypes, Configuration
<1>15. CASE UNCHANGED buildVars
  <2>1. /\ UNCHANGED <<configured, dirs, buildLock, building, scrubbed, stored, removed, changes, kills>>
    BY <1>15 DEF buildVars
  <2>2. JobsInv' BY <2>1 DEF JobsInv, JobInv
  <2> QED BY <2>1, <2>2 DEF BuildTypes
<1>16. ASSUME NEW p \in Builders, ListProjects(p) PROVE BuildTypes' /\ JobsInv'
  <2>1. /\ UNCHANGED <<configured, dirs, buildLock, stored, removed, changes, kills>> /\ scrubbed' \in Endings
        /\ building[p] \in BuildJob /\ building[p].pc = "list"
    BY <1>0, <1>16 DEF ListProjects, At, Endings
  <2>2. ~building[p].held /\ building[p].next = 1 /\ building[p].kind # "stored" /\ buildLock # p
    BY <2>1 DEF JobsInv, JobInv, JobFacts
  <2> DEFINE f == building'[p]
  <2>3. building' = [building EXCEPT ![p] = AtRest] \/ building' = [building EXCEPT ![p] = [building[p] EXCEPT !.pc = "lock"]]
    BY <1>16 DEF ListProjects, Set
  <2>4. building' = [building EXCEPT ![p] = f] /\ f \in BuildJob /\ JobFacts(f) /\ ~f.held
    <3>1. CASE f = AtRest BY <1>0, <2>3, <3>1, RestFacts DEF AtRest
    <3>2. CASE f = [building[p] EXCEPT !.pc = "lock"]
      <4>1. /\ f \in BuildJob /\ f.held = building[p].held /\ f.pc = "lock" /\ f.kind = building[p].kind
            /\ f.next = building[p].next
        BY <2>1, <3>2 DEF BuildJob
      <4>2. building' = [building EXCEPT ![p] = f] BY <1>0, <2>3
      <4> HIDE DEF f
      <4> QED BY <2>2, <4>1, <4>2 DEF JobFacts
    <3> QED BY <1>0, <2>3, <3>1, <3>2
  <2> HIDE DEF f
  <2>5. building' \in [Builders -> BuildJob] /\ JobsInv' BY <2>1, <2>2, <2>4, OneMoves
  <2> QED BY <1>0, <2>1, <2>5 DEF BuildTypes, Configuration
<1> QED BY <1>1, <1>2, <1>3, <1>5, <1>6, <1>7, <1>8, <1>9, <1>10, <1>11, <1>12, <1>13, <1>14, <1>15, <1>16 DEF BuildNext

-----------------------------------------------------------------------------
(* What the other commands see of a step.                                    *)

Others(p) == \A q \in Builders : q # p => building'[q] = building[q]

LEMMA OthersStay ==
  ASSUME BuildTypes, NEW p \in Builders, NEW f, building' = [building EXCEPT ![p] = f]
  PROVE  Others(p) /\ building'[p] = f
BY DEF BuildTypes, Others

LEMMA EndsAtRest ==
  ASSUME BuildTypes, NEW p \in Builders, End(p)
  PROVE  /\ Others(p) /\ building'[p] = AtRest
         /\ ~Rotating(p)' /\ ~Removing(p)' /\ ~Scrubbing(p)' /\ building'[p].pc = "idle" /\ ~building'[p].held
<1>1. building' = [building EXCEPT ![p] = AtRest] BY DEF End, Set
<1>2. Others(p) /\ building'[p] = AtRest BY <1>1, OthersStay
<1>3. AtRest.pc = "idle" /\ ~AtRest.held BY DEF AtRest
<1> QED BY <1>2, <1>3 DEF Rotating, Removing, Scrubbing, At

\* Two commands at their directories do not both hold the lock.
LEMMA OneHolder ==
  ASSUME JobsInv, NEW p \in Builders, NEW q \in Builders, building[p].held, building[q].held
  PROVE  p = q
BY DEF JobsInv, JobInv

LEMMA RotatingHolds ==
  ASSUME JobsInv, NEW p \in Builders, Rotating(p)
  PROVE  building[p].held
BY DEF JobsInv, JobInv, JobFacts, Rotating, At

\* Who holds the lock while no render or build has read the configuration.
LEMMA NoneEarly ==
  ASSUME JobsInv, BuildTypes, ~Early, NEW p \in Builders, building[p].held
  PROVE  At(p, "work") \/ (At(p, "dirs") /\ building[p].kind \in {"remove", "clear"})
<1>1. building[p] \in BuildJob /\ JobFacts(building[p]) BY DEF BuildTypes, JobsInv, JobInv
<1>2. building[p].made \notin Trees BY BuildAssumption DEF Early
<1> QED BY <1>1, <1>2 DEF JobFacts, BuildJob, At, Writes

\* The steps that leave the directories alone, but for the one that starts a rotation or a removal.
Quiet(p) ==
  /\ Others(p) /\ UNCHANGED <<dirs, stored>> /\ kills' \in {kills, kills + 1}
  /\ ~Rotating(p)' /\ ~Removing(p)'

LEMMA QuietSteps ==
  ASSUME BuildTypes, JobsInv, NEW p \in Builders
  PROVE  /\ \A kind \in Kinds : Begin(p, kind) => Quiet(p) /\ ~At(p, "dirs") /\ ~At(p, "dirs")' /\ ~building'[p].held
         /\ TakeLock(p) => Quiet(p) /\ ~At(p, "dirs") /\ At(p, "work")'
         /\ GiveUp(p) => Quiet(p) /\ ~At(p, "dirs") /\ ~At(p, "dirs")' /\ ~building'[p].held
         /\ Render(p) => /\ Quiet(p) /\ ~At(p, "dirs") /\ building[p].held /\ At(p, "work")
                         /\ building'[p].kind \in {"render", "build"} \/ End(p)
         /\ ListProjects(p) => Quiet(p) /\ ~At(p, "dirs") /\ ~At(p, "dirs")' /\ ~building'[p].held
         /\ StartScrub(p) => /\ Quiet(p) /\ ~At(p, "dirs") /\ building'[p].kind = "clear" /\ At(p, "dirs")'
                             /\ building'[p].next = 1 /\ building'[p].held = building[p].held
         /\ LoadFirmware(p) => Quiet(p) /\ ~At(p, "dirs") /\ ~At(p, "dirs")'
         /\ \A force \in BOOLEAN : Upload(p, force) => Quiet(p) /\ ~At(p, "dirs") /\ ~At(p, "dirs")'
<1>0. building[p] \in BuildJob /\ (building[p].pc \in {"idle", "list", "lock", "work"} => building[p].next = 1)
  BY DEF BuildTypes, JobsInv, JobInv, JobFacts
<1>1. ASSUME NEW kind \in Kinds, Begin(p, kind)
      PROVE  Quiet(p) /\ ~At(p, "dirs") /\ ~At(p, "dirs")' /\ ~building'[p].held
  <2> DEFINE to == IF kind = "clear" THEN "list" ELSE "lock"
  <2>1. building' = [building EXCEPT ![p] = [AtRest EXCEPT !.kind = kind, !.pc = to]] BY <1>1 DEF Begin, Set
  <2>2. Others(p) /\ building'[p] = [AtRest EXCEPT !.kind = kind, !.pc = to] BY <2>1, OthersStay
  <2>3. AtRest \in BuildJob /\ ~AtRest.held BY RestFacts DEF AtRest
  <2>4. building'[p].pc \in {"list", "lock"} /\ ~building'[p].held BY <2>2, <2>3 DEF BuildJob
  <2> QED BY <1>1, <2>2, <2>4 DEF Begin, Quiet, At, Rotating, Removing
<1>2. ASSUME TakeLock(p) PROVE Quiet(p) /\ ~At(p, "dirs") /\ At(p, "work")'
  <2>1. PICK f : /\ building' = [building EXCEPT ![p] = f]
                 /\ f = [building[p] EXCEPT !.pc = "work"] \/ f = [building[p] EXCEPT !.pc = "work", !.held = TRUE]
    BY <1>2 DEF TakeLock, Set
  <2>2. Others(p) /\ building'[p] = f BY <2>1, OthersStay
  <2>3. f.pc = "work" BY <1>0, <2>1 DEF BuildJob
  <2> QED BY <1>2, <2>2, <2>3 DEF TakeLock, Quiet, At, Rotating, Removing
<1>3. ASSUME GiveUp(p) PROVE Quiet(p) /\ ~At(p, "dirs") /\ ~At(p, "dirs")' /\ ~building'[p].held
  <2>1. building' = [building EXCEPT ![p] = AtRest] BY <1>3 DEF GiveUp, Set
  <2>2. Others(p) /\ building'[p] = AtRest BY <2>1, OthersStay
  <2>3. AtRest.pc = "idle" /\ ~AtRest.held BY DEF AtRest
  <2> QED BY <1>3, <2>2, <2>3 DEF GiveUp, Quiet, At, Rotating, Removing
<1>4. ASSUME Render(p)
      PROVE  /\ Quiet(p) /\ ~At(p, "dirs") /\ building[p].held /\ At(p, "work")
             /\ building'[p].kind \in {"render", "build"} \/ End(p)
  <2>1. building[p].pc = "work" /\ building[p].kind \in {"render", "build"} BY <1>4 DEF Render, At
  <2>2. building[p].held BY <2>1 DEF JobsInv, JobInv, JobFacts
  <2>3. CASE End(p) BY <1>4, <2>1, <2>2, <2>3, EndsAtRest DEF Render, Quiet, At
  <2>4. CASE ~End(p)
    <3>1. PICK t : building' = [building EXCEPT ![p] = [building[p] EXCEPT !.pc = "dirs", !.made = t]]
      BY <1>4, <2>4 DEF Render, Set
    <3>2. Others(p) /\ building'[p] = [building[p] EXCEPT !.pc = "dirs", !.made = t] BY <3>1, OthersStay
    <3>3. building'[p].kind = building[p].kind BY <1>0, <3>2 DEF BuildJob
    <3> QED BY <1>4, <2>1, <2>2, <3>2, <3>3 DEF Render, Quiet, At, Rotating, Removing
  <2> QED BY <2>3, <2>4
<1>5. ASSUME StartScrub(p)
      PROVE  /\ Quiet(p) /\ ~At(p, "dirs") /\ building'[p].kind = "clear" /\ At(p, "dirs")'
             /\ building'[p].next = 1 /\ building'[p].held = building[p].held
  <2>1. building' = [building EXCEPT ![p] = [building[p] EXCEPT !.pc = "dirs"]]
        /\ building[p].kind = "clear" /\ building[p].pc = "work"
    BY <1>5 DEF StartScrub, Set, At
  <2>2. Others(p) /\ building'[p] = [building[p] EXCEPT !.pc = "dirs"] BY <2>1, OthersStay
  <2>3. /\ building'[p].kind = "clear" /\ building'[p].next = 1 /\ building'[p].pc = "dirs"
        /\ building'[p].held = building[p].held
    BY <1>0, <2>1, <2>2 DEF BuildJob
  <2> QED BY <1>5, <2>1, <2>2, <2>3 DEF StartScrub, Quiet, At, Rotating, Removing
<1>6. ASSUME LoadFirmware(p) PROVE Quiet(p) /\ ~At(p, "dirs") /\ ~At(p, "dirs")'
  <2>1. CASE End(p) BY <1>6, <2>1, EndsAtRest DEF LoadFirmware, Quiet, At
  <2>2. CASE ~End(p)
    <3>1. PICK t : building' = [building EXCEPT ![p] = [building[p] EXCEPT !.pc = "check", !.made = t]]
      BY <1>6, <2>2 DEF LoadFirmware, Set
    <3>2. Others(p) /\ building'[p] = [building[p] EXCEPT !.pc = "check", !.made = t] BY <3>1, OthersStay
    <3>3. building'[p].pc = "check" BY <1>0, <3>2 DEF BuildJob
    <3> QED BY <1>6, <3>2, <3>3 DEF LoadFirmware, Quiet, At, Rotating, Removing
  <2> QED BY <2>1, <2>2
<1>7. ASSUME NEW force \in BOOLEAN, Upload(p, force) PROVE Quiet(p) /\ ~At(p, "dirs") /\ ~At(p, "dirs")'
  BY <1>7, EndsAtRest DEF Upload, Quiet, At
<1>8. ASSUME ListProjects(p) PROVE Quiet(p) /\ ~At(p, "dirs") /\ ~At(p, "dirs")' /\ ~building'[p].held
  <2>1. PICK f : /\ building' = [building EXCEPT ![p] = f]
                 /\ f = AtRest \/ f = [building[p] EXCEPT !.pc = "lock"]
    BY <1>8 DEF ListProjects, Set
  <2>2. Others(p) /\ building'[p] = f BY <2>1, OthersStay
  <2>3. building[p].pc = "list" BY <1>8 DEF ListProjects, At
  <2>4. ~building[p].held BY <2>3 DEF JobsInv, JobInv, JobFacts
  <2>5. f.pc \in {"idle", "lock"} /\ f.held = FALSE BY <1>0, <2>1, <2>4 DEF BuildJob, AtRest
  <2> QED BY <1>8, <2>2, <2>3, <2>5 DEF ListProjects, Quiet, At, Rotating, Removing
<1> QED BY <1>1, <1>2, <1>3, <1>4, <1>5, <1>6, <1>7, <1>8

-----------------------------------------------------------------------------
(* A whole image is kept.                                                    *)

LEMMA ImageQuiet ==
  ASSUME BuildTypes, ImageInv, NEW p \in Builders, Quiet(p), ~Rotating(p)
  PROVE  ImageInv'
<1>1. \A q \in Builders : Rotating(q)' => Rotating(q) /\ building'[q] = building[q]
  BY DEF Quiet, Others, Rotating, At
<1>2. \A q \in Builders : Rotating(q) => Rotating(q)'
  BY DEF Quiet, Others, Rotating, At
<1>3. \A q \in Builders : Removing(q)' => Removing(q)
  BY DEF Quiet, Others, Removing, At
<1>4. \A d \in Dirs : Good(d)' <=> Good(d) BY DEF Quiet, Good
<1>5. /\ kills' \in {kills, kills + 1} /\ kills \in Nat /\ stored' = stored /\ {"firmware", "firmware.new", "firmware.prev"} \subseteq Dirs
  BY DEF Quiet, BuildTypes, Dirs
<1>6. kills' < 2 /\ Kept => Kept' BY <1>4, <1>5 DEF Kept
<1>7. stored' /\ kills' < 2 => Kept' \/ \E q \in Builders : Rotating(q)'
  BY <1>2, <1>5, <1>6 DEF ImageInv
<1>8. ASSUME NEW q \in Builders, Rotating(q)' PROVE RotationInv(q)'
  <2>1. RotationInv(q) /\ building'[q].next = building[q].next BY <1>1, <1>8 DEF ImageInv
  <2>2. kills' = 0 => kills = 0 BY <1>5
  <2>3. kills' < 2 => kills < 2 BY <1>5
  <2> QED BY <1>4, <1>5, <1>6, <2>1, <2>2, <2>3 DEF RotationInv
<1>9. \A q \in Builders : Removing(q)' => ~stored' BY <1>3, <1>5 DEF ImageInv
<1> QED BY <1>7, <1>8, <1>9 DEF ImageInv

\* The five steps of a rotation.
LEMMA ImageRotates ==
  ASSUME BuildTypes, JobsInv, ImageInv, NEW p \in Builders, Step(p), Rotating(p)
  PROVE  RotationInv(p)'
<1> DEFINE k == building[p].next
           fw == "firmware"
           new == "firmware.new"
           prev == "firmware.prev"
<1>1. /\ k \in 1 .. 5 /\ Current(p) = Rotate[k] /\ building[p].kind = "stored"
  BY CurrentOp DEF Step, Rotating
<1>2. /\ fw \in Dirs /\ new \in Dirs /\ prev \in Dirs /\ fw # new /\ fw # prev /\ new # prev BY DEF Dirs
<1>3. /\ building[p].made \in Trees /\ building[p].made.whole
  BY DEF JobsInv, JobInv, JobFacts, Rotating, At, Writes
<1>4. RotationInv(p) /\ UNCHANGED kills /\ kills \in Nat BY DEF ImageInv, Step, BuildTypes
<1>5. /\ building'[p].next \in {k, k + 1} /\ dirs \in [Dirs -> Trees \cup {Absent}]
      /\ \A d \in Dirs : d # Current(p).dir /\ d # Current(p).to => dirs'[d] = dirs[d]
  BY StepOutcome DEF BuildTypes
<1> DEFINE op == Current(p)
<1>11. op.op # "mv" \/ op.to # "firmware" => stored' = stored BY StepOutcome
<1>12. op.op = "put" /\ building'[p].next # k => dirs' = [dirs EXCEPT ![op.dir] = building[p].made] BY StepOutcome
<1>13. op.op = "mv" =>
         /\ building'[p].next = k + 1
         /\ IF dirs[op.dir] = Absent THEN dirs' = dirs
            ELSE dirs' = [dirs EXCEPT ![op.to] = dirs[op.dir], ![op.dir] = Absent]
  BY StepOutcome
<1>14. op = Current(p) OBVIOUS
<1> HIDE DEF op
<1>6. CASE k = 1
  <2>1. Current(p) = Rm(new) BY <1>1, <1>6, RotateOps
  <2>2. dirs'[fw] = dirs[fw] /\ dirs'[prev] = dirs[prev] BY <1>2, <1>5, <2>1 DEF Rm, Op
  <2>3. stored' = stored BY <1>11, <1>14, <2>1 DEF Rm, Op
  <2> QED BY <1>4, <1>5, <1>6, <2>2, <2>3 DEF RotationInv, Kept, Good
<1>7. CASE k = 2
  <2>1. Current(p) = Put(new) BY <1>1, <1>7, RotateOps
  <2>2. dirs'[fw] = dirs[fw] /\ dirs'[prev] = dirs[prev] BY <1>2, <1>5, <2>1 DEF Put, Op
  <2>3. stored' = stored BY <1>11, <1>14, <2>1 DEF Put, Op
  <2>4. building'[p].next = 3 => dirs' = [dirs EXCEPT ![new] = building[p].made]
    BY <1>7, <1>12, <1>14, <2>1 DEF Put, Op
  <2>5. building'[p].next = 3 => Good(new)'
    BY <1>2, <1>3, <1>5, <2>4, BuildAssumption DEF Good
  <2>6. stored /\ kills = 0 => Good(fw) BY <1>4, <1>7 DEF RotationInv, Kept
  <2> QED BY <1>4, <1>5, <1>7, <2>2, <2>3, <2>5, <2>6 DEF RotationInv, Kept, Good
<1>8. CASE k = 3
  <2>1. Current(p) = Rm(prev) BY <1>1, <1>8, RotateOps
  <2>2. dirs'[fw] = dirs[fw] /\ dirs'[new] = dirs[new] BY <1>2, <1>5, <2>1 DEF Rm, Op
  <2>3. stored' = stored BY <1>11, <1>14, <2>1 DEF Rm, Op
  <2> QED BY <1>4, <1>5, <1>8, <2>2, <2>3 DEF RotationInv, Kept, Good
<1>9. CASE k = 4
  <2>1. Current(p) = Mv(fw, prev) BY <1>1, <1>9, RotateOps
  <2>2. /\ building'[p].next = 5 /\ stored' = stored
        /\ IF dirs[fw] = Absent THEN dirs' = dirs ELSE dirs' = [dirs EXCEPT ![prev] = dirs[fw], ![fw] = Absent]
    BY <1>2, <1>9, <1>11, <1>13, <1>14, <2>1 DEF Mv, Op
  <2>3. dirs'[new] = dirs[new] BY <1>2, <1>5, <2>1 DEF Mv, Op
  <2>4. dirs[fw] # Absent => dirs'[prev] = dirs[fw] BY <1>2, <1>5, <2>2
  <2> QED BY <1>4, <1>9, <2>2, <2>3, <2>4 DEF RotationInv, Kept, Good
<1>10. CASE k = 5
  <2>1. Current(p) = Mv(new, fw) BY <1>1, <1>10, RotateOps
  <2>2. Good(new) BY <1>4, <1>10 DEF RotationInv
  <2>3. building'[p].next = 6 /\ dirs' = [dirs EXCEPT ![fw] = dirs[new], ![new] = Absent]
    BY <1>10, <1>13, <1>14, <2>1, <2>2 DEF Mv, Op, Good
  <2>4. dirs'[fw] = dirs[new] BY <1>2, <1>5, <2>3
  <2> QED BY <2>2, <2>3, <2>4 DEF RotationInv, Good
<1> QED BY <1>1, <1>6, <1>7, <1>8, <1>9, <1>10

LEMMA ImageStep ==
  ASSUME BuildTypes, JobsInv, ImageInv, [BuildNext]_buildVars
  PROVE  ImageInv'
<1>0. kills \in Nat BY DEF BuildTypes
<1>1. ASSUME NEW p \in Builders,
             \/ \E kind \in Kinds : Begin(p, kind)
             \/ TakeLock(p) \/ GiveUp(p) \/ Render(p) \/ ListProjects(p) \/ StartScrub(p) \/ LoadFirmware(p)
             \/ \E force \in BOOLEAN : Upload(p, force)
      PROVE  ImageInv'
  <2>1. Quiet(p) /\ ~At(p, "dirs") BY <1>1, QuietSteps
  <2> QED BY <2>1, ImageQuiet DEF Rotating
<1>2. ASSUME NEW p \in Builders, Compile(p) PROVE ImageInv'
  <2>1. UNCHANGED <<dirs, stored, kills>> /\ building[p].pc = "compile" /\ building[p] \in BuildJob
    BY <1>2 DEF Compile, At, BuildTypes
  <2>2. CASE End(p)
    <3>1. Quiet(p) /\ ~Rotating(p) BY <2>1, <2>2, EndsAtRest DEF Quiet, Rotating, At
    <3> QED BY <3>1, ImageQuiet
  <2>3. CASE ~End(p)
    <3>1. PICK f : /\ building' = [building EXCEPT ![p] = f]
                   /\ f = [building[p] EXCEPT !.pc = "dirs", !.kind = "stored", !.made = [@ EXCEPT !.secret = FALSE],
                                              !.next = 1]
      BY <1>2, <2>3 DEF Compile, Set
    <3>2. Others(p) /\ building'[p] = f BY <3>1, OthersStay
    <3>3. f.pc = "dirs" /\ f.kind = "stored" /\ f.next = 1 BY <2>1, <3>1 DEF BuildJob
    <3>4. Rotating(p)' /\ building'[p].next = 1 /\ ~Removing(p)' BY <3>2, <3>3 DEF Rotating, Removing, At
    <3>5. building[p].held BY <2>1 DEF JobsInv, JobInv, JobFacts
    <3>6. \A q \in Builders : ~Rotating(q) BY <2>1, <3>5, OneHolder, RotatingHolds DEF Rotating, At
    <3>7. \A q \in Builders : Rotating(q)' => q = p BY <3>2, <3>6 DEF Others, Rotating, At
    <3>8. \A q \in Builders : Removing(q)' => Removing(q) BY <3>2, <3>4 DEF Others, Removing, At
    <3>9. stored /\ kills < 2 => Kept BY <3>6 DEF ImageInv
    <3>10. Kept' <=> Kept BY <2>1 DEF Kept, Good
    <3>11. RotationInv(p)' BY <2>1, <3>4, <3>9, <3>10 DEF RotationInv
    <3> QED BY <2>1, <3>4, <3>7, <3>8, <3>11 DEF ImageInv
  <2> QED BY <2>2, <2>3
<1>3. ASSUME NEW p \in Builders, Remove(p) PROVE ImageInv'
  <2>1. UNCHANGED <<dirs, kills>> /\ building[p].pc = "work" /\ building[p].kind = "remove" /\ building[p] \in BuildJob
    BY <1>3 DEF Remove, At, BuildTypes
  <2>2. CASE End(p) /\ stored' = stored
    <3>1. Quiet(p) /\ ~Rotating(p) BY <2>1, <2>2, EndsAtRest DEF Quiet, Rotating, At
    <3> QED BY <3>1, ImageQuiet
  <2>3. CASE ~(End(p) /\ stored' = stored)
    <3>1. stored' = FALSE /\ building' = [building EXCEPT ![p] = [building[p] EXCEPT !.pc = "dirs"]]
      BY <1>3, <2>3 DEF Remove, Set
    <3>2. Others(p) /\ building'[p] = [building[p] EXCEPT !.pc = "dirs"] BY <3>1, OthersStay
    <3>3. building'[p].kind = "remove" BY <2>1, <3>2 DEF BuildJob
    <3>4. \A q \in Builders : Rotating(q)' => Rotating(q) /\ building'[q] = building[q]
      BY <3>2, <3>3 DEF Others, Rotating, At
    <3>5. \A q \in Builders : Rotating(q)' => RotationInv(q)'
      BY <2>1, <3>1, <3>4 DEF ImageInv, RotationInv, Good
    <3> QED BY <3>1, <3>5 DEF ImageInv
  <2> QED BY <2>2, <2>3
<1>4. ASSUME NEW p \in Builders, Step(p) PROVE ImageInv'
  <2> DEFINE j == building[p]
  <2>1. /\ j.held /\ j.pc = "dirs" /\ j.kind \in Writes \cup {"remove", "clear"} /\ UNCHANGED kills
    BY <1>4, CurrentOp DEF Step
  <2>2. /\ Others(p) /\ building'[p].kind = j.kind /\ building'[p].pc = "dirs" /\ building'[p].held
    BY <1>4, <2>1, StepOutcome, OthersStay
  <2>3. \A q \in Builders : q # p => ~Rotating(q) /\ ~Removing(q)
    BY <2>1, OneHolder, RotatingHolds DEF Removing
  <2>4. \A q \in Builders : q # p => ~Rotating(q)' /\ ~Removing(q)'
    BY <2>2, <2>3 DEF Others, Rotating, Removing, At
  <2>5. CASE j.kind = "stored"
    <3>1. Rotating(p) BY <2>1, <2>5 DEF Rotating, At
    <3>2. RotationInv(p)' BY <1>4, <3>1, ImageRotates
    <3>3. Rotating(p)' /\ ~Removing(p)' BY <2>2, <2>5 DEF Rotating, Removing, At
    <3> QED BY <2>4, <3>2, <3>3 DEF ImageInv
  <2>6. CASE j.kind = "remove"
    <3>1. ~stored BY <2>1, <2>6 DEF ImageInv, Removing, At
    <3>2. Current(p).op = "rm" BY <1>4, <2>6, CurrentOp, RemoveOps DEF Step
    <3>3. ~stored' BY <1>4, <3>1, <3>2, StepOutcome
    <3>4. ~Rotating(p)' BY <2>2, <2>6 DEF Rotating
    <3> QED BY <2>4, <3>3, <3>4 DEF ImageInv
  <2>7. CASE j.kind \in {"render", "build", "clear"}
    <3>1. Current(p).dir \in ProjectDirs /\ Current(p).to \in ProjectDirs
      BY <1>4, <2>7, CurrentOp, ScrubOps DEF Step
    <3>2. dirs'["firmware"] = dirs["firmware"] /\ dirs'["firmware.prev"] = dirs["firmware.prev"]
      <4>1. \A d \in Dirs : d # Current(p).dir /\ d # Current(p).to => dirs'[d] = dirs[d] BY <1>4, StepOutcome
      <4>2. {"firmware", "firmware.prev"} \subseteq Dirs \ ProjectDirs BY DEF Dirs, ProjectDirs
      <4> QED BY <3>1, <4>1, <4>2
    <3>3. stored' = stored
      <4>1. Current(p).to # "firmware" BY <3>1 DEF ProjectDirs
      <4> QED BY <1>4, <4>1, StepOutcome
    <3>4. ~Rotating(p) /\ ~Rotating(p)' /\ ~Removing(p)' BY <2>2, <2>7 DEF Rotating, Removing
    <3>5. stored /\ kills < 2 => Kept BY <2>3, <3>4 DEF ImageInv
    <3>6. stored' /\ kills' < 2 => Kept' BY <2>1, <3>2, <3>3, <3>5 DEF Kept, Good
    <3> QED BY <2>4, <3>4, <3>6 DEF ImageInv
  <2> QED BY <2>1, <2>5, <2>6, <2>7 DEF Writes
<1>5. ASSUME NEW p \in Builders, NotWritten(p) PROVE ImageInv'
  <2> DEFINE j == building[p]
  <2>1. /\ j.held /\ j.pc = "dirs" /\ j.kind \in Writes /\ UNCHANGED <<stored, kills>> /\ End(p)
        /\ Current(p).op = "put" /\ dirs' = [dirs EXCEPT ![Current(p).dir] = Absent]
    BY <1>5, CurrentOp DEF NotWritten
  <2>2. Others(p) /\ ~Rotating(p)' /\ ~Removing(p)' BY <2>1, EndsAtRest
  <2>3. \A q \in Builders : q # p => ~Rotating(q) /\ ~Removing(q)
    BY <2>1, OneHolder, RotatingHolds DEF Removing
  <2>4. \A q \in Builders : ~Rotating(q)' /\ ~Removing(q)'
    BY <2>2, <2>3 DEF Others, Rotating, Removing, At
  <2>5. stored /\ kills < 2 => Kept
    <3>1. CASE j.kind = "stored"
      <4>1. Rotating(p) /\ RotationInv(p) BY <2>1, <3>1 DEF Rotating, At, ImageInv
      <4>2. j.next \in 1 .. 5 /\ Current(p) = Rotate[j.next] BY <1>5, <3>1, CurrentOp DEF NotWritten
      <4>3. Current(p).op = "put" => j.next = 2
        <5>1. j.next = 1 \/ j.next = 2 \/ j.next = 3 \/ j.next = 4 \/ j.next = 5 BY <4>2
        <5> QED BY <4>2, <5>1, RotateOps DEF Rm, Mv, Op
      <4> QED BY <2>1, <4>1, <4>3 DEF RotationInv
    <3>2. CASE j.kind # "stored"
      <4>1. ~Rotating(p) BY <3>2 DEF Rotating
      <4> QED BY <2>3, <4>1 DEF ImageInv
    <3> QED BY <3>1, <3>2
  <2>6. Current(p).dir # "firmware" /\ Current(p).dir # "firmware.prev" /\ Current(p).dir \in Dirs
    <3>1. CASE j.kind = "stored"
      <4>1. j.next \in 1 .. 5 /\ Current(p) = Rotate[j.next] BY <1>5, <3>1, CurrentOp DEF NotWritten
      <4>2. j.next = 1 \/ j.next = 2 \/ j.next = 3 \/ j.next = 4 \/ j.next = 5 BY <4>1
      <4>3. Current(p) = Put("firmware.new") BY <2>1, <4>1, <4>2, RotateOps DEF Rm, Mv, Op
      <4> QED BY <4>3 DEF Put, Op, Dirs
    <3>2. CASE j.kind \in {"render", "build"}
      <4>1. Current(p).dir \in ProjectDirs BY <1>5, <3>2, CurrentOp DEF NotWritten
      <4> QED BY <4>1 DEF ProjectDirs, Dirs
    <3> QED BY <2>1, <3>1, <3>2 DEF Writes
  <2>7. Kept' <=> Kept
    <3>1. dirs'["firmware"] = dirs["firmware"] /\ dirs'["firmware.prev"] = dirs["firmware.prev"]
      BY <2>1, <2>6 DEF BuildTypes, Dirs
    <3> QED BY <2>1, <3>1 DEF Kept, Good
  <2> QED BY <2>1, <2>4, <2>5, <2>7 DEF ImageInv
<1>6. ASSUME NEW p \in Builders, Finish(p) PROVE ImageInv'
  <2> DEFINE j == building[p]
  <2>1. j.pc = "dirs" /\ ~Working(p) /\ UNCHANGED <<dirs, stored, kills>> /\ j \in BuildJob
    BY <1>6 DEF Finish, At, BuildTypes
  <2>2. Others(p) /\ ~Rotating(p)' /\ ~Removing(p)'
    <3>1. CASE End(p) BY <3>1, EndsAtRest
    <3>2. CASE ~End(p)
      <4>1. building' = [building EXCEPT ![p] = [j EXCEPT !.pc = "compile"]] BY <1>6, <3>2 DEF Finish, Set
      <4>2. Others(p) /\ building'[p] = [j EXCEPT !.pc = "compile"] BY <4>1, OthersStay
      <4>3. building'[p].pc = "compile" BY <2>1, <4>2 DEF BuildJob
      <4> QED BY <4>2, <4>3 DEF Rotating, Removing, At
    <3> QED BY <3>1, <3>2
  <2>3. Quiet(p) BY <2>1, <2>2 DEF Quiet
  <2>4. CASE ~Rotating(p) BY <2>3, <2>4, ImageQuiet
  <2>5. CASE Rotating(p)
    <3>1. j.kind = "stored" /\ j.next \in 1 .. 6 /\ Program(j) = Rotate /\ j.held
      BY <2>5, WhichProgram DEF Rotating
    <3>2. j.next = 6 BY <2>1, <3>1, RotateOps DEF Working, At
    <3>3. Good("firmware") BY <2>5, <3>2 DEF ImageInv, RotationInv
    <3>4. Kept' BY <2>1, <3>3 DEF Kept, Good
    <3>5. \A q \in Builders : q # p => ~Rotating(q) /\ ~Removing(q)
      BY <3>1, OneHolder, RotatingHolds DEF Removing
    <3>6. \A q \in Builders : ~Rotating(q)' /\ ~Removing(q)'
      BY <2>2, <3>5 DEF Others, Rotating, Removing, At
    <3> QED BY <3>4, <3>6 DEF ImageInv
  <2> QED BY <2>4, <2>5
<1>7. ASSUME NEW p \in Builders, KillBuild(p) PROVE ImageInv'
  <2>1. End(p) /\ UNCHANGED <<dirs, stored>> /\ kills' = kills + 1 BY <1>7 DEF KillBuild
  <2>2. Others(p) /\ ~Rotating(p)' /\ ~Removing(p)' BY <2>1, EndsAtRest
  <2>3. Quiet(p) BY <2>1, <2>2 DEF Quiet
  <2>4. CASE ~Rotating(p) BY <2>3, <2>4, ImageQuiet
  <2>5. CASE Rotating(p)
    <3>1. building[p].next \in 1 .. 6 /\ building[p].held BY <2>5, WhichProgram DEF Rotating
    <3>2. RotationInv(p) BY <2>5 DEF ImageInv
    <3>3. stored /\ kills = 0 => Good("firmware") \/ Good("firmware.prev") BY <3>1, <3>2 DEF RotationInv, Kept
    <3>4. stored' /\ kills' < 2 => Kept' BY <1>0, <2>1, <3>3 DEF Kept, Good
    <3>5. \A q \in Builders : q # p => ~Rotating(q) /\ ~Removing(q)
      BY <3>1, OneHolder, RotatingHolds DEF Removing
    <3>6. \A q \in Builders : ~Rotating(q)' /\ ~Removing(q)'
      BY <2>2, <3>5 DEF Others, Rotating, Removing, At
    <3> QED BY <3>4, <3>6 DEF ImageInv
  <2> QED BY <2>4, <2>5
<1>8. CASE Change \/ UNCHANGED buildVars
  <2>1. UNCHANGED <<dirs, stored, kills, building>> BY <1>8 DEF Change, buildVars
  <2> QED BY <2>1 DEF ImageInv, RotationInv, Kept, Good, Rotating, Removing, At
<1> QED BY <1>1, <1>2, <1>3, <1>4, <1>5, <1>6, <1>7, <1>8 DEF BuildNext

-----------------------------------------------------------------------------
(* Nothing is left of a display that was removed.                            *)

LEMMA RemoveQuiet ==
  ASSUME RemoveInv, NEW p \in Builders, Others(p), UNCHANGED <<configured, dirs, removed>>,
         ~Removing(p)',
         removed = "done" /\ building'[p].held => At(p, "work")' \/ Scrubbing(p)'
  PROVE  RemoveInv'
<1>1. ASSUME NEW q \in Builders, Removing(q)'
      PROVE  /\ ~configured'.present
             /\ \A k \in 1 .. Len(RemoveTree) : k < building'[q].next => dirs'[RemoveTree[k].dir] = Absent
  <2>1. q # p /\ building'[q] = building[q] BY <1>1 DEF Others
  <2>2. Removing(q) BY <1>1, <2>1 DEF Removing, At
  <2> QED BY <2>1, <2>2 DEF RemoveInv
<1>2. ASSUME removed' = "done", NEW q \in Builders, building'[q].held PROVE At(q, "work")' \/ Scrubbing(q)'
  <2>1. CASE q = p BY <1>2, <2>1
  <2>2. CASE q # p BY <1>2, <2>2 DEF RemoveInv, Others, At, Scrubbing
  <2> QED BY <2>1, <2>2
<1>3. removed' = "done" => ~configured'.present /\ \A d \in Dirs : dirs'[d] = Absent BY DEF RemoveInv
<1> QED BY <1>1, <1>2, <1>3 DEF RemoveInv

\* An operation of another command than a remove changes nothing once the display is gone.
LEMMA RemoveOperation ==
  ASSUME BuildTypes, JobsInv, RemoveInv, NEW p \in Builders, Step(p)
  PROVE  RemoveInv'
<1> DEFINE j == building[p]
<1>1. Working(p) /\ UNCHANGED <<configured, removed>> BY DEF Step
<1>2. j.held /\ j.pc = "dirs" /\ At(p, "dirs") /\ j \in BuildJob BY <1>1, CurrentOp DEF At, BuildTypes
<1>3. /\ building' = [building EXCEPT ![p] = building'[p]] /\ building'[p].kind = j.kind
      /\ building'[p].pc = j.pc /\ building'[p].held = j.held /\ building'[p].next \in {j.next, j.next + 1}
  BY StepOutcome
<1>4. Others(p) BY <1>3, OthersStay
<1>5. \A q \in Builders : q # p => ~Removing(q)' /\ ~building'[q].held
  BY <1>2, <1>4, OneHolder DEF Others, Removing
<1>6. \A d \in Dirs : d # Current(p).dir /\ d # Current(p).to => dirs'[d] = dirs[d] BY StepOutcome
<1>7. /\ Current(p).op = "rm" =>
           \/ building'[p].next = j.next + 1 /\ dirs' = [dirs EXCEPT ![Current(p).dir] = Absent]
           \/ /\ building'[p].next = j.next /\ dirs[Current(p).dir] # Absent
              /\ dirs' = [dirs EXCEPT ![Current(p).dir].whole = FALSE]
  BY StepOutcome
<1>8. Current(p).op = "unlink" /\ dirs[Current(p).dir] = Absent => dirs' = dirs BY StepOutcome
<1>9. Current(p).dir \in Dirs BY <1>1, CurrentOp
<1> HIDE DEF j
<1>10. removed = "done" => Scrubbing(p) BY <1>2 DEF RemoveInv, j, At
<1>11. removed = "done" => dirs' = dirs
  <2>1. Scrubbing(p) => Current(p).op = "unlink" BY <1>1, CurrentOp, ScrubOps DEF Scrubbing
  <2> QED BY <1>8, <1>9, <1>10, <2>1 DEF RemoveInv
<1>12. Scrubbing(p) => Scrubbing(p)' BY <1>3 DEF Scrubbing, At, j
<1>13. ASSUME Removing(p)'
       PROVE  /\ ~configured'.present
              /\ \A k \in 1 .. Len(RemoveTree) : k < building'[p].next => dirs'[RemoveTree[k].dir] = Absent
  <2>1. Removing(p) /\ j.kind = "remove" BY <1>3, <1>13 DEF Removing, At, j
  <2>2. j.next \in 1 .. 7 /\ Current(p) = RemoveTree[j.next] BY <1>1, <2>1, CurrentOp DEF j
  <2>3. Current(p).op = "rm" /\ Current(p).to = Current(p).dir BY <2>2, RemoveOps
  <2>4. \A k \in 1 .. Len(RemoveTree) : k < j.next => dirs[RemoveTree[k].dir] = Absent BY <2>1 DEF RemoveInv, j
  <2>5. \A k \in 1 .. Len(RemoveTree) : RemoveTree[k].dir \in Dirs BY RemoveOps
  <2>6. CASE building'[p].next = j.next + 1 /\ dirs' = [dirs EXCEPT ![Current(p).dir] = Absent]
    <3>1. \A k \in 1 .. Len(RemoveTree) : k < building'[p].next => k < j.next \/ k = j.next
      BY <2>2, <2>6, RemoveOps
    <3>2. \A d \in Dirs : dirs[d] = Absent => dirs'[d] = Absent BY <2>6 DEF BuildTypes
    <3>3. dirs'[Current(p).dir] = Absent BY <1>9, <2>6 DEF BuildTypes
    <3>4. \A k \in 1 .. Len(RemoveTree) : k < building'[p].next => dirs'[RemoveTree[k].dir] = Absent
      BY <2>2, <2>4, <2>5, <3>1, <3>2, <3>3
    <3> QED BY <1>1, <2>1, <3>4 DEF RemoveInv
  <2>7. CASE building'[p].next = j.next /\ dirs[Current(p).dir] # Absent
    <3>1. \A d \in Dirs : dirs[d] = Absent => dirs'[d] = Absent BY <1>6, <2>3, <2>7
    <3>2. \A k \in 1 .. Len(RemoveTree) : k < building'[p].next => dirs'[RemoveTree[k].dir] = Absent
      BY <2>4, <2>5, <2>7, <3>1
    <3> QED BY <1>1, <2>1, <3>2 DEF RemoveInv
  <2> QED BY <1>7, <2>3, <2>6, <2>7
<1>14. removed' = "done" => /\ ~configured'.present /\ \A d \in Dirs : dirs'[d] = Absent
                   /\ \A q \in Builders : building'[q].held => At(q, "work")' \/ Scrubbing(q)'
  BY <1>1, <1>5, <1>10, <1>11, <1>12 DEF RemoveInv
<1> QED BY <1>5, <1>13, <1>14 DEF RemoveInv

LEMMA RemoveStep ==
  ASSUME BuildTypes, JobsInv, RemoveInv, OwnInv, [BuildNext]_buildVars
  PROVE  RemoveInv'
<1>1. ASSUME NEW p \in Builders, NEW kind \in Kinds, Begin(p, kind) PROVE RemoveInv'
  <2>1. Quiet(p) /\ ~building'[p].held /\ UNCHANGED removed BY <1>1, QuietSteps DEF Begin
  <2>2. configured'.present = configured.present BY <1>1 DEF Begin, BuildTypes
  <2>3. \A q \in Builders : Removing(q)' => Removing(q) /\ building'[q] = building[q]
    BY <2>1 DEF Quiet, Others, Removing, At
  <2>4. \A q \in Builders : building'[q].held => building[q].held /\ building'[q] = building[q]
    BY <2>1 DEF Quiet, Others
  <2>5. \A q \in Builders : Removing(q)' => ~configured.present
            /\ \A k \in 1 .. Len(RemoveTree) : k < building[q].next => dirs[RemoveTree[k].dir] = Absent
    BY <2>3 DEF RemoveInv
  <2>6. \A q \in Builders : removed = "done" /\ building'[q].held => At(q, "work")' \/ Scrubbing(q)'
    BY <2>4 DEF RemoveInv, At, Scrubbing
  <2> QED BY <2>1, <2>2, <2>3, <2>5, <2>6 DEF RemoveInv, Quiet
<1>2. ASSUME NEW p \in Builders, TakeLock(p) \/ GiveUp(p) PROVE RemoveInv'
  <2>1. Quiet(p) /\ UNCHANGED <<configured, removed>> /\ (At(p, "work")' \/ ~building'[p].held)
    BY <1>2, QuietSteps DEF TakeLock, GiveUp
  <2> QED BY <2>1, RemoveQuiet DEF Quiet
<1>3. ASSUME NEW p \in Builders, Render(p) PROVE RemoveInv'
  <2>1. Quiet(p) /\ UNCHANGED <<configured, removed>> BY <1>3, QuietSteps DEF Render
  <2>2. CASE End(p) BY <2>1, <2>2, EndsAtRest, RemoveQuiet DEF Quiet
  <2>3. CASE ~End(p)
    <3>1. configured.present BY <1>3, <2>3 DEF Render
    <3> QED BY <2>1, <3>1, RemoveQuiet DEF Quiet, RemoveInv
  <2> QED BY <2>2, <2>3
<1>4. ASSUME NEW p \in Builders, Compile(p) PROVE RemoveInv'
  <2>1. UNCHANGED <<configured, dirs, removed>> /\ building[p].pc = "compile" /\ building[p] \in BuildJob
    BY <1>4 DEF Compile, At, BuildTypes
  <2>2. building[p].held BY <2>1 DEF JobsInv, JobInv, JobFacts
  <2>3. removed # "done" BY <2>1, <2>2 DEF RemoveInv, At, Scrubbing
  <2>4. Others(p) /\ ~Removing(p)'
    <3>1. CASE End(p) BY <3>1, EndsAtRest
    <3>2. CASE ~End(p)
      <4>1. PICK f : /\ building' = [building EXCEPT ![p] = f]
                     /\ f = [building[p] EXCEPT !.pc = "dirs", !.kind = "stored", !.made = [@ EXCEPT !.secret = FALSE],
                                                !.next = 1]
        BY <1>4, <3>2 DEF Compile, Set
      <4>2. Others(p) /\ building'[p] = f BY <4>1, OthersStay
      <4>3. f.kind = "stored" BY <2>1, <4>1 DEF BuildJob
      <4> QED BY <4>2, <4>3 DEF Removing
    <3> QED BY <3>1, <3>2
  <2> QED BY <2>1, <2>3, <2>4, RemoveQuiet
<1>5. ASSUME NEW p \in Builders, Remove(p) PROVE RemoveInv'
  <2>1. UNCHANGED dirs /\ building[p].pc = "work" /\ building[p].kind = "remove" /\ building[p] \in BuildJob
    BY <1>5 DEF Remove, At, BuildTypes
  <2>2. CASE ~configured.present
    <3>1. End(p) /\ UNCHANGED <<configured, removed>> BY <1>5, <2>2 DEF Remove
    <3> QED BY <2>1, <3>1, EndsAtRest, RemoveQuiet
  <2>3. CASE configured.present
    <3>1. /\ configured' = [configured EXCEPT !.present = FALSE]
          /\ building' = [building EXCEPT ![p] = [building[p] EXCEPT !.pc = "dirs"]]
      BY <1>5, <2>3 DEF Remove, Set
    <3>2. Others(p) /\ building'[p] = [building[p] EXCEPT !.pc = "dirs"] BY <3>1, OthersStay
    <3>3. ~configured'.present BY <3>1 DEF BuildTypes
    <3>4. ASSUME removed' = "done"
          PROVE  /\ \A d \in Dirs : dirs'[d] = Absent
                 /\ \A q \in Builders : building'[q].held => At(q, "work")' \/ Scrubbing(q)'
      <4>1. removed # "done" BY <2>3 DEF RemoveInv
      <4>2. ~building[p].held /\ ~ownDir /\ ~Early BY <1>5, <2>3, <3>4, <4>1 DEF Remove
      <4>3. ~building'[p].held BY <2>1, <3>2, <4>2 DEF BuildJob
      <4>4. ASSUME NEW q \in Builders, building'[q].held PROVE At(q, "work")' \/ Scrubbing(q)'
        <5>1. q # p /\ building'[q] = building[q] BY <3>2, <4>3, <4>4 DEF Others
        <5>2. At(q, "work") \/ (At(q, "dirs") /\ building[q].kind \in {"remove", "clear"})
          BY <4>2, <4>4, <5>1, NoneEarly
        <5>3. ~(At(q, "dirs") /\ building[q].kind = "remove") BY <1>5 DEF Remove, ConfigFree
        <5> QED BY <4>4, <5>1, <5>2, <5>3 DEF At, Scrubbing
      <4> QED BY <2>1, <4>2, <4>4 DEF OwnInv
    <3>5. \A q \in Builders : ~Removing(q) BY <2>3 DEF RemoveInv
    <3>6. building'[p].next = 1
      <4>1. building[p].next = 1 BY <2>1 DEF JobsInv, JobInv, JobFacts
      <4> QED BY <2>1, <3>2, <4>1 DEF BuildJob
    <3>7. \A q \in Builders : Removing(q)' => q = p BY <3>2, <3>5 DEF Others, Removing, At
    <3>8. \A k \in 1 .. Len(RemoveTree) : ~(k < 1) BY RemoveOps
    <3> QED BY <2>1, <3>3, <3>4, <3>6, <3>7, <3>8 DEF RemoveInv
  <2> QED BY <2>2, <2>3
<1>6. ASSUME NEW p \in Builders, StartScrub(p) PROVE RemoveInv'
  <2>1. /\ Quiet(p) /\ UNCHANGED <<configured, removed>> /\ building'[p].kind = "clear" /\ At(p, "dirs")'
    BY <1>6, QuietSteps DEF StartScrub
  <2>2. building'[p].held => Scrubbing(p)' BY <2>1 DEF Scrubbing
  <2> QED BY <2>1, <2>2, RemoveQuiet DEF Quiet
<1>7. ASSUME NEW p \in Builders, Step(p) PROVE RemoveInv' BY <1>7, RemoveOperation
<1>8. ASSUME NEW p \in Builders, NotWritten(p) PROVE RemoveInv'
  <2>1. /\ End(p) /\ UNCHANGED <<configured, removed>> /\ building[p].held /\ building[p].pc = "dirs"
        /\ building[p].kind \in Writes /\ dirs' = [dirs EXCEPT ![Current(p).dir] = Absent]
    BY <1>8, CurrentOp DEF NotWritten
  <2>2. Others(p) /\ ~Removing(p)' /\ ~building'[p].held BY <2>1, EndsAtRest
  <2>3. removed # "done" BY <2>1 DEF RemoveInv, At, Scrubbing, Writes
  <2>4. \A q \in Builders : ~Removing(q)' BY <2>1, <2>2, OneHolder DEF Others, Removing
  <2> QED BY <2>1, <2>3, <2>4 DEF RemoveInv
<1>9. ASSUME NEW p \in Builders, Finish(p) PROVE RemoveInv'
  <2> DEFINE j == building[p]
  <2>1. j.pc = "dirs" /\ At(p, "dirs") /\ ~Working(p) /\ UNCHANGED <<configured, dirs>> /\ j \in BuildJob
    BY <1>9 DEF Finish, At, BuildTypes
  <2>2. Others(p) /\ ~Removing(p)'
    <3>1. CASE End(p) BY <3>1, EndsAtRest
    <3>2. CASE ~End(p)
      <4>1. building' = [building EXCEPT ![p] = [j EXCEPT !.pc = "compile"]] BY <1>9, <3>2 DEF Finish, Set
      <4>2. Others(p) /\ building'[p] = [j EXCEPT !.pc = "compile"] BY <4>1, OthersStay
      <4>3. building'[p].pc = "compile" BY <2>1, <4>2 DEF BuildJob
      <4> QED BY <4>2, <4>3 DEF Removing, At
    <3> QED BY <3>1, <3>2
  <2>3. CASE j.kind = "build"
    <3>1. UNCHANGED removed /\ j.held
      BY <1>9, <2>1, <2>3 DEF Finish, JobsInv, JobInv, JobFacts
    <3>2. removed # "done" BY <2>1, <2>3, <3>1 DEF RemoveInv, At, Scrubbing
    <3> QED BY <2>1, <2>2, <3>1, <3>2, RemoveQuiet
  <2>4. CASE j.kind = "remove" /\ j.held /\ ~configured.present
    <3>1. End(p) BY <1>9, <2>4 DEF Finish
    <3>2. Removing(p) BY <2>1, <2>4 DEF Removing
    <3>3. j.next \in 1 .. 8 /\ Program(j) = RemoveTree BY <2>1, <2>4, WhichProgram
    <3>4. j.next = 8 BY <2>1, <3>3, RemoveOps DEF Working
    <3>5. \A k \in 1 .. 7 : dirs[RemoveTree[k].dir] = Absent BY <3>2, <3>4, RemoveOps DEF RemoveInv
    <3>6. \A d \in Dirs : dirs[d] = Absent BY <3>5, RemoveOps
    <3>7. \A q \in Builders : ~building'[q].held BY <2>2, <2>4, <3>1, EndsAtRest, OneHolder DEF Others
    <3>8. \A q \in Builders : ~Removing(q)' BY <3>7 DEF Removing
    <3> QED BY <2>1, <2>4, <3>6, <3>7, <3>8 DEF RemoveInv
  <2>5. CASE j.kind # "build" /\ ~(j.kind = "remove" /\ j.held)
    <3>1. End(p) /\ UNCHANGED removed BY <1>9, <2>5 DEF Finish
    <3> QED BY <2>1, <2>2, <3>1, EndsAtRest, RemoveQuiet
  <2>6. j.kind = "remove" /\ j.held => ~configured.present BY <2>1 DEF Removing, RemoveInv
  <2> QED BY <2>3, <2>4, <2>5, <2>6
<1>10. ASSUME NEW p \in Builders, LoadFirmware(p) PROVE RemoveInv'
  <2>1. Quiet(p) /\ UNCHANGED <<configured, removed>> BY <1>10, QuietSteps DEF LoadFirmware
  <2>2. CASE End(p) BY <2>1, <2>2, EndsAtRest, RemoveQuiet DEF Quiet
  <2>3. CASE ~End(p)
    <3>1. dirs["firmware"] # Absent \/ dirs["firmware.prev"] # Absent BY <1>10, <2>3 DEF LoadFirmware
    <3>2. removed # "done" BY <3>1 DEF RemoveInv, Dirs
    <3> QED BY <2>1, <3>2, RemoveQuiet DEF Quiet
  <2> QED BY <2>2, <2>3
<1>11. ASSUME NEW p \in Builders, KillBuild(p) \/ \E force \in BOOLEAN : Upload(p, force) PROVE RemoveInv'
  <2>1. End(p) /\ UNCHANGED <<configured, dirs, removed>> BY <1>11 DEF KillBuild, Upload
  <2> QED BY <2>1, EndsAtRest, RemoveQuiet
<1>12. CASE Change
  <2>1. /\ UNCHANGED <<dirs, building>> /\ removed' = (IF configured'.present THEN "no" ELSE removed)
        /\ ConfigFree
    BY <1>12 DEF Change, BuildTypes
  <2>2. \A q \in Builders : ~Removing(q)' BY <2>1 DEF ConfigFree, Removing, At
  <2> QED BY <2>1, <2>2 DEF RemoveInv, At, Scrubbing
<1>13. CASE UNCHANGED buildVars
  <2>1. UNCHANGED <<configured, dirs, building, removed>> BY <1>13 DEF buildVars
  <2> QED BY <2>1 DEF RemoveInv, At, Scrubbing, Removing
<1>14. ASSUME NEW p \in Builders, ListProjects(p) PROVE RemoveInv'
  <2>1. Quiet(p) /\ UNCHANGED <<configured, removed>> /\ ~building'[p].held BY <1>14, QuietSteps DEF ListProjects
  <2> QED BY <2>1, RemoveQuiet DEF Quiet
<1> QED BY <1>1, <1>2, <1>3, <1>4, <1>5, <1>6, <1>7, <1>8, <1>9, <1>10, <1>11, <1>12, <1>13, <1>14 DEF BuildNext

\* What there is of the display is in its directory, which a removal takes away when it is empty.
LEMMA OwnStep ==
  ASSUME BuildTypes, JobsInv, RemoveInv, OwnInv, [BuildNext]_buildVars
  PROVE  OwnInv'
<1>1. CASE UNCHANGED <<dirs, ownDir>> BY <1>1 DEF OwnInv
<1>2. ASSUME NEW p \in Builders, Step(p) PROVE OwnInv'
  <2>1. Working(p) /\ ownDir' = (ownDir \/ building[p].kind \in {"render", "build", "stored"}) BY <1>2 DEF Step
  <2>2. CASE building[p].kind \in Writes \/ ownDir BY <2>1, <2>2 DEF OwnInv, Writes
  <2>3. CASE building[p].kind \notin Writes /\ ~ownDir
    <3>1. \A d \in Dirs : dirs[d] = Absent BY <2>3 DEF OwnInv
    <3>2. Current(p).op \in {"rm", "unlink"} /\ Current(p).dir \in Dirs
      BY <2>1, <2>3, CurrentOp, RemoveOps, ScrubOps
    <3>3. \/ dirs' = dirs \/ dirs' = [dirs EXCEPT ![Current(p).dir] = Absent]
      BY <1>2, <3>1, <3>2, StepOutcome
    <3>4. \A d \in Dirs : dirs'[d] = Absent BY <3>1, <3>2, <3>3 DEF BuildTypes
    <3> QED BY <2>1, <3>4 DEF OwnInv
  <2> QED BY <2>2, <2>3
<1>3. ASSUME NEW p \in Builders, NotWritten(p) PROVE OwnInv'
  <2>1. dirs' = [dirs EXCEPT ![Current(p).dir] = Absent] /\ UNCHANGED ownDir BY <1>3 DEF NotWritten
  <2> QED BY <2>1 DEF OwnInv, BuildTypes
<1>4. ASSUME NEW p \in Builders, Finish(p) PROVE OwnInv'
  <2>1. CASE UNCHANGED ownDir BY <1>4, <2>1 DEF Finish, OwnInv
  <2>2. CASE ownDir' # ownDir
    <3>1. /\ building[p].kind = "remove" /\ building[p].held /\ At(p, "dirs") /\ ~Working(p)
          /\ ownDir' = FALSE /\ UNCHANGED dirs
      BY <1>4, <2>2 DEF Finish
    <3>2. Removing(p) BY <3>1 DEF Removing
    <3>3. building[p].next \in 1 .. 8 /\ Program(building[p]) = RemoveTree BY <3>1, WhichProgram
    <3>4. building[p].next = 8 BY <3>1, <3>3, RemoveOps DEF Working
    <3>5. \A k \in 1 .. 7 : dirs[RemoveTree[k].dir] = Absent BY <3>2, <3>4, RemoveOps DEF RemoveInv
    <3>6. \A d \in Dirs : dirs[d] = Absent BY <3>5, RemoveOps
    <3> QED BY <3>1, <3>6 DEF OwnInv
  <2> QED BY <2>1, <2>2
<1> QED BY <1>1, <1>2, <1>3, <1>4
    DEF BuildNext, buildVars, Begin, TakeLock, GiveUp, Render, Compile, Remove, ListProjects, StartScrub, LoadFirmware,
        KillBuild, Upload, Change

-----------------------------------------------------------------------------
(* No old password in a rendered project.                                    *)

LEMMA ScrubQuiet ==
  ASSUME ScrubInv, NEW p \in Builders, Others(p), UNCHANGED <<dirs, scrubbed>>,
         scrubbed = "done" => configured'.wifi = Absent,
         Scrubbing(p)' => building'[p].next = 1,
         scrubbed = "done" /\ At(p, "dirs")' /\ building'[p].kind \in {"render", "build"} =>
           building'[p].made.wifi = Placeholder
  PROVE  ScrubInv'
<1>1. \A d \in ProjectDirs : Clean(d)' <=> Clean(d) BY DEF Clean
<1>2. \A k \in 1 .. Len(Scrub) : Scrub[k].dir \in ProjectDirs BY ScrubOps
<1>3. ASSUME NEW q \in Builders, Scrubbing(q)', NEW k \in 1 .. Len(Scrub), k < building'[q].next
      PROVE  Clean(Scrub[k].dir)'
  <2>1. CASE q = p BY <1>3, <2>1
  <2>2. CASE q # p
    <3>1. Scrubbing(q) /\ k < building[q].next BY <1>3, <2>2 DEF Others, Scrubbing, At
    <3> QED BY <1>1, <1>2, <3>1 DEF ScrubInv
  <2> QED BY <2>1, <2>2
<1>4. ASSUME scrubbed' = "done", NEW q \in Builders, At(q, "dirs")', building'[q].kind \in {"render", "build"}
      PROVE  building'[q].made.wifi = Placeholder
  <2>1. CASE q = p BY <1>4, <2>1
  <2>2. CASE q # p
    <3>1. building'[q] = building[q] BY <2>2 DEF Others
    <3> QED BY <1>4, <3>1 DEF ScrubInv, At
  <2> QED BY <2>1, <2>2
<1>5. scrubbed' = "done" => configured'.wifi = Absent /\ \A d \in ProjectDirs : Clean(d)' BY <1>1 DEF ScrubInv
<1> QED BY <1>3, <1>4, <1>5 DEF ScrubInv

\* The operations make no project dirty, if what is written has a placeholder.
LEMMA CleanStays ==
  ASSUME BuildTypes, JobsInv, NEW p \in Builders, Step(p)
  PROVE  /\ Current(p).op \in {"rm", "unlink"} => \A d \in Dirs : Clean(d) => Clean(d)'
         /\ Current(p).op = "unlink" => \A d \in Dirs : d = Current(p).dir => Clean(d)'
         /\ (building[p].kind \in {"render", "build"} => building[p].made.wifi = Placeholder)
            /\ (\A d \in ProjectDirs : Clean(d)) => \A d \in ProjectDirs : Clean(d)'
<1> DEFINE op == Current(p)
<1>1. Working(p) BY DEF Step
<1>2. /\ op.op \in {"rm", "put", "mv", "unlink"} /\ op.dir \in Dirs /\ op.to \in Dirs
      /\ op.op = "mv" => op.dir # op.to
  BY <1>1, CurrentOp
<1>3. dirs \in [Dirs -> Trees \cup {Absent}] /\ ProjectDirs \subseteq Dirs BY DEF BuildTypes, Dirs
<1>4. \A d \in Dirs : d # op.dir /\ d # op.to => dirs'[d] = dirs[d] BY StepOutcome
<1>5. op.op = "rm" => \/ dirs' = [dirs EXCEPT ![op.dir] = Absent]
                      \/ dirs[op.dir] # Absent /\ dirs' = [dirs EXCEPT ![op.dir].whole = FALSE]
  BY StepOutcome
<1>6. op.op = "put" => \/ dirs' = [dirs EXCEPT ![op.dir] = building[p].made]
                       \/ dirs' = [dirs EXCEPT ![op.dir] = [building[p].made EXCEPT !.whole = FALSE]]
  BY StepOutcome
<1>7. op.op = "mv" => IF dirs[op.dir] = Absent THEN dirs' = dirs
                      ELSE dirs' = [dirs EXCEPT ![op.to] = dirs[op.dir], ![op.dir] = Absent]
  BY StepOutcome
<1>8. op.op = "unlink" =>
         IF dirs[op.dir] = Absent THEN dirs' = dirs ELSE dirs' = [dirs EXCEPT ![op.dir].secret = FALSE]
  BY StepOutcome
<1>9. op.op = "put" => building[p].made \in Trees
  BY <1>1, CurrentOp DEF JobsInv, JobInv, JobFacts
<1>10. \/ building[p].kind \in {"render", "build"} /\ op.dir \in ProjectDirs /\ op.to \in ProjectDirs
       \/ building[p].kind = "stored" /\ op.dir \notin ProjectDirs /\ op.to \notin ProjectDirs
       \/ op.op \in {"rm", "unlink"}
  <2>1. CASE building[p].kind \in {"render", "build"} BY <1>1, <2>1, CurrentOp
  <2>2. CASE building[p].kind = "stored"
    <3>1. building[p].next \in 1 .. 5 /\ op = Rotate[building[p].next] BY <1>1, <2>2, CurrentOp
    <3>2. op \in {Rm("firmware.new"), Put("firmware.new"), Rm("firmware.prev"), Mv("firmware", "firmware.prev"),
                  Mv("firmware.new", "firmware")}
      <4>1. \A k \in 1 .. 5 : k = 1 \/ k = 2 \/ k = 3 \/ k = 4 \/ k = 5 OBVIOUS
      <4> QED BY <3>1, <4>1, RotateOps
    <3>3. op.dir \notin ProjectDirs /\ op.to \notin ProjectDirs BY <3>2 DEF Rm, Put, Mv, Op, ProjectDirs
    <3> QED BY <2>2, <3>3
  <2>3. CASE building[p].kind = "remove" BY <1>1, <2>3, CurrentOp, RemoveOps
  <2>4. CASE building[p].kind = "clear" BY <1>1, <2>4, CurrentOp, ScrubOps
  <2> QED BY <1>1, <2>1, <2>2, <2>3, <2>4, CurrentOp DEF Writes
<1> HIDE DEF op
<1>11. ASSUME op.op \in {"rm", "unlink"}, NEW d \in Dirs, Clean(d) PROVE Clean(d)'
  <2>1. \/ dirs'[d] = dirs[d] \/ dirs'[d] = Absent
        \/ dirs[d] \in Trees /\ dirs'[d] = [dirs[d] EXCEPT !.whole = FALSE]
        \/ dirs[d] \in Trees /\ dirs'[d] = [dirs[d] EXCEPT !.secret = FALSE]
    BY <1>2, <1>3, <1>5, <1>8, <1>11
  <2>2. CASE dirs[d] \in Trees /\ dirs'[d] = [dirs[d] EXCEPT !.whole = FALSE]
    <3>1. dirs'[d].secret = dirs[d].secret /\ dirs'[d].wifi = dirs[d].wifi /\ dirs[d] # Absent
      BY <2>2, BuildAssumption DEF Trees
    <3> QED BY <1>11, <3>1 DEF Clean
  <2>3. CASE dirs[d] \in Trees /\ dirs'[d] = [dirs[d] EXCEPT !.secret = FALSE]
    <3>1. ~dirs'[d].secret BY <2>3 DEF Trees
    <3> QED BY <3>1 DEF Clean
  <2> QED BY <1>11, <2>1, <2>2, <2>3 DEF Clean
<1>12. ASSUME op.op = "unlink", NEW d \in Dirs, d = op.dir PROVE Clean(d)'
  <2>1. CASE dirs[op.dir] = Absent BY <1>8, <1>12, <2>1 DEF Clean
  <2>2. CASE dirs[op.dir] # Absent
    <3>1. dirs[d] \in Trees /\ dirs'[d] = [dirs[d] EXCEPT !.secret = FALSE]
      BY <1>2, <1>3, <1>8, <1>12, <2>2
    <3>2. ~dirs'[d].secret BY <3>1 DEF Trees
    <3> QED BY <3>2 DEF Clean
  <2> QED BY <2>1, <2>2
<1>13. ASSUME building[p].kind \in {"render", "build"} => building[p].made.wifi = Placeholder,
              \A d \in ProjectDirs : Clean(d), NEW d \in ProjectDirs
       PROVE  Clean(d)'
  <2>0. Clean(d) /\ d \in Dirs BY <1>3, <1>13
  <2>1. CASE op.op \in {"rm", "unlink"} BY <1>11, <2>0, <2>1
  <2>2. CASE building[p].kind = "stored" /\ op.dir \notin ProjectDirs /\ op.to \notin ProjectDirs
    <3>1. dirs'[d] = dirs[d] BY <1>4, <2>0, <2>2
    <3> QED BY <2>0, <3>1 DEF Clean
  <2>3. CASE op.op = "put" /\ building[p].kind \in {"render", "build"}
    <3>1. \/ dirs'[d] = dirs[d] \/ dirs'[d] = building[p].made \/ dirs'[d] = [building[p].made EXCEPT !.whole = FALSE]
      BY <1>3, <1>6, <2>0, <2>3
    <3>2. [building[p].made EXCEPT !.whole = FALSE].wifi = building[p].made.wifi BY <1>9, <2>3 DEF Trees
    <3> QED BY <1>13, <2>0, <2>3, <3>1, <3>2 DEF Clean
  <2>4. CASE op.op = "mv" /\ op.dir \in ProjectDirs
    <3>1. dirs'[d] = dirs[d] \/ dirs'[d] = dirs[op.dir] \/ dirs'[d] = Absent BY <1>3, <1>7, <2>0, <2>4
    <3>2. Clean(op.dir) BY <1>13, <2>4
    <3> QED BY <2>0, <3>1, <3>2 DEF Clean
  <2> QED BY <1>2, <1>10, <2>1, <2>2, <2>3, <2>4
<1> QED BY <1>11, <1>12, <1>13 DEF op

LEMMA ScrubOperation ==
  ASSUME BuildTypes, JobsInv, ScrubInv, NEW p \in Builders, Step(p)
  PROVE  ScrubInv'
<1> DEFINE j == building[p]
<1>1. Working(p) /\ UNCHANGED <<configured, scrubbed>> BY DEF Step
<1>2. j.held /\ j.pc = "dirs" /\ At(p, "dirs") /\ j \in BuildJob BY <1>1, CurrentOp DEF At, BuildTypes
<1>3. /\ building' = [building EXCEPT ![p] = building'[p]] /\ building'[p].kind = j.kind
      /\ building'[p].pc = j.pc /\ building'[p].held = j.held /\ building'[p].next \in {j.next, j.next + 1}
      /\ building'[p].made = j.made
  BY StepOutcome
<1>4. Others(p) BY <1>3, OthersStay
<1>5. \A q \in Builders : q # p => ~Scrubbing(q)' BY <1>2, <1>4, OneHolder DEF Others, Scrubbing
<1>6. ASSUME Scrubbing(p)', NEW k \in 1 .. Len(Scrub), k < building'[p].next PROVE Clean(Scrub[k].dir)'
  <2>1. Scrubbing(p) /\ j.kind = "clear" BY <1>3, <1>6 DEF Scrubbing, At
  <2>2. j.next \in 1 .. 4 /\ Current(p) = Scrub[j.next] BY <1>1, <2>1, CurrentOp
  <2>3. Current(p).op = "unlink" BY <2>2, ScrubOps
  <2>4. Scrub[k].dir \in Dirs BY ScrubOps DEF Dirs
  <2>5. CASE k < j.next
    <3>1. Clean(Scrub[k].dir) BY <2>1, <2>5 DEF ScrubInv
    <3> QED BY <2>3, <2>4, <3>1, CleanStays
  <2>6. CASE k = j.next BY <2>2, <2>3, <2>4, <2>6, CleanStays
  <2>7. k < j.next \/ k = j.next BY <1>3, <1>6, <2>2, ScrubOps
  <2> QED BY <2>5, <2>6, <2>7
<1>7. ASSUME scrubbed' = "done"
      PROVE  /\ configured'.wifi = Absent /\ \A d \in ProjectDirs : Clean(d)'
             /\ \A q \in Builders :
                  At(q, "dirs")' /\ building'[q].kind \in {"render", "build"} => building'[q].made.wifi = Placeholder
  <2>1. /\ configured.wifi = Absent /\ \A d \in ProjectDirs : Clean(d)
        /\ j.kind \in {"render", "build"} => j.made.wifi = Placeholder
    BY <1>1, <1>2, <1>7 DEF ScrubInv
  <2>2. \A d \in ProjectDirs : Clean(d)' BY <2>1, CleanStays
  <2>3. ASSUME NEW q \in Builders, At(q, "dirs")', building'[q].kind \in {"render", "build"}
        PROVE  building'[q].made.wifi = Placeholder
    <3>1. CASE q = p BY <1>3, <2>1, <2>3, <3>1
    <3>2. CASE q # p
      <4>1. building'[q] = building[q] BY <1>4, <3>2 DEF Others
      <4> QED BY <1>1, <1>7, <2>3, <4>1 DEF ScrubInv, At
    <3> QED BY <3>1, <3>2
  <2> QED BY <1>1, <2>1, <2>2, <2>3
<1> QED BY <1>5, <1>6, <1>7 DEF ScrubInv

LEMMA ScrubStep ==
  ASSUME BuildTypes, JobsInv, ScrubInv, OwnInv, [BuildNext]_buildVars
  PROVE  ScrubInv'
<1>1. ASSUME NEW p \in Builders, NEW kind \in Kinds, Begin(p, kind) PROVE ScrubInv'
  <2>1. Quiet(p) /\ ~At(p, "dirs")' /\ UNCHANGED scrubbed BY <1>1, QuietSteps DEF Begin
  <2>2. scrubbed = "done" => configured'.wifi = Absent BY <1>1 DEF Begin, ScrubInv, BuildTypes
  <2> QED BY <2>1, <2>2, ScrubQuiet DEF Quiet, Scrubbing
<1>2. ASSUME NEW p \in Builders, TakeLock(p) \/ GiveUp(p) \/ LoadFirmware(p) PROVE ScrubInv'
  <2>1. Quiet(p) /\ UNCHANGED <<configured, scrubbed>> /\ ~At(p, "dirs")'
    BY <1>2, QuietSteps DEF TakeLock, GiveUp, LoadFirmware, At
  <2> QED BY <2>1, ScrubQuiet DEF Quiet, ScrubInv, Scrubbing
<1>3. ASSUME NEW p \in Builders, Render(p) PROVE ScrubInv'
  <2>1. Quiet(p) /\ UNCHANGED <<configured, scrubbed>> BY <1>3, QuietSteps DEF Render
  <2>2. CASE End(p) BY <2>1, <2>2, EndsAtRest, ScrubQuiet DEF Quiet, ScrubInv, At
  <2>3. CASE ~End(p)
    <3>1. PICK wifi \in {configured.wifi} \cup (IF building[p].kind = "render" THEN {Placeholder} ELSE {}) :
            /\ wifi # Absent
            /\ building' = [building EXCEPT ![p] = [building[p] EXCEPT !.pc = "dirs", !.made = Rendered(wifi)]]
      BY <1>3, <2>3 DEF Render, Set
    <3>2. building[p] \in BuildJob /\ building[p].kind \in {"render", "build"} BY <1>3 DEF Render, BuildTypes
    <3>3. building'[p] = [building[p] EXCEPT !.pc = "dirs", !.made = Rendered(wifi)] BY <3>1, OthersStay
    <3>4. building'[p].kind = building[p].kind /\ building'[p].made = Rendered(wifi) BY <3>2, <3>3 DEF BuildJob
    <3>5. ~Scrubbing(p)' BY <3>2, <3>4 DEF Scrubbing
    <3>6. scrubbed = "done" => wifi = Placeholder BY <3>1 DEF ScrubInv
    <3>7. scrubbed = "done" => building'[p].made.wifi = Placeholder BY <3>4, <3>6 DEF Rendered
    <3> QED BY <2>1, <3>5, <3>7, ScrubQuiet DEF Quiet, ScrubInv
  <2> QED BY <2>2, <2>3
<1>4. ASSUME NEW p \in Builders, Compile(p) PROVE ScrubInv'
  <2>1. UNCHANGED <<configured, dirs, scrubbed>> /\ building[p] \in BuildJob BY <1>4 DEF Compile, BuildTypes
  <2>2. CASE End(p) BY <2>1, <2>2, EndsAtRest, ScrubQuiet DEF ScrubInv, At
  <2>3. CASE ~End(p)
    <3>1. PICK f : /\ building' = [building EXCEPT ![p] = f]
                   /\ f = [building[p] EXCEPT !.pc = "dirs", !.kind = "stored", !.made = [@ EXCEPT !.secret = FALSE],
                                              !.next = 1]
      BY <1>4, <2>3 DEF Compile, Set
    <3>2. Others(p) /\ building'[p] = f BY <3>1, OthersStay
    <3>3. f.kind = "stored" BY <2>1, <3>1 DEF BuildJob
    <3> QED BY <2>1, <3>2, <3>3, ScrubQuiet DEF ScrubInv, Scrubbing
  <2> QED BY <2>2, <2>3
<1>5. ASSUME NEW p \in Builders, Remove(p) PROVE ScrubInv'
  <2>1. /\ UNCHANGED <<dirs, scrubbed>> /\ configured'.wifi = configured.wifi
        /\ building[p] \in BuildJob /\ building[p].kind = "remove"
    BY <1>5 DEF Remove, BuildTypes
  <2>2. CASE End(p) BY <2>1, <2>2, EndsAtRest, ScrubQuiet DEF ScrubInv, At
  <2>3. CASE ~End(p)
    <3>1. building' = [building EXCEPT ![p] = [building[p] EXCEPT !.pc = "dirs"]] BY <1>5, <2>3 DEF Remove, Set
    <3>2. Others(p) /\ building'[p] = [building[p] EXCEPT !.pc = "dirs"] BY <3>1, OthersStay
    <3>3. building'[p].kind = "remove" BY <2>1, <3>2 DEF BuildJob
    <3> QED BY <2>1, <3>2, <3>3, ScrubQuiet DEF ScrubInv, Scrubbing
  <2> QED BY <2>2, <2>3
<1>6. ASSUME NEW p \in Builders, StartScrub(p) PROVE ScrubInv'
  <2>1. /\ Quiet(p) /\ UNCHANGED <<configured, scrubbed>> /\ building'[p].kind = "clear" /\ building'[p].next = 1
    BY <1>6, QuietSteps DEF StartScrub
  <2> QED BY <2>1, ScrubQuiet DEF Quiet, ScrubInv
<1>7. ASSUME NEW p \in Builders, Step(p) PROVE ScrubInv' BY <1>7, ScrubOperation
<1>8. ASSUME NEW p \in Builders, NotWritten(p) PROVE ScrubInv'
  <2>1. /\ End(p) /\ UNCHANGED <<configured, scrubbed>> /\ building[p].held
        /\ dirs' = [dirs EXCEPT ![Current(p).dir] = Absent]
    BY <1>8, CurrentOp DEF NotWritten
  <2>2. Others(p) /\ ~Scrubbing(p)' /\ ~At(p, "dirs")' BY <2>1, EndsAtRest DEF At
  <2>3. \A q \in Builders : ~Scrubbing(q)' BY <2>1, <2>2, OneHolder DEF Others, Scrubbing
  <2>4. \A d \in ProjectDirs : dirs'[d] = dirs[d] \/ dirs'[d] = Absent BY <2>1 DEF BuildTypes, Dirs
  <2>5. \A d \in ProjectDirs : Clean(d) => Clean(d)' BY <2>4 DEF Clean
  <2>6. \A q \in Builders : At(q, "dirs")' => At(q, "dirs") /\ building'[q] = building[q] BY <2>2 DEF Others, At
  <2> QED BY <2>1, <2>3, <2>5, <2>6 DEF ScrubInv
<1>9. ASSUME NEW p \in Builders, Finish(p) PROVE ScrubInv'
  <2> DEFINE j == building[p]
  <2>1. j.pc = "dirs" /\ At(p, "dirs") /\ ~Working(p) /\ UNCHANGED <<configured, dirs>> /\ j \in BuildJob
    BY <1>9 DEF Finish, At, BuildTypes
  <2>2. Others(p) /\ ~At(p, "dirs")'
    <3>1. CASE End(p) BY <3>1, EndsAtRest DEF At
    <3>2. CASE ~End(p)
      <4>1. building' = [building EXCEPT ![p] = [j EXCEPT !.pc = "compile"]] BY <1>9, <3>2 DEF Finish, Set
      <4>2. Others(p) /\ building'[p] = [j EXCEPT !.pc = "compile"] BY <4>1, OthersStay
      <4>3. building'[p].pc = "compile" BY <2>1, <4>2 DEF BuildJob
      <4> QED BY <4>2, <4>3 DEF At
    <3> QED BY <3>1, <3>2
  <2>0. j.kind = "clear" => j.held BY <2>1 DEF JobsInv, JobInv, JobFacts
  <2>3. CASE j.kind = "clear" /\ j.held /\ configured.wifi = Absent
    <3>1. Scrubbing(p) BY <2>1, <2>3 DEF Scrubbing
    <3>2. j.next \in 1 .. 5 /\ Program(j) = Scrub BY <2>1, <2>3, WhichProgram
    <3>3. j.next = 5 BY <2>1, <3>2, ScrubOps DEF Working
    <3>4. \A k \in 1 .. 4 : Clean(Scrub[k].dir) BY <3>1, <3>3, ScrubOps DEF ScrubInv
    <3>5. \A d \in ProjectDirs : Clean(d) BY <3>4, ScrubOps
    <3>6. \A d \in ProjectDirs : Clean(d)' BY <2>1, <3>5 DEF Clean
    <3>7. ASSUME NEW q \in Builders, At(q, "dirs")' PROVE ~Scrubbing(q)' /\ building'[q].kind \notin {"render", "build"}
      <4>1. q # p /\ building'[q] = building[q] BY <2>2, <3>7 DEF Others
      <4>2. ~building[q].held BY <2>3, <4>1, OneHolder
      <4>3. building[q].kind \in {"remove", "clear"}
        BY <3>7, <4>1, <4>2 DEF JobsInv, JobInv, JobFacts, At
      <4> QED BY <4>1, <4>2, <4>3 DEF Scrubbing
    <3> QED BY <2>1, <2>3, <3>6, <3>7 DEF ScrubInv, Scrubbing
  <2>4. CASE ~(j.kind = "clear" /\ configured.wifi = Absent)
    <3>1. scrubbed' = "done" => UNCHANGED scrubbed BY <1>9, <2>4 DEF Finish
    <3>2. \A d \in ProjectDirs : Clean(d)' <=> Clean(d) BY <2>1 DEF Clean
    <3>3. \A q \in Builders : At(q, "dirs")' => At(q, "dirs") /\ building'[q] = building[q]
      BY <2>2 DEF Others, At
    <3>4. \A k \in 1 .. Len(Scrub) : Scrub[k].dir \in ProjectDirs BY ScrubOps
    <3> QED BY <2>1, <3>1, <3>2, <3>3, <3>4 DEF ScrubInv, Scrubbing
  <2> QED BY <2>0, <2>3, <2>4
<1>10. ASSUME NEW p \in Builders, KillBuild(p) \/ \E force \in BOOLEAN : Upload(p, force) PROVE ScrubInv'
  <2>1. End(p) /\ UNCHANGED <<configured, dirs, scrubbed>> BY <1>10 DEF KillBuild, Upload
  <2> QED BY <2>1, EndsAtRest, ScrubQuiet DEF ScrubInv, At
<1>11. CASE Change
  <2>1. /\ UNCHANGED <<dirs, building>> /\ scrubbed' = (IF configured'.wifi = Absent THEN scrubbed ELSE "no")
    BY <1>11 DEF Change, BuildTypes
  <2> QED BY <2>1 DEF ScrubInv, Scrubbing, At, Clean
<1>12. CASE UNCHANGED buildVars
  <2>1. UNCHANGED <<configured, dirs, building, scrubbed>> BY <1>12 DEF buildVars
  <2> QED BY <2>1 DEF ScrubInv, Scrubbing, At, Clean
<1>13. ASSUME NEW p \in Builders, ListProjects(p) PROVE ScrubInv'
  <2>1. Quiet(p) /\ UNCHANGED configured /\ ~At(p, "dirs")' BY <1>13, QuietSteps DEF ListProjects
  <2>2. CASE UNCHANGED scrubbed BY <2>1, <2>2, ScrubQuiet DEF Quiet, ScrubInv, Scrubbing
  <2>3. CASE scrubbed' # scrubbed
    <3>1. scrubbed' = "done" => configured.wifi = Absent /\ ~ownDir /\ ~Early BY <1>13, <2>3 DEF ListProjects
    <3>2. ASSUME NEW d \in ProjectDirs PROVE Clean(d)' <=> Clean(d) BY <2>1 DEF Quiet, Clean
    <3>3. ~ownDir => \A d \in ProjectDirs : Clean(d) BY DEF OwnInv, Clean, Dirs
    <3>4. \A q \in Builders : At(q, "dirs")' => At(q, "dirs") /\ building'[q] = building[q]
      BY <2>1 DEF Quiet, Others, At
    <3>5. ASSUME ~Early, NEW q \in Builders, At(q, "dirs"), building[q].kind \in {"render", "build"} PROVE FALSE
      <4>1. building[q].held BY <3>5 DEF JobsInv, JobInv, JobFacts, At
      <4> QED BY <3>5, <4>1, NoneEarly DEF At
    <3>6. \A k \in 1 .. Len(Scrub) : Scrub[k].dir \in ProjectDirs BY ScrubOps
    <3> QED BY <2>1, <3>1, <3>2, <3>3, <3>4, <3>5, <3>6 DEF ScrubInv, Scrubbing
  <2> QED BY <2>2, <2>3
<1> QED BY <1>1, <1>2, <1>3, <1>4, <1>5, <1>6, <1>7, <1>8, <1>9, <1>10, <1>11, <1>12, <1>13 DEF BuildNext

-----------------------------------------------------------------------------
(* What is flashed.                                                          *)

LEMMA FlashStep ==
  ASSUME BuildTypes, JobsInv, FlashesCurrent, [BuildNext]_buildVars
  PROVE  FlashesCurrent'
<1>1. CASE UNCHANGED uploaded BY <1>1 DEF FlashesCurrent
<1>2. ASSUME NEW p \in Builders, NEW force \in BOOLEAN, Upload(p, force), uploaded' # uploaded
      PROVE  FlashesCurrent'
  <2>1. /\ uploaded' = [image |-> building[p].made, checked |-> configured, forced |-> force]
        /\ force \/ Matches(building[p].made)
    BY <1>2 DEF Upload, Staged
  <2>2. building[p].made.whole BY <1>2 DEF Upload, At, JobsInv, JobInv, JobFacts
  <2> QED BY <2>1, <2>2 DEF FlashesCurrent, Matches
<1>3. (\E p \in Builders : \E force \in BOOLEAN : Upload(p, force)) \/ UNCHANGED uploaded
  BY DEF BuildNext, buildVars, Begin, TakeLock, GiveUp, Render, Compile, Remove, ListProjects, StartScrub, Step,
         NotWritten, Finish,
         LoadFirmware, KillBuild, Change
<1> QED BY <1>1, <1>2, <1>3

-----------------------------------------------------------------------------
BuildInv == BuildTypes /\ JobsInv /\ ImageInv /\ RemoveInv /\ ScrubInv /\ OwnInv /\ FlashesCurrent

LEMMA BuildStarts == BuildInit => BuildInv
<1> SUFFICES ASSUME BuildInit PROVE BuildInv OBVIOUS
<1>1. PICK old \in {OldLayout, Absent} :
        /\ dirs = [d \in Dirs |-> IF d \in {"legacy", "firmware"} THEN old ELSE Absent]
        /\ stored = (old # Absent) /\ ownDir = (old # Absent)
  BY DEF BuildInit
<1>2. OldLayout \in Trees /\ OldLayout.whole BY DEF OldLayout, Trees
<1>3. /\ configured = [present |-> TRUE, source |-> 0, own |-> 0, wifi |-> 0]
      /\ buildLock = Absent /\ building = [p \in Builders |-> AtRest] /\ uploaded = Absent
      /\ scrubbed = "no" /\ removed = "no" /\ changes = 0 /\ kills = 0
  BY DEF BuildInit
<1>4. BuildTypes BY <1>1, <1>2, <1>3, RestFacts DEF BuildTypes, Endings
<1>10. OwnInv BY <1>1 DEF OwnInv
<1>5. AtRest.held = FALSE /\ AtRest.pc = "idle" BY DEF AtRest
<1>6. \A p \in Builders : building[p] = AtRest /\ Absent # p BY <1>3, BuildAssumption
<1>7. JobsInv BY <1>3, <1>5, <1>6, RestFacts DEF JobsInv, JobInv
<1>8. \A p \in Builders : ~Rotating(p) /\ ~Removing(p) /\ ~Scrubbing(p)
  BY <1>5, <1>6 DEF Rotating, Removing, Scrubbing, At
<1>9. stored => Good("firmware") BY <1>1, <1>2 DEF Good, Dirs
<1> QED BY <1>3, <1>4, <1>7, <1>8, <1>9, <1>10 DEF BuildInv, ImageInv, Kept, RemoveInv, ScrubInv, FlashesCurrent

(* The inductive invariant, for any processes and any bounds.                *)
THEOREM BuildHolds == BuildSpec => []BuildInv
<1>1. BuildInv /\ [BuildNext]_buildVars => BuildInv'
  BY TypesStep, ImageStep, RemoveStep, ScrubStep, OwnStep, FlashStep DEF BuildInv
<1> QED BY <1>1, BuildStarts, PTL DEF BuildSpec

(* Firmware that was stored can be flashed or rolled back to whenever no     *)
(* command is at work, unless two were killed; and what a flash sends was    *)
(* built from the configuration it was checked against.                      *)
THEOREM ImagesStay == BuildSpec => []ImagesTrue
<1>1. BuildInv => ImagesTrue
  <2> SUFFICES ASSUME BuildInv PROVE ImagesTrue OBVIOUS
  <2>1. ASSUME stored, buildLock = Absent, kills < 2
        PROVE  \E d \in {"firmware", "firmware.prev"} : dirs[d] # Absent /\ dirs[d].whole
    <3>1. \A p \in Builders : ~Rotating(p)
      BY <2>1, RotatingHolds, BuildAssumption DEF BuildInv, JobsInv, JobInv
    <3> QED BY <2>1, <3>1 DEF BuildInv, ImageInv, Kept, Good
  <2> QED BY <2>1 DEF BuildInv, ImagesTrue, ImageKept
<1> QED BY <1>1, BuildHolds, PTL

(* After a remove no directory of the display is left, and after a           *)
(* `wifi --clear` no old password in a rendered project, whatever else ran,  *)
(* was killed or was started meanwhile; but for a first render or build that *)
(* had read the configuration when one of them, finding no directory, took   *)
(* no lock.                                                                  *)
THEOREM NothingLeft == BuildSpec => []CleanedUp
<1>1. BuildInv => CleanedUp BY DEF BuildInv, RemoveInv, ScrubInv, Clean, CleanedUp, RemoveCleans, ClearScrubs
<1> QED BY <1>1, BuildHolds, PTL
===============================================================================
