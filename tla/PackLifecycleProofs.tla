------------------------- MODULE PackLifecycleProofs -------------------------
(***************************************************************************)
(* Proofs about PackLifecycle, for every project, release history and      *)
(* sequence of commands.                                                   *)
(***************************************************************************)
EXTENDS PackLifecycle, TLAPS

-----------------------------------------------------------------------------
(* Type correctness *)

Busy == pc # "idle"

(* What a command that has started has established: each of its writes     *)
(* finds the value in memory or the file on disk that it needs.            *)
ControlOK ==
  /\ pc \in Controls \ {"idle", "next", "restore_wipe", "restore_copy"} => arg \in Names
  /\ pc = "copy" => op \in {"add", "install", "update", "upgrade"}
  /\ pc = "merge" => op \in {"add", "upgrade"}
  /\ pc = "prov" => op \in {"add", "upgrade", "remove"}
  /\ pc = "yml" => op \in {"add", "update", "upgrade", "remove"}
  /\ pc = "lock" => op \in {"add", "update", "upgrade", "remove", "relock"}
  /\ pc = "wipe" => op \in {"update", "upgrade", "remove"}
  /\ pc = "gitignore" => op = "add"
  /\ pc \in {"undo_dir", "undo_yml", "undo_lock", "undo_prov"} => op = "add" /\ snap \in Snapshots
  /\ pc \in {"next", "restore_wipe", "restore_copy"} => op = "install"
  /\ Busy /\ op = "install" => snap \in Snapshots /\ lock # None
  /\ op = "add" /\ pc \in {"merge", "prov", "yml", "lock"} => snap \in Snapshots
  /\ pc \in {"wipe", "yml", "lock", "prov"} /\ op = "remove" => prov # None
  /\ Busy /\ op = "relock" => lock # None /\ lock[arg] # None
  /\ Busy /\ op \in {"update", "upgrade"} => cmd.asked \in Names
  /\ op \in {"add", "upgrade"} /\ pc \in {"copy", "merge", "wipe", "prov"} =>
       /\ Manifest(cmd.tree) # None
       /\ \A s \in cmd.merged : Manifest(cmd.tree).config[s] # None
  /\ op = "upgrade" /\ pc \in {"copy", "merge", "wipe", "prov"} => prov # None
  /\ op = "add" /\ pc = "prov" => prov # None

TypeInv == TypeOK /\ ControlOK

(* The operators on trees stay within trees and manifests. *)
LEMMA TreeTypes ==
  /\ EmptyTree \in Trees
  /\ \A t \in Trees : Pristine(t) \in Trees /\ ContentHash(t) \in Trees
  /\ \A d \in Trees \union {None} : OrEmpty(d) \in Trees
  /\ \A s, d \in Trees, f \in Files : CopyFile(s, d, f) \in Trees
  /\ \A t \in Trees : Manifest(t) \in ManifestRecords \union {None}
BY PackTreesAssumption DEF EmptyTree, Trees, Pristine, ContentHash, OrEmpty, CopyFile, Manifest, Files

LEMMA NoCmdType == NoCmd \in CmdRecords
BY TreeTypes, PackTreesAssumption DEF NoCmd, CmdRecords, Files

(* The project starts empty. *)
LEMMA TypeInit == Init => TypeInv
<1> SUFFICES ASSUME Init PROVE TypeInv
  OBVIOUS
<1>1. TypeOK
  <2>1. yml \in YmlFiles /\ dirs \in PackDirs
    BY DEF Init, YmlFiles, PackDirs, NoPacks
  <2>2. prov \in ProvFiles
    BY DEF Init, ProvFiles
  <2>3. conf \in ToolConfigs /\ source \in [Paths -> Trees \union {None}]
        /\ remote \in [Coords -> [Versions -> Trees \union {None}]]
    BY PackLifecycleAssumption DEF Init
  <2>4. ignored \in BOOLEAN
    BY DEF Init
  <2>5. cmd \in CmdRecords /\ pc \in Controls /\ disturbed \in 0..MaxDisturbances
    BY NoCmdType, PackLifecycleAssumption DEF Init, Controls
  <2> QED BY <2>1, <2>2, <2>3, <2>4, <2>5 DEF Init, TypeOK
<1>2. ControlOK
  BY DEF Init, ControlOK, Busy
<1> QED BY <1>1, <1>2 DEF TypeInv

(* A command that is answered without a write keeps the types. *)
LEMMA AnswerType ==
  ASSUME TypeInv, NEW o \in Commands, NEW n \in Names \union {None}, NEW r \in Outcomes,
         r # "rolledback", Answer(o, n, r)
  PROVE  TypeInv'
<1>1. TypeOK'
  BY NoCmdType DEF TypeInv, TypeOK, Answer, Finish, files, world, Controls
<1>2. ControlOK'
  BY DEF Answer, Finish, ControlOK, Busy, Controls
<1> QED BY <1>1, <1>2 DEF TypeInv

(* A command that starts writing holds well-typed values. *)
LEMMA LaunchType ==
  ASSUME TypeInv, NEW o \in Commands, NEW n \in Names \union {None}, NEW first \in Controls,
         NEW c \in CmdRecords, Launch(o, n, first, c), snap' \in Snapshots \union {None}
  PROVE  TypeOK'
BY DEF TypeInv, TypeOK, Launch, files, world

LEMMA WipeFileType == TypeInv /\ WipeFile => TypeInv'
<1> SUFFICES ASSUME TypeInv, WipeFile PROVE TypeInv'
  OBVIOUS
<1>1. arg \in Names
  BY DEF TypeInv, ControlOK, WipeFile, Controls
<1>2. dirs' \in PackDirs
  BY <1>1 DEF TypeInv, TypeOK, WipeFile, PackDirs, Trees
<1>3. TypeOK'
  BY <1>2 DEF TypeInv, TypeOK, WipeFile, world
<1>4. ControlOK'
  BY DEF TypeInv, WipeFile, ControlOK, Busy, world
<1> QED BY <1>3, <1>4 DEF TypeInv

LEMMA WipedType == TypeInv /\ Wiped => TypeInv'
<1> SUFFICES ASSUME TypeInv, Wiped PROVE TypeInv'
  OBVIOUS
<1>1. arg \in Names
  BY DEF TypeInv, ControlOK, Wiped, Controls
<1>2. dirs' \in PackDirs
  BY <1>1 DEF TypeInv, TypeOK, Wiped, PackDirs
<1>3. TypeOK'
  BY <1>2 DEF TypeInv, TypeOK, Wiped, Goto, world, Controls
<1>4. ControlOK'
  BY DEF TypeInv, Wiped, Goto, ControlOK, Busy, world, Controls
<1> QED BY <1>3, <1>4 DEF TypeInv

LEMMA CopyNextType == TypeInv /\ CopyNext => TypeInv'
<1> SUFFICES ASSUME TypeInv, CopyNext PROVE TypeInv'
  OBVIOUS
<1>1. arg \in Names /\ cmd \in CmdRecords
  BY DEF TypeInv, TypeOK, ControlOK, CopyNext, Controls
<1>2. cmd.pos + 1 \in Files /\ cmd.tree \in Trees
  BY <1>1, PackTreesAssumption DEF CopyNext, CmdRecords, Files
<1>3. dirs' \in PackDirs
  BY <1>1, <1>2, TreeTypes DEF TypeInv, TypeOK, CopyNext, PackDirs
<1>4. cmd' \in CmdRecords /\ cmd'.tree = cmd.tree /\ cmd'.merged = cmd.merged /\ cmd'.asked = cmd.asked
  BY <1>1, <1>2, PackTreesAssumption DEF CopyNext, CmdRecords, Files
<1>5. TypeOK'
  BY <1>3, <1>4 DEF TypeInv, TypeOK, CopyNext, world
<1>6. ControlOK'
  BY <1>4 DEF TypeInv, CopyNext, ControlOK, Busy, world, Controls
<1> QED BY <1>5, <1>6 DEF TypeInv

LEMMA CopiedType == TypeInv /\ Copied => TypeInv'
<1> SUFFICES ASSUME TypeInv, Copied PROVE TypeInv'
  OBVIOUS
<1>1. arg \in Names /\ cmd \in CmdRecords /\ op \in {"add", "install", "update", "upgrade"}
  BY DEF TypeInv, TypeOK, ControlOK, Copied, Controls
<1>2. ContentHash(OrEmpty(dirs[arg])) \in Trees
  BY <1>1, TreeTypes DEF TypeInv, TypeOK, PackDirs
<1>3. cmd' \in CmdRecords /\ cmd'.tree = cmd.tree /\ cmd'.merged = cmd.merged /\ cmd'.asked = cmd.asked
  BY <1>1, <1>2 DEF Copied, CmdRecords
<1>4. Snapshot \in Snapshots
  BY DEF TypeInv, TypeOK, Snapshot, Snapshots
<1>5. TypeOK'
  BY <1>1, <1>3, <1>4 DEF TypeInv, TypeOK, Copied, Goto, files, world, Controls
<1>6. ControlOK'
  BY <1>1, <1>3, <1>4 DEF TypeInv, Copied, Goto, ControlOK, Busy, files, world, Controls
<1> QED BY <1>5, <1>6 DEF TypeInv

LEMMA MergeToolConfigType == TypeInv /\ MergeToolConfig => TypeInv'
<1> SUFFICES ASSUME TypeInv, MergeToolConfig PROVE TypeInv'
  OBVIOUS
<1>1. /\ arg \in Names /\ cmd \in CmdRecords /\ op \in {"add", "upgrade"} /\ pc = "merge"
      /\ Manifest(cmd.tree) # None /\ conf \in ToolConfigs
  BY DEF TypeInv, TypeOK, ControlOK, MergeToolConfig, Controls
<1> DEFINE wanted == Manifest(cmd.tree).config
           fresh == {s \in Settings : wanted[s] # None /\ conf[s] = None}
<1>2. wanted \in ToolConfigs
  BY <1>1, TreeTypes DEF CmdRecords, ManifestRecords
<1> HIDE DEF wanted
<1>3. [s \in Settings |-> IF s \in fresh THEN wanted[s] ELSE conf[s]] \in ToolConfigs
  BY <1>1, <1>2 DEF ToolConfigs
<1>4. conf' \in ToolConfigs
  BY <1>1, <1>3 DEF MergeToolConfig, wanted
<1>5. CASE pc' = "idle"
  <2>1. Finish(op, arg, "error") /\ UNCHANGED <<report, yml, lock, prov, dirs, ignored>>
    BY <1>1, <1>5 DEF MergeToolConfig, Goto
  <2>2. TypeOK'
    BY <2>1, <1>1, <1>4, NoCmdType DEF TypeInv, TypeOK, Finish, world, Controls, Outcomes
  <2>3. ControlOK'
    BY <1>5 DEF ControlOK, Busy, Controls
  <2> QED BY <2>2, <2>3 DEF TypeInv
<1>6. CASE Goto("undo_dir") /\ UNCHANGED <<cmd, snap, yml, lock, prov, dirs, ignored>> /\ op = "add"
  <2>1. TypeOK'
    BY <1>4, <1>6 DEF TypeInv, TypeOK, Goto, world, Controls
  <2>2. ControlOK'
    BY <1>1, <1>6 DEF TypeInv, ControlOK, Goto, Busy, Controls
  <2> QED BY <2>1, <2>2 DEF TypeInv
<1>7. CASE /\ Goto(IF op = "add" THEN "prov" ELSE "wipe")
           /\ cmd' = [cmd EXCEPT !.merged = fresh]
           /\ UNCHANGED <<snap, yml, lock, prov, dirs, ignored>>
           /\ prov # None
  <2>1. /\ cmd' \in CmdRecords /\ cmd'.tree = cmd.tree /\ cmd'.asked = cmd.asked
        /\ cmd'.merged = fresh
    BY <1>1, <1>7 DEF CmdRecords
  <2>2. \A s \in cmd'.merged : Manifest(cmd'.tree).config[s] # None
    BY <2>1 DEF wanted
  <2>3. TypeOK'
    BY <1>1, <1>4, <1>7, <2>1 DEF TypeInv, TypeOK, Goto, world, Controls
  <2>4. ControlOK'
    BY <1>1, <1>7, <2>1, <2>2 DEF TypeInv, ControlOK, Goto, Busy, Controls
  <2> QED BY <2>3, <2>4 DEF TypeInv
<1> QED
  BY <1>1, <1>5, <1>6, <1>7 DEF MergeToolConfig, Finish, wanted

LEMMA WriteProvenanceType == TypeInv /\ WriteProvenance => TypeInv'
<1> SUFFICES ASSUME TypeInv, WriteProvenance PROVE TypeInv'
  OBVIOUS
<1>1. /\ arg \in Names /\ cmd \in CmdRecords /\ pc = "prov" /\ prov # None
      /\ op \in {"add", "upgrade", "remove"}
  BY DEF TypeInv, TypeOK, ControlOK, WriteProvenance, Controls
<1>2. CASE op = "remove"
  <2>1. prov' \in ProvFiles
    BY <1>1, <1>2 DEF TypeInv, TypeOK, WriteProvenance, ProvFiles
  <2>2. TypeOK'
    BY <1>1, <1>2, <2>1, NoCmdType
    DEF TypeInv, TypeOK, WriteProvenance, Finish, world, Controls, Outcomes, Commands
  <2>3. ControlOK'
    BY <1>2 DEF WriteProvenance, Finish, ControlOK, Busy, Controls
  <2> QED BY <2>2, <2>3 DEF TypeInv
<1>3. CASE op # "remove"
  <2>1. /\ Manifest(cmd.tree) \in ManifestRecords /\ cmd.merged \subseteq Settings
        /\ \A s \in cmd.merged : Manifest(cmd.tree).config[s] # None
    BY <1>1, <1>3, TreeTypes DEF TypeInv, ControlOK, CmdRecords
  <2>2. \A s \in cmd.merged : Manifest(cmd.tree).config[s] \in Values
    BY <2>1 DEF ManifestRecords, ToolConfigs
  <2>3. {[setting |-> s, pack |-> arg, value |-> Manifest(cmd.tree).config[s]] : s \in cmd.merged}
          \subseteq ProvEntries
    BY <1>1, <2>1, <2>2 DEF ProvEntries
  <2>4. prov' \in ProvFiles
    BY <1>1, <1>3, <2>3 DEF TypeInv, TypeOK, WriteProvenance, ProvFiles
  <2>5. TypeOK'
    BY <1>3, <2>4 DEF TypeInv, TypeOK, WriteProvenance, Goto, world, Controls
  <2>6. ControlOK'
    BY <1>1, <1>3 DEF TypeInv, WriteProvenance, Goto, ControlOK, Busy, Controls
  <2> QED BY <2>5, <2>6 DEF TypeInv
<1> QED BY <1>2, <1>3

LEMMA WriteYmlType == TypeInv /\ WriteYml => TypeInv'
<1> SUFFICES ASSUME TypeInv, WriteYml PROVE TypeInv'
  OBVIOUS
<1>1. arg \in Names /\ cmd \in CmdRecords
  BY DEF TypeInv, TypeOK, ControlOK, WriteYml, Controls
<1>2. yml' \in YmlFiles
  BY <1>1 DEF TypeInv, TypeOK, WriteYml, YmlFiles, CmdRecords
<1>3. TypeOK'
  BY <1>2 DEF TypeInv, TypeOK, WriteYml, Goto, world, Controls
<1>4. ControlOK'
  BY DEF TypeInv, WriteYml, Goto, ControlOK, Busy, Controls
<1> QED BY <1>3, <1>4 DEF TypeInv

(* The coordinate carried forward is one that was recorded, or none. *)
LEMMA RecordedType ==
  ASSUME TypeOK, NEW n \in Names
  PROVE  /\ RecordedCoordinate(n) \in Coords \union {None}
         /\ CoordinateFor(n) \in Coords
         /\ Entry(n) \in LockEntries \union {None}
<1>1. Entry(n) \in LockEntries \union {None}
  BY DEF TypeOK, Entry, LockFiles
<1>2. RecordedCoordinate(n) \in Coords \union {None}
  BY <1>1 DEF RecordedCoordinate, LockEntries
<1> QED BY <1>1, <1>2, PackTreesAssumption DEF CoordinateFor

LEMMA NewEntryType ==
  ASSUME TypeInv, pc = "lock", op \in {"add", "update", "upgrade"}
  PROVE  NewEntry \in LockEntries
BY RecordedType DEF TypeInv, TypeOK, ControlOK, Busy, NewEntry, LockEntries, CmdRecords

LEMMA WriteLockType == TypeInv /\ WriteLock => TypeInv'
<1> SUFFICES ASSUME TypeInv, WriteLock PROVE TypeInv'
  OBVIOUS
<1>1. /\ arg \in Names /\ cmd \in CmdRecords /\ pc = "lock"
      /\ op \in {"add", "update", "upgrade", "remove", "relock"}
  BY DEF TypeInv, TypeOK, ControlOK, WriteLock, Controls
<1>2. LockBase \in LockFiles
  BY DEF TypeInv, TypeOK, LockBase, LockFiles, NoPacks
<1>3. op \in {"add", "update", "upgrade"} => NewEntry \in LockEntries
  BY <1>1, NewEntryType
<1>4. lock' \in LockFiles \union {None}
  <2>1. CASE op \in {"add", "update", "upgrade"}
    BY <1>1, <1>2, <1>3, <2>1 DEF WriteLock, LockFiles
  <2>2. CASE op = "remove"
    BY <1>1, <2>2 DEF TypeInv, TypeOK, WriteLock, LockFiles
  <2>3. CASE op = "relock"
    <3>1. lock \in LockFiles /\ lock[arg] \in LockEntries
      BY <1>1, <2>3 DEF TypeInv, TypeOK, ControlOK, Busy, LockFiles
    <3>2. [lock[arg] EXCEPT !.hash = cmd.hash] \in LockEntries
      BY <1>1, <3>1 DEF LockEntries, CmdRecords
    <3> QED BY <1>1, <2>3, <3>1, <3>2 DEF WriteLock, LockFiles
  <2> QED BY <1>1, <2>1, <2>2, <2>3
<1>5. TypeOK'
  BY <1>1, <1>4, NoCmdType
  DEF TypeInv, TypeOK, WriteLock, Goto, Finish, world, Controls, Outcomes
<1>6. ControlOK'
  BY <1>1 DEF TypeInv, WriteLock, Goto, Finish, ControlOK, Busy, Controls
<1> QED BY <1>5, <1>6 DEF TypeInv

LEMMA EndOfAddType ==
  TypeInv /\ (EnsureGitignore \/ UndoYml \/ UndoLock \/ UndoProv) => TypeInv'
<1> SUFFICES ASSUME TypeInv, EnsureGitignore \/ UndoYml \/ UndoLock \/ UndoProv PROVE TypeInv'
  OBVIOUS
<1>1. CASE EnsureGitignore
  <2>1. ignored' \in BOOLEAN
    BY <1>1 DEF EnsureGitignore
  <2>2. TypeOK'
    BY <1>1, <2>1, NoCmdType
    DEF TypeInv, TypeOK, EnsureGitignore, Finish, world, Controls, Outcomes, Commands
  <2>3. ControlOK'
    BY <1>1 DEF EnsureGitignore, Finish, ControlOK, Busy, Controls
  <2> QED BY <2>2, <2>3 DEF TypeInv
<1>2. CASE UndoYml
  <2>1. snap \in Snapshots /\ op = "add"
    BY <1>2 DEF TypeInv, ControlOK, UndoYml
  <2>2. TypeOK'
    BY <1>2, <2>1 DEF TypeInv, TypeOK, UndoYml, Goto, world, Controls, Snapshots
  <2>3. ControlOK'
    BY <1>2, <2>1 DEF TypeInv, UndoYml, Goto, ControlOK, Busy, Controls
  <2> QED BY <2>2, <2>3 DEF TypeInv
<1>3. CASE UndoLock
  <2>1. snap \in Snapshots /\ op = "add"
    BY <1>3 DEF TypeInv, ControlOK, UndoLock
  <2>2. TypeOK'
    BY <1>3, <2>1 DEF TypeInv, TypeOK, UndoLock, Goto, world, Controls, Snapshots
  <2>3. ControlOK'
    BY <1>3, <2>1 DEF TypeInv, UndoLock, Goto, ControlOK, Busy, Controls
  <2> QED BY <2>2, <2>3 DEF TypeInv
<1>4. CASE UndoProv
  <2>1. snap \in Snapshots
    BY <1>4 DEF TypeInv, ControlOK, UndoProv
  <2>2. TypeOK'
    BY <1>4, <2>1, NoCmdType
    DEF TypeInv, TypeOK, UndoProv, Finish, world, Controls, Outcomes, Commands, Snapshots
  <2>3. ControlOK'
    BY <1>4 DEF UndoProv, Finish, ControlOK, Busy, Controls
  <2> QED BY <2>2, <2>3 DEF TypeInv
<1> QED BY <1>1, <1>2, <1>3, <1>4

(* What install copies is a tree. *)
LEMMA LockedType ==
  ASSUME TypeOK, NEW n \in Names, lock # None, lock[n] # None, Locked(n) # None
  PROVE  Locked(n) \in Trees
<1>1. lock[n] \in LockEntries /\ CoordinateFor(n) \in Coords
  BY RecordedType DEF TypeOK, LockFiles
<1> DEFINE e == lock[n]
           t == IF e.kind = "local"
                THEN IF e.path = None THEN None ELSE source[e.path]
                ELSE IF e.version = None THEN None ELSE remote[CoordinateFor(n)][e.version]
<1>2. t \in Trees \union {None}
  BY <1>1 DEF TypeOK, LockEntries
<1>3. Locked(n) = IF t = None THEN None ELSE IF ContentHash(t) # e.hash THEN None ELSE Pristine(t)
  BY DEF Locked
<1> QED BY <1>2, <1>3, TreeTypes

LEMMA InstallNextType == TypeInv /\ InstallNext => TypeInv'
<1> SUFFICES ASSUME TypeInv, InstallNext PROVE TypeInv'
  OBVIOUS
<1>1. /\ cmd \in CmdRecords /\ pc = "next" /\ op = "install"
      /\ snap \in Snapshots /\ lock # None
  BY DEF TypeInv, TypeOK, ControlOK, InstallNext, Busy
<1>2. PICK n \in cmd.todo :
        /\ arg' = n
        /\ \/ /\ pc' = "next"
              /\ cmd' = [cmd EXCEPT !.todo = @ \ {n}]
           \/ /\ lock[n] # None /\ Locked(n) # None
              /\ pc' = "copy"
              /\ cmd' = [cmd EXCEPT !.todo = @ \ {n}, !.tree = Locked(n), !.pos = 0]
           \/ /\ pc' = "restore_wipe"
              /\ cmd' = cmd
  BY DEF InstallNext
<1>3. n \in Names
  BY <1>1 DEF CmdRecords
<1>4. lock[n] # None /\ Locked(n) # None => Locked(n) \in Trees
  BY <1>1, <1>3, LockedType DEF TypeInv
<1>5. cmd' \in CmdRecords
  <2>1. 0 \in 0..FileCount /\ cmd.todo \ {n} \in SUBSET Names
    BY <1>1, PackTreesAssumption DEF CmdRecords
  <2>2. CASE cmd' = [cmd EXCEPT !.todo = @ \ {n}]
    BY <1>1, <2>1, <2>2 DEF CmdRecords
  <2>3. CASE cmd' = [cmd EXCEPT !.todo = @ \ {n}, !.tree = Locked(n), !.pos = 0] /\ Locked(n) \in Trees
    BY <1>1, <2>1, <2>3 DEF CmdRecords
  <2> QED BY <1>1, <1>2, <1>4, <2>2, <2>3
<1>6. TypeOK'
  BY <1>2, <1>3, <1>5 DEF TypeInv, TypeOK, InstallNext, files, world, Controls
<1>7. ControlOK'
  BY <1>1, <1>2, <1>3 DEF TypeInv, ControlOK, InstallNext, files, Busy, Controls
<1> QED BY <1>6, <1>7 DEF TypeInv

LEMMA InstallEndType == TypeInv /\ (InstallDone \/ RestoreWipe \/ RestoreCopy) => TypeInv'
<1> SUFFICES ASSUME TypeInv, InstallDone \/ RestoreWipe \/ RestoreCopy PROVE TypeInv'
  OBVIOUS
<1>1. CASE InstallDone
  <2>1. TypeOK'
    BY <1>1, NoCmdType
    DEF TypeInv, TypeOK, InstallDone, Finish, files, world, Controls, Outcomes, Commands
  <2>2. ControlOK'
    BY <1>1 DEF InstallDone, Finish, ControlOK, Busy, Controls
  <2> QED BY <2>1, <2>2 DEF TypeInv
<1>2. CASE RestoreWipe
  <2>1. NoPacks \in PackDirs
    BY DEF NoPacks, PackDirs
  <2>2. TypeOK'
    BY <1>2, <2>1 DEF TypeInv, TypeOK, RestoreWipe, Goto, world, Controls
  <2>3. ControlOK'
    BY <1>2 DEF TypeInv, RestoreWipe, Goto, ControlOK, Busy, Controls
  <2> QED BY <2>2, <2>3 DEF TypeInv
<1>3. CASE RestoreCopy
  <2>1. snap \in Snapshots
    BY <1>3 DEF TypeInv, ControlOK, RestoreCopy, Busy
  <2>2. TypeOK'
    BY <1>3, <2>1, NoCmdType
    DEF TypeInv, TypeOK, RestoreCopy, Finish, world, Controls, Outcomes, Commands, Snapshots
  <2>3. ControlOK'
    BY <1>3 DEF RestoreCopy, Finish, ControlOK, Busy, Controls
  <2> QED BY <2>2, <2>3 DEF TypeInv
<1> QED BY <1>1, <1>2, <1>3

(* A write that is cut short leaves a file that parses as empty, or a       *)
(* provenance file that does not parse.                                    *)
LEMMA InterruptedType ==
  ASSUME TypeOK, Interrupted
  PROVE  /\ yml' \in YmlFiles /\ lock' \in LockFiles \union {None} /\ prov' \in ProvFiles
         /\ UNCHANGED <<conf, dirs, ignored>>
         /\ pc \notin {"yml", "undo_yml"} => yml' = yml
         /\ pc \notin {"lock", "undo_lock"} => lock' = lock
         /\ pc \notin {"prov", "undo_prov"} => prov' = prov
<1>1. NoPacks \in YmlFiles /\ NoPacks \in LockFiles
  BY DEF NoPacks, YmlFiles, LockFiles
<1> QED BY <1>1 DEF TypeOK, Interrupted, Truncated, ProvFiles

LEMMA CrashType == TypeInv /\ Crash => TypeInv'
<1> SUFFICES ASSUME TypeInv, Crash PROVE TypeInv'
  OBVIOUS
<1>1. disturbed' \in 0..MaxDisturbances
  BY PackLifecycleAssumption DEF TypeInv, TypeOK, Crash, Disturb
<1>2. TypeOK'
  BY <1>1, InterruptedType, NoCmdType DEF TypeInv, TypeOK, Crash, world, Controls, Outcomes
<1>3. ControlOK'
  BY DEF Crash, ControlOK, Busy, Controls
<1> QED BY <1>2, <1>3 DEF TypeInv

LEMMA WriteFailsType == TypeInv /\ WriteFails => TypeInv'
<1> SUFFICES ASSUME TypeInv, WriteFails PROVE TypeInv'
  OBVIOUS
<1>1. disturbed' \in 0..MaxDisturbances
  BY PackLifecycleAssumption DEF TypeInv, TypeOK, WriteFails, Disturb
<1>2. TypeOK'
  BY <1>1, InterruptedType, NoCmdType DEF TypeInv, TypeOK, WriteFails, world, Controls, Outcomes
<1>3. ControlOK'
  <2>1. CASE pc' = "idle"
    BY <2>1 DEF ControlOK, Busy, Controls
  <2>2. CASE pc' = "undo_dir"
    BY <2>2, InterruptedType DEF TypeInv, WriteFails, ControlOK, Busy, Controls
  <2>3. CASE pc' = "restore_wipe"
    <3>1. op = "install" /\ pc = "copy" /\ op' = op /\ snap' = snap
      BY <2>3 DEF TypeInv, WriteFails, ControlOK
    <3>2. lock' = lock
      BY <3>1, InterruptedType DEF TypeInv, WriteFails
    <3> QED BY <2>3, <3>1, <3>2 DEF TypeInv, ControlOK, Busy, Controls
  <2> QED BY <2>1, <2>2, <2>3 DEF WriteFails
<1> QED BY <1>2, <1>3 DEF TypeInv

-----------------------------------------------------------------------------
(* The world between commands keeps the types. *)
LEMMA MeanwhileType ==
  ASSUME TypeInv, NEW d, Meanwhile(d),
         yml' \in YmlFiles, lock' \in LockFiles \union {None}, dirs' \in PackDirs,
         source' \in [Paths -> Trees \union {None}],
         remote' \in [Coords -> [Versions -> Trees \union {None}]]
  PROVE  TypeInv'
<1>1. disturbed' \in 0..MaxDisturbances
  BY PackLifecycleAssumption DEF TypeInv, TypeOK, Meanwhile, Disturb
<1>2. TypeOK'
  BY <1>1 DEF TypeInv, TypeOK, Meanwhile
<1>3. ControlOK'
  BY DEF Meanwhile, Idle, ControlOK, Busy, Controls
<1> QED BY <1>2, <1>3 DEF TypeInv

LEMMA WorldType == TypeInv /\ World => TypeInv'
<1> SUFFICES ASSUME TypeInv, World PROVE TypeInv'
  OBVIOUS
<1> USE DEF TypeInv, TypeOK
<1>1. ASSUME NEW n \in Names, NEW f \in Files, NEW x \in Contents \union {None}, EditInstalled(n, f, x)
      PROVE  TypeInv'
  <2>1. [dirs[n] EXCEPT ![f] = x] \in Trees
    BY <1>1 DEF EditInstalled, PackDirs, Trees
  <2>2. dirs' \in PackDirs
    BY <1>1, <2>1 DEF EditInstalled, PackDirs
  <2> QED BY <1>1, <2>2, MeanwhileType DEF EditInstalled
<1>2. ASSUME NEW p \in Paths, NEW t \in Candidates, EditSource(p, t)
      PROVE  TypeInv'
  <2>1. source' \in [Paths -> Trees \union {None}]
    BY <1>2, PackLifecycleAssumption DEF EditSource
  <2> QED BY <1>2, <2>1, MeanwhileType DEF EditSource
<1>3. ASSUME NEW c \in Coords, NEW v \in Versions, NEW t \in Candidates, Publish(c, v, t)
      PROVE  TypeInv'
  <2>1. [remote[c] EXCEPT ![v] = t] \in [Versions -> Trees \union {None}]
    BY PackLifecycleAssumption
  <2>2. remote' \in [Coords -> [Versions -> Trees \union {None}]]
    BY <1>3, <2>1 DEF Publish
  <2> QED BY <1>3, <2>2, MeanwhileType DEF Publish
<1>4. NoPacks \in YmlFiles /\ NoPacks \in PackDirs
  BY DEF NoPacks, YmlFiles, PackDirs
<1>5. ASSUME Checkout PROVE TypeInv'
  BY <1>4, <1>5, MeanwhileType DEF Checkout
<1>6. ASSUME FreshClone PROVE TypeInv'
  BY <1>4, <1>6, MeanwhileType DEF FreshClone
<1> QED BY <1>1, <1>2, <1>3, <1>5, <1>6 DEF World

-----------------------------------------------------------------------------
(* Commands start with well-typed values. *)

(* A validated tree has a manifest when the pack has an identity, and the   *)
(* manifest survives the removal of repository metadata.                   *)
LEMMA PristineManifest ==
  \A t \in Trees : Manifest(Pristine(t)) = Manifest(t) /\ Pristine(Pristine(t)) = Pristine(t)
BY PackTreesAssumption DEF Manifest, Pristine, Trees, Files

(* A command record built from NoCmd. *)
LEMMA NewCmdType ==
  ASSUME NEW t \in Trees
  PROVE  /\ \A c \in Coords, v \in Versions :
              [NoCmd EXCEPT !.coord = c, !.ver = v, !.tree = t] \in CmdRecords
         /\ \A n \in Names, c \in Coords, v \in Versions :
              [NoCmd EXCEPT !.asked = n, !.coord = c, !.ver = v, !.tree = t] \in CmdRecords
         /\ \A p \in Paths : [NoCmd EXCEPT !.kind = "local", !.path = p, !.tree = t] \in CmdRecords
         /\ [NoCmd EXCEPT !.hash = t] \in CmdRecords
         /\ \A s \in SUBSET Names : [NoCmd EXCEPT !.todo = s] \in CmdRecords
<1>1. \A c \in Coords, v \in Versions :
        [NoCmd EXCEPT !.coord = c, !.ver = v, !.tree = t] \in CmdRecords
  BY NoCmdType DEF CmdRecords
<1>2. \A n \in Names, c \in Coords, v \in Versions :
        [NoCmd EXCEPT !.asked = n, !.coord = c, !.ver = v, !.tree = t] \in CmdRecords
  BY NoCmdType DEF CmdRecords
<1>3. \A p \in Paths : [NoCmd EXCEPT !.kind = "local", !.path = p, !.tree = t] \in CmdRecords
  BY NoCmdType DEF CmdRecords
<1>4. [NoCmd EXCEPT !.hash = t] \in CmdRecords
  BY NoCmdType DEF CmdRecords
<1>5. \A s \in SUBSET Names : [NoCmd EXCEPT !.todo = s] \in CmdRecords
  BY NoCmdType DEF CmdRecords
<1> QED BY <1>1, <1>2, <1>3, <1>4, <1>5

LEMMA LaunchAddType ==
  ASSUME TypeInv, NEW n \in Names, NEW c \in CmdRecords, LaunchAdd(n, c),
         Manifest(c.tree) # None, c.merged = {}
  PROVE  TypeInv'
<1>1. CASE Answer("add", n, "noop") \/ Answer("add", n, "refused")
  BY <1>1, AnswerType DEF Commands, Outcomes
<1>2. CASE Launch("add", n, "copy", c) /\ snap' = None
  <2>1. TypeOK'
    BY <1>2, LaunchType DEF Commands, Controls
  <2>2. ControlOK'
    BY <1>2 DEF Launch, ControlOK, Busy, Controls
  <2> QED BY <2>1, <2>2 DEF TypeInv
<1> QED BY <1>1, <1>2 DEF LaunchAdd

LEMMA AddType ==
  TypeInv /\ (\/ \E c \in Coords, v \in Versions : AddGit(c, v)
              \/ \E p \in Paths : AddLocal(p)) => TypeInv'
<1> SUFFICES ASSUME TypeInv,
                    \/ \E c \in Coords, v \in Versions : AddGit(c, v)
                    \/ \E p \in Paths : AddLocal(p)
             PROVE  TypeInv'
  OBVIOUS
<1>1. ASSUME NEW c \in Coords, NEW v \in Versions, AddGit(c, v)
      PROVE  TypeInv'
  <2>1. CASE Answer("add", None, "refused")
    BY <2>1, AnswerType DEF Commands, Outcomes
  <2>2. CASE /\ remote[c][v] # None
             /\ IdentityOK(Clone(c, v), v)
             /\ LaunchAdd(Manifest(Clone(c, v)).name,
                          [NoCmd EXCEPT !.coord = c, !.ver = v, !.tree = Clone(c, v)])
    <3>1. Clone(c, v) \in Trees
      BY <2>2, TreeTypes DEF TypeInv, TypeOK, Clone
    <3>2. Manifest(Clone(c, v)) # None /\ Manifest(Clone(c, v)).name \in Names
      BY <2>2, <3>1, TreeTypes DEF IdentityOK, ManifestRecords
    <3> DEFINE r == [NoCmd EXCEPT !.coord = c, !.ver = v, !.tree = Clone(c, v)]
    <3>3. r \in CmdRecords /\ r.tree = Clone(c, v) /\ r.merged = {}
      BY <3>1, NewCmdType DEF NoCmd
    <3> QED BY <2>2, <3>2, <3>3, LaunchAddType
  <2> QED BY <1>1, <2>1, <2>2 DEF AddGit
<1>2. ASSUME NEW p \in Paths, AddLocal(p)
      PROVE  TypeInv'
  <2>1. CASE Answer("add", None, "refused")
    BY <2>1, AnswerType DEF Commands, Outcomes
  <2>2. CASE /\ SourceManifest(p) # None
             /\ LaunchAdd(SourceManifest(p).name,
                          [NoCmd EXCEPT !.kind = "local", !.path = p, !.tree = Pristine(source[p])])
    <3>1. source[p] \in Trees /\ Pristine(source[p]) \in Trees
      BY <2>2, TreeTypes DEF TypeInv, TypeOK, SourceManifest
    <3>2. /\ Manifest(Pristine(source[p])) # None
          /\ SourceManifest(p).name \in Names
      BY <2>2, <3>1, TreeTypes, PristineManifest DEF SourceManifest, ManifestRecords
    <3> DEFINE r == [NoCmd EXCEPT !.kind = "local", !.path = p, !.tree = Pristine(source[p])]
    <3>3. r \in CmdRecords /\ r.tree = Pristine(source[p]) /\ r.merged = {}
      BY <3>1, NewCmdType DEF NoCmd
    <3> QED BY <2>2, <3>2, <3>3, LaunchAddType
  <2> QED BY <1>2, <2>1, <2>2 DEF AddLocal
<1> QED BY <1>1, <1>2

(* update and upgrade launch with the clone they checked. *)
LEMMA ReplacementType ==
  ASSUME TypeInv, NEW n \in Names, NEW c \in Coords, NEW v \in Versions,
         remote[c][v] # None, IdentityOK(Clone(c, v), v)
  PROVE  /\ Clone(c, v) \in Trees
         /\ Manifest(Clone(c, v)).name \in Names
         /\ Replacement(n, c, v) \in CmdRecords
         /\ Replacement(n, c, v).asked = n
         /\ Replacement(n, c, v).tree = Clone(c, v)
         /\ Replacement(n, c, v).merged = {}
<1>1. Clone(c, v) \in Trees
  BY TreeTypes DEF TypeInv, TypeOK, Clone
<1>2. Manifest(Clone(c, v)).name \in Names
  BY <1>1, TreeTypes DEF IdentityOK, ManifestRecords
<1> QED BY <1>1, <1>2, NewCmdType DEF Replacement, NoCmd

LEMMA UpdateType ==
  ASSUME TypeInv, NEW n \in Names, NEW a \in BOOLEAN, Update(n, a)
  PROVE  TypeInv'
<1> DEFINE c == CoordinateFor(n)
<1>1. c \in Coords
  BY RecordedType DEF TypeInv
<1> HIDE DEF c
<1>2. CASE Answer("update", n, "refused") \/ Answer("update", n, "noop")
  BY <1>2, AnswerType DEF Commands, Outcomes
<1>3. ASSUME NEW v \in Versions, IsLatestCompatible(v, Tags(c), yml[n]), v # yml[n],
             IdentityOK(Clone(c, v), v),
             Launch("update", Manifest(Clone(c, v)).name, "wipe", Replacement(n, c, v)),
             snap' = None
      PROVE  TypeInv'
  <2>1. remote[c][v] # None
    BY <1>3 DEF IsLatestCompatible, Tags
  <2>2. TypeOK'
    BY <1>1, <1>3, <2>1, ReplacementType, LaunchType DEF Commands, Controls
  <2>3. ControlOK'
    BY <1>1, <1>3, <2>1, ReplacementType DEF Launch, ControlOK, Busy, Controls
  <2> QED BY <2>2, <2>3 DEF TypeInv
<1> QED BY <1>2, <1>3 DEF Update, c

LEMMA UpgradeType ==
  ASSUME TypeInv, NEW n \in Names, NEW v \in Versions, Upgrade(n, v)
  PROVE  TypeInv'
<1> DEFINE c == CoordinateFor(n)
<1>1. c \in Coords
  BY RecordedType DEF TypeInv
<1> HIDE DEF c
<1>2. CASE Answer("upgrade", n, "refused")
  BY <1>2, AnswerType DEF Commands, Outcomes
<1>3. ASSUME remote[c][v] # None, IdentityOK(Clone(c, v), v), prov # None,
             Launch("upgrade", Manifest(Clone(c, v)).name, "merge", Replacement(n, c, v)),
             snap' = None
      PROVE  TypeInv'
  <2>1. TypeOK'
    BY <1>1, <1>3, ReplacementType, LaunchType DEF Commands, Controls
  <2>2. ControlOK'
    BY <1>1, <1>3, ReplacementType DEF Launch, ControlOK, Busy, Controls, IdentityOK, files
  <2> QED BY <2>1, <2>2 DEF TypeInv
<1> QED BY <1>2, <1>3 DEF Upgrade, c

LEMMA RemoveType ==
  ASSUME TypeInv, NEW n \in Names, Remove(n)
  PROVE  TypeInv'
<1>1. CASE Answer("remove", n, "refused")
  BY <1>1, AnswerType DEF Commands, Outcomes
<1>2. CASE ~Answer("remove", n, "refused")
  <2>1. Reverted(n) \in SUBSET Settings
    BY <1>2 DEF Remove, TypeInv, TypeOK, Reverted, ProvFiles, ProvEntries
  <2>2. TypeOK'
    BY <1>2, <2>1, NoCmdType DEF Remove, TypeInv, TypeOK, files, world, Controls, Commands
  <2>3. ControlOK'
    BY <1>2 DEF Remove, ControlOK, Busy, Controls, files
  <2> QED BY <2>2, <2>3 DEF TypeInv
<1> QED BY <1>1, <1>2

LEMMA RelockType ==
  ASSUME TypeInv, NEW n \in Names, Relock(n)
  PROVE  TypeInv'
<1>1. CASE Answer("relock", n, "refused")
  BY <1>1, AnswerType DEF Commands, Outcomes
<1>2. CASE /\ Relockable(n)
           /\ Launch("relock", n, "lock", [NoCmd EXCEPT !.hash = ContentHash(dirs[n])])
           /\ snap' = None
  <2>1. ContentHash(dirs[n]) \in Trees
    BY <1>2, TreeTypes DEF Relockable, TypeInv, TypeOK, PackDirs
  <2>2. TypeOK'
    BY <1>2, <2>1, NewCmdType, LaunchType DEF Commands, Controls
  <2>3. ControlOK'
    BY <1>2 DEF Launch, Relockable, Entry, ControlOK, Busy, Controls, files
  <2> QED BY <2>2, <2>3 DEF TypeInv
<1> QED BY <1>1, <1>2 DEF Relock

LEMMA InstallType == TypeInv /\ Install => TypeInv'
<1> SUFFICES ASSUME TypeInv, Install PROVE TypeInv'
  OBVIOUS
<1>1. CASE Answer("install", None, "refused")
  BY <1>1, AnswerType DEF Commands, Outcomes
<1>2. CASE /\ lock # None
           /\ Launch("install", None, "next", [NoCmd EXCEPT !.todo = {n \in Names : yml[n] # None}])
           /\ snap' = Snapshot
  <2>1. Snapshot \in Snapshots
    BY DEF TypeInv, TypeOK, Snapshot, Snapshots
  <2>2. [NoCmd EXCEPT !.todo = {n \in Names : yml[n] # None}] \in CmdRecords
    BY TreeTypes, NewCmdType
  <2>3. TypeOK'
    BY <1>2, <2>1, <2>2, LaunchType DEF Commands, Controls
  <2>4. ControlOK'
    BY <1>2, <2>1 DEF Launch, ControlOK, Busy, Controls, files
  <2> QED BY <2>3, <2>4 DEF TypeInv
<1> QED BY <1>1, <1>2 DEF Install

LEMMA TypeStep == TypeInv /\ [Next]_vars => TypeInv'
<1> SUFFICES ASSUME TypeInv, [Next]_vars PROVE TypeInv'
  OBVIOUS
<1>1. CASE Start
  BY <1>1, AddType, UpdateType, UpgradeType, RemoveType, RelockType, InstallType DEF Start
<1>2. CASE Step
  BY <1>2, InstallNextType, InstallEndType, WipeFileType, WipedType, CopyNextType, CopiedType,
     MergeToolConfigType, WriteProvenanceType, WriteYmlType, WriteLockType, EndOfAddType DEF Step
<1>3. CASE Crash \/ WriteFails \/ World
  BY <1>3, CrashType, WriteFailsType, WorldType
<1>4. CASE UNCHANGED vars
  BY <1>4 DEF TypeInv, TypeOK, ControlOK, Busy, vars, files, world
<1> QED BY <1>1, <1>2, <1>3, <1>4 DEF Next

(* The command records, the snapshot and every file of the project have     *)
(* their type in every reachable state, for any set of packs, releases,    *)
(* failures and crashes: no command of pkg/pack/distribution reaches one   *)
(* of its writes without the manifest, snapshot or lock entry it uses.     *)
THEOREM TypeCorrect == Spec => []TypeOK
<1>1. TypeInv => TypeOK
  BY DEF TypeInv
<1> QED BY <1>1, TypeInit, TypeStep, PTL DEF Spec

-----------------------------------------------------------------------------
(* What the lock pins is validated, as long as no command is cut short and  *)
(* no other branch is checked out.  The lock's hash is computed over the   *)
(* installed directory, so the argument is about that directory: it must   *)
(* hold the validated tree and nothing else when it is hashed, hence it    *)
(* must be empty when add starts to copy, hence no directory may be there  *)
(* without a lock entry.                                                   *)

Installing == op \in {"add", "update", "upgrade"}

(* The directory of the pack being installed, while the lock does not know  *)
(* it yet.                                                                 *)
Scratch(n) ==
  /\ n = arg
  /\ \/ op = "add" /\ pc \in {"copy", "merge", "prov", "yml", "lock", "undo_dir"}
     \/ op \in {"update", "upgrade"} /\ pc \in {"copy", "prov", "yml", "lock"}

NoLeftovers == \A n \in Names : dirs[n] # None => Entry(n) # None \/ Scratch(n)

(* What remove, relock, install and the rollback of add rely on to keep it. *)
ClearedFirst ==
  /\ op = "remove" /\ pc \in {"yml", "lock"} => dirs[arg] = None
  /\ op = "relock" /\ Busy => Entry(arg).kind = "local"
  /\ op = "add" /\ pc \in {"merge", "undo_dir", "undo_yml", "undo_lock"} => snap.lock = lock
  /\ op = "install" /\ Busy => \A n \in Names : snap.dirs[n] # None => Entry(n) # None
  /\ op = "install" /\ pc = "copy" => Entry(arg) # None

(* The first k files of a tree. *)
Part(t, k) == [f \in Files |-> IF f <= k THEN t[f] ELSE None]

LEMMA PartBounds ==
  ASSUME NEW t \in Trees
  PROVE  Part(t, 0) = EmptyTree /\ Part(t, FileCount) = t
BY PackTreesAssumption DEF Part, EmptyTree, Files, Trees

(* Copying the next file extends the copied part by one. *)
LEMMA PartExtends ==
  ASSUME NEW t \in Trees, NEW k \in Nat, k + 1 \in Files
  PROVE  CopyFile(t, Part(t, k), k + 1) = Part(t, k + 1)
<1> DEFINE d == Part(t, k)
           e == Part(t, k + 1)
           j == k + 1
<1>1. /\ d = [f \in Files |-> IF f < j THEN t[f] ELSE None]
      /\ e = [f \in Files |-> IF f <= j THEN t[f] ELSE None]
      /\ j \in Files /\ Files \subseteq Nat
  BY DEF Part, Files
<1> HIDE DEF d, e, j
<1>2. [d EXCEPT ![j] = t[j]] = e
  <2>1. \A f \in Files : [d EXCEPT ![j] = t[j]][f] = e[f]
    BY <1>1
  <2> QED BY <1>1, <2>1
<1>3. ASSUME t[j] = None PROVE d = e
  <2>1. \A f \in Files : d[f] = e[f]
    BY <1>1, <1>3
  <2> QED BY <1>1, <2>1
<1>4. CopyFile(t, d, j) = e
  BY <1>2, <1>3 DEF CopyFile
<1> QED BY <1>4 DEF d, e, j

(* The tree in memory is the checked release ... *)
Release ==
  Installing /\ Busy =>
    /\ cmd.tree = Pristine(cmd.tree)
    /\ cmd.kind = "git" =>
         cmd.tree \in ValidTrees /\ IdentityOK(cmd.tree, cmd.ver) /\ Manifest(cmd.tree).name = arg

(* ... it is copied into an empty directory, and its hash is recorded. *)
CopiedSoFar ==
  /\ Installing /\ pc = "copy" =>
       OrEmpty(dirs[arg]) = Part(cmd.tree, cmd.pos)
  /\ op \in {"update", "upgrade"} /\ pc \in {"wipe", "merge"} => cmd.pos = 0

HashOfRelease ==
  /\ op = "add" /\ pc \in {"merge", "prov", "yml", "lock"} => cmd.hash = cmd.tree
  /\ op \in {"update", "upgrade"} /\ pc \in {"prov", "yml", "lock"} => cmd.hash = cmd.tree

LockInv ==
  /\ TypeInv
  /\ LockedIsValidated
  /\ NoLeftovers
  /\ ClearedFirst
  /\ Release
  /\ CopiedSoFar
  /\ HashOfRelease

(* Nothing is cut short and no branch is switched. *)
Quiet == Env \cap {"crash", "fail", "checkout"} = {}

LEMMA LockInit == Init => LockInv
<1> SUFFICES ASSUME Init PROVE LockInv
  OBVIOUS
<1>1. LockedIsValidated /\ NoLeftovers
  BY DEF Init, LockedIsValidated, NoLeftovers, GitEntry, Entry, NoPacks
<1>2. ClearedFirst /\ Release /\ CopiedSoFar /\ HashOfRelease
  BY DEF Init, ClearedFirst, Release, CopiedSoFar, HashOfRelease, Busy, Installing
<1> QED BY <1>1, <1>2, TypeInit DEF LockInv

(* A step that leaves the lock alone leaves what it pins alone. *)
LEMMA LockFrame ==
  ASSUME LockedIsValidated, lock' = lock
  PROVE  LockedIsValidated' /\ \A n \in Names : Entry(n)' = Entry(n)
BY DEF LockedIsValidated, GitEntry, Entry

(* Ending idle with the lock as it was and every directory accounted for. *)
LEMMA IdleLock ==
  ASSUME LockedIsValidated', TypeInv', pc' = "idle",
         \A n \in Names : dirs'[n] # None => Entry(n)' # None
  PROVE  LockInv'
<1>1. NoLeftovers'
  BY DEF NoLeftovers
<1>2. (ClearedFirst /\ Release /\ CopiedSoFar /\ HashOfRelease)'
  BY DEF ClearedFirst, Release, CopiedSoFar, HashOfRelease, Busy, Installing
<1> QED BY <1>1, <1>2 DEF LockInv

LEMMA AnswerLock ==
  ASSUME LockInv, TypeInv', NEW o, NEW n, NEW r, Answer(o, n, r)
  PROVE  LockInv'
<1>1. UNCHANGED <<lock, dirs>> /\ pc = "idle" /\ pc' = "idle"
  BY DEF Answer, Finish, Idle, files
<1>2. \A m \in Names : dirs[m] # None => Entry(m) # None
  BY <1>1 DEF LockInv, NoLeftovers, Scratch
<1> QED BY <1>1, <1>2, LockFrame, IdleLock DEF LockInv

LEMMA WorldLock == Quiet /\ LockInv /\ World => LockInv'
<1> SUFFICES ASSUME Quiet, LockInv, World PROVE LockInv'
  OBVIOUS
<1>1. TypeInv'
  BY WorldType DEF LockInv
<1>2. ~Checkout
  BY DEF Quiet, Checkout, Meanwhile, Disturb
<1>3. pc = "idle" /\ pc' = "idle" /\ lock' = lock
  BY <1>2 DEF World, EditInstalled, EditSource, Publish, FreshClone, Meanwhile, Idle
<1>4. \A n \in Names : dirs'[n] # None => dirs[n] # None
  BY <1>2 DEF World, EditInstalled, EditSource, Publish, FreshClone, NoPacks, LockInv, TypeInv, TypeOK, PackDirs
<1>5. \A n \in Names : dirs'[n] # None => Entry(n) # None
  BY <1>3, <1>4 DEF LockInv, NoLeftovers, Scratch
<1> QED BY <1>1, <1>3, <1>5, LockFrame, IdleLock DEF LockInv

-----------------------------------------------------------------------------
(* Commands start *)

LEMMA LaunchAddLock ==
  ASSUME LockInv, TypeInv', NEW n \in Names, NEW c \in CmdRecords, LaunchAdd(n, c),
         c.tree = Pristine(c.tree), c.pos = 0,
         c.kind = "git" => IdentityOK(c.tree, c.ver) /\ Manifest(c.tree).name = n
  PROVE  LockInv'
<1>1. CASE Answer("add", n, "noop") \/ Answer("add", n, "refused")
  BY <1>1, AnswerLock
<1>2. CASE /\ ~InstalledAndCurrent(n) /\ Validates(c.tree)
           /\ Launch("add", n, "copy", c)
  <2>1. /\ lock' = lock /\ dirs' = dirs /\ cmd' = c /\ op' = "add" /\ arg' = n /\ pc' = "copy"
        /\ pc = "idle"
    BY <1>2 DEF Launch, files, Idle
  <2>2. LockedIsValidated' /\ \A m \in Names : Entry(m)' = Entry(m)
    BY <2>1, LockFrame DEF LockInv
  <2>3. \A m \in Names : dirs[m] # None => Entry(m) # None
    BY <2>1 DEF LockInv, NoLeftovers, Scratch
  <2>4. OrEmpty(dirs[n]) = EmptyTree
    BY <1>2, <2>3 DEF InstalledAndCurrent, OrEmpty
  <2>5. NoLeftovers'
    BY <2>1, <2>2, <2>3 DEF NoLeftovers
  <2>6. ClearedFirst' /\ HashOfRelease'
    BY <2>1 DEF ClearedFirst, HashOfRelease
  <2>7. Release'
    BY <1>2, <2>1 DEF Release, Validates
  <2>8. EmptyTree = Part(c.tree, c.pos)
    BY PartBounds DEF CmdRecords
  <2>9. CopiedSoFar'
    BY <2>1, <2>4, <2>8 DEF CopiedSoFar
  <2> QED BY <2>2, <2>5, <2>6, <2>7, <2>9 DEF LockInv
<1> QED BY <1>1, <1>2 DEF LaunchAdd

LEMMA AddLock ==
  LockInv /\ (\/ \E c \in Coords, v \in Versions : AddGit(c, v)
              \/ \E p \in Paths : AddLocal(p)) => LockInv'
<1> SUFFICES ASSUME LockInv,
                    \/ \E c \in Coords, v \in Versions : AddGit(c, v)
                    \/ \E p \in Paths : AddLocal(p)
             PROVE  LockInv'
  OBVIOUS
<1>0. TypeInv'
  BY AddType DEF LockInv
<1>1. ASSUME NEW c \in Coords, NEW v \in Versions, AddGit(c, v)
      PROVE  LockInv'
  <2>1. CASE Answer("add", None, "refused")
    BY <1>0, <2>1, AnswerLock
  <2>2. CASE /\ remote[c][v] # None
             /\ IdentityOK(Clone(c, v), v)
             /\ LaunchAdd(Manifest(Clone(c, v)).name,
                          [NoCmd EXCEPT !.coord = c, !.ver = v, !.tree = Clone(c, v)])
    <3>1. Clone(c, v) \in Trees /\ Pristine(Clone(c, v)) = Clone(c, v)
      BY <2>2, TreeTypes, PristineManifest DEF LockInv, TypeInv, TypeOK, Clone
    <3>2. Manifest(Clone(c, v)).name \in Names
      BY <2>2, <3>1, TreeTypes DEF IdentityOK, ManifestRecords
    <3> DEFINE r == [NoCmd EXCEPT !.coord = c, !.ver = v, !.tree = Clone(c, v)]
    <3>3. r \in CmdRecords /\ r.tree = Clone(c, v) /\ r.ver = v /\ r.pos = 0
      BY <3>1, NewCmdType DEF NoCmd
    <3> HIDE DEF r
    <3> QED BY <1>0, <2>2, <3>1, <3>2, <3>3, LaunchAddLock DEF r
  <2> QED BY <1>1, <2>1, <2>2 DEF AddGit
<1>2. ASSUME NEW p \in Paths, AddLocal(p)
      PROVE  LockInv'
  <2>1. CASE Answer("add", None, "refused")
    BY <1>0, <2>1, AnswerLock
  <2>2. CASE /\ SourceManifest(p) # None
             /\ LaunchAdd(SourceManifest(p).name,
                          [NoCmd EXCEPT !.kind = "local", !.path = p, !.tree = Pristine(source[p])])
    <3>1. source[p] \in Trees /\ Pristine(source[p]) \in Trees
          /\ Pristine(Pristine(source[p])) = Pristine(source[p])
      BY <2>2, TreeTypes, PristineManifest DEF LockInv, TypeInv, TypeOK, SourceManifest
    <3>2. SourceManifest(p).name \in Names
      BY <2>2, <3>1, TreeTypes DEF SourceManifest, ManifestRecords
    <3> DEFINE r == [NoCmd EXCEPT !.kind = "local", !.path = p, !.tree = Pristine(source[p])]
    <3>3. r \in CmdRecords /\ r.tree = Pristine(source[p]) /\ r.kind = "local" /\ r.pos = 0
      BY <3>1, NewCmdType DEF NoCmd
    <3> HIDE DEF r
    <3> QED BY <1>0, <2>2, <3>1, <3>2, <3>3, LaunchAddLock DEF r
  <2> QED BY <1>2, <2>1, <2>2 DEF AddLocal
<1> QED BY <1>1, <1>2

(* update and upgrade start with a checked release in memory and have not   *)
(* touched the directory.                                                  *)
LEMMA LaunchReplaceLock ==
  ASSUME LockInv, TypeInv', NEW o \in {"update", "upgrade"}, NEW first \in {"wipe", "merge"},
         NEW n \in Names, NEW c \in Coords, NEW v \in Versions,
         remote[c][v] # None, IdentityOK(Clone(c, v), v), Validates(Clone(c, v)),
         Launch(o, Manifest(Clone(c, v)).name, first, Replacement(n, c, v))
  PROVE  LockInv'
<1>1. /\ lock' = lock /\ dirs' = dirs /\ op' = o /\ pc' = first /\ pc = "idle"
      /\ arg' = Manifest(Clone(c, v)).name /\ cmd' = Replacement(n, c, v)
  BY DEF Launch, files, Idle
<1>2. LockedIsValidated' /\ \A m \in Names : Entry(m)' = Entry(m)
  BY <1>1, LockFrame DEF LockInv
<1>3. NoLeftovers'
  BY <1>1, <1>2 DEF LockInv, NoLeftovers, Scratch
<1>4. Pristine(Clone(c, v)) = Clone(c, v)
  BY TreeTypes, PristineManifest DEF LockInv, TypeInv, TypeOK, Clone
<1>5. cmd'.tree = Clone(c, v) /\ cmd'.ver = v /\ cmd'.pos = 0
  BY <1>1 DEF Replacement, NoCmd
<1>6. Release'
  BY <1>1, <1>4, <1>5 DEF Release, Validates
<1>7. ClearedFirst' /\ CopiedSoFar' /\ HashOfRelease'
  BY <1>1, <1>5 DEF ClearedFirst, CopiedSoFar, HashOfRelease
<1> QED BY <1>2, <1>3, <1>6, <1>7 DEF LockInv

LEMMA UpdateLock ==
  ASSUME LockInv, NEW n \in Names, NEW a \in BOOLEAN, Update(n, a)
  PROVE  LockInv'
<1> DEFINE c == CoordinateFor(n)
<1>0. TypeInv'
  BY UpdateType DEF LockInv
<1>1. c \in Coords
  BY RecordedType DEF LockInv, TypeInv
<1> HIDE DEF c
<1>2. CASE Answer("update", n, "refused") \/ Answer("update", n, "noop")
  BY <1>0, <1>2, AnswerLock
<1>3. ASSUME NEW v \in Versions, IsLatestCompatible(v, Tags(c), yml[n]), v # yml[n],
             IdentityOK(Clone(c, v), v), Validates(Clone(c, v)),
             Launch("update", Manifest(Clone(c, v)).name, "wipe", Replacement(n, c, v))
      PROVE  LockInv'
  <2>1. remote[c][v] # None
    BY <1>3 DEF IsLatestCompatible, Tags
  <2> QED BY <1>0, <1>1, <1>3, <2>1, LaunchReplaceLock
<1> QED BY <1>2, <1>3 DEF Update, c

LEMMA UpgradeLock ==
  ASSUME LockInv, NEW n \in Names, NEW v \in Versions, Upgrade(n, v)
  PROVE  LockInv'
<1> DEFINE c == CoordinateFor(n)
<1>0. TypeInv'
  BY UpgradeType DEF LockInv
<1>1. c \in Coords
  BY RecordedType DEF LockInv, TypeInv
<1> HIDE DEF c
<1>2. CASE Answer("upgrade", n, "refused")
  BY <1>0, <1>2, AnswerLock
<1>3. ASSUME remote[c][v] # None, IdentityOK(Clone(c, v), v), Validates(Clone(c, v)),
             Launch("upgrade", Manifest(Clone(c, v)).name, "merge", Replacement(n, c, v))
      PROVE  LockInv'
  BY <1>0, <1>1, <1>3, LaunchReplaceLock
<1> QED BY <1>2, <1>3 DEF Upgrade, c

LEMMA OtherStartLock ==
  LockInv /\ ((\E n \in Names : Remove(n)) \/ (\E n \in Names : Relock(n)) \/ Install) => LockInv'
<1> SUFFICES ASSUME LockInv, (\E n \in Names : Remove(n)) \/ (\E n \in Names : Relock(n)) \/ Install
             PROVE  LockInv'
  OBVIOUS
<1>0. TypeInv'
  BY RemoveType, RelockType, InstallType DEF LockInv
<1>1. CASE \E o, n, r : Answer(o, n, r)
  BY <1>0, <1>1, AnswerLock
<1>2. CASE ~\E o, n, r : Answer(o, n, r)
  <2>1. /\ lock' = lock /\ dirs' = dirs /\ pc = "idle"
    BY <1>2 DEF Remove, Relock, Install, Launch, files, Idle
  <2>2. LockedIsValidated' /\ \A m \in Names : Entry(m)' = Entry(m)
    BY <2>1, LockFrame DEF LockInv
  <2>3. \A m \in Names : dirs[m] # None => Entry(m) # None
    BY <2>1 DEF LockInv, NoLeftovers, Scratch
  <2>4. NoLeftovers'
    BY <2>1, <2>2, <2>3 DEF NoLeftovers
  <2>5. op' \in {"remove", "relock", "install"}
    BY <1>2 DEF Remove, Relock, Install, Launch
  <2>6. Release' /\ CopiedSoFar' /\ HashOfRelease'
    BY <2>5 DEF Release, CopiedSoFar, HashOfRelease, Installing
  <2>7. ClearedFirst'
    <3>1. CASE \E n \in Names : Remove(n)
      BY <1>2, <3>1 DEF Remove, ClearedFirst
    <3>2. CASE \E n \in Names : Relock(n)
      BY <1>2, <2>2, <3>2 DEF Relock, Relockable, Launch, ClearedFirst
    <3>3. CASE Install
      BY <1>2, <2>2, <2>3, <3>3 DEF Install, Launch, Snapshot, ClearedFirst
    <3> QED BY <3>1, <3>2, <3>3
  <2> QED BY <1>0, <2>2, <2>4, <2>6, <2>7 DEF LockInv
<1> QED BY <1>1, <1>2

-----------------------------------------------------------------------------
(* Commands write *)

LEMMA WipeFileLock == LockInv /\ WipeFile => LockInv'
<1> SUFFICES ASSUME LockInv, WipeFile PROVE LockInv'
  OBVIOUS
<1>1. TypeInv'
  BY WipeFileType DEF LockInv
<1>2. LockedIsValidated' /\ \A m \in Names : Entry(m)' = Entry(m)
  BY LockFrame DEF LockInv, WipeFile
<1>3. /\ pc \in {"wipe", "undo_dir"} /\ UNCHANGED <<pc, op, arg, cmd, snap, lock>>
      /\ arg \in Names /\ \A n \in Names : dirs'[n] # None => dirs[n] # None
  BY DEF WipeFile, LockInv, TypeInv, TypeOK, PackDirs, ControlOK, Controls
<1>4. NoLeftovers'
  BY <1>2, <1>3 DEF LockInv, NoLeftovers, Scratch
<1>5. ClearedFirst'
  BY <1>2, <1>3 DEF LockInv, ClearedFirst, Busy, TypeInv, ControlOK
<1>6. Release' /\ CopiedSoFar' /\ HashOfRelease'
  BY <1>3 DEF LockInv, Release, CopiedSoFar, HashOfRelease, Installing, Busy
<1> QED BY <1>1, <1>2, <1>4, <1>5, <1>6 DEF LockInv

LEMMA WipedLock == LockInv /\ Wiped => LockInv'
<1> SUFFICES ASSUME LockInv, Wiped PROVE LockInv'
  OBVIOUS
<1>1. TypeInv'
  BY WipedType DEF LockInv
<1>2. LockedIsValidated' /\ \A m \in Names : Entry(m)' = Entry(m)
  BY LockFrame DEF LockInv, Wiped
<1>3. /\ UNCHANGED <<op, arg, cmd, snap, lock>> /\ arg \in Names
      /\ dirs'[arg] = None /\ \A n \in Names : dirs'[n] # None => dirs[n] # None /\ n # arg
      /\ \/ pc = "undo_dir" /\ pc' = "undo_yml" /\ op = "add"
         \/ pc = "wipe" /\ op = "remove" /\ pc' = "yml"
         \/ pc = "wipe" /\ op \in {"update", "upgrade"} /\ pc' = "copy" /\ cmd.pos = 0
  <2>1. pc = "wipe" /\ op \in {"update", "upgrade"} => cmd.pos = 0
    BY DEF LockInv, CopiedSoFar
  <2> QED BY <2>1 DEF Wiped, Goto, LockInv, TypeInv, TypeOK, PackDirs, ControlOK, Controls
<1>4. NoLeftovers'
  BY <1>2, <1>3 DEF LockInv, NoLeftovers, Scratch
<1>5. ClearedFirst'
  BY <1>2, <1>3 DEF LockInv, ClearedFirst, Busy
<1>6. Release' /\ HashOfRelease'
  BY <1>3 DEF LockInv, Release, HashOfRelease, Installing, Busy
<1>7. CopiedSoFar'
  <2>1. EmptyTree = Part(cmd.tree, 0)
    BY PartBounds DEF LockInv, TypeInv, TypeOK, CmdRecords
  <2> QED BY <1>3, <2>1 DEF CopiedSoFar, OrEmpty, Installing
<1> QED BY <1>1, <1>2, <1>4, <1>5, <1>6, <1>7 DEF LockInv

LEMMA CopyNextLock == LockInv /\ CopyNext => LockInv'
<1> SUFFICES ASSUME LockInv, CopyNext PROVE LockInv'
  OBVIOUS
<1>1. TypeInv'
  BY CopyNextType DEF LockInv
<1>2. LockedIsValidated' /\ \A m \in Names : Entry(m)' = Entry(m)
  BY LockFrame DEF LockInv, CopyNext
<1>3. /\ arg \in Names /\ cmd \in CmdRecords /\ dirs \in PackDirs
      /\ pc = "copy" /\ op \in {"add", "install", "update", "upgrade"}
      /\ UNCHANGED <<op, arg, pc, snap, lock>>
      /\ \A n \in Names \ {arg} : dirs'[n] = dirs[n]
      /\ dirs'[arg] = CopyFile(cmd.tree, OrEmpty(dirs[arg]), cmd.pos + 1)
  BY DEF LockInv, TypeInv, TypeOK, ControlOK, CopyNext, Controls, PackDirs
<1>4. /\ cmd'.tree = cmd.tree /\ cmd'.kind = cmd.kind /\ cmd'.ver = cmd.ver
      /\ cmd'.pos = cmd.pos + 1
  BY <1>3 DEF CopyNext, CmdRecords
<1>5. NoLeftovers'
  <2>1. op = "install" => Entry(arg) # None
    BY <1>3 DEF LockInv, ClearedFirst
  <2> QED BY <1>2, <1>3, <2>1 DEF LockInv, NoLeftovers, Scratch
<1>6. ClearedFirst'
  BY <1>2, <1>3 DEF LockInv, ClearedFirst, Busy
<1>7. Release' /\ HashOfRelease'
  BY <1>3, <1>4 DEF LockInv, Release, HashOfRelease, Installing, Busy
<1>8. CopiedSoFar'
  <2> SUFFICES ASSUME Installing
               PROVE  OrEmpty(dirs'[arg]) = Part(cmd.tree, cmd.pos + 1)
    BY <1>3, <1>4 DEF CopiedSoFar, Installing
  <2>1. OrEmpty(dirs[arg]) = Part(cmd.tree, cmd.pos)
    BY <1>3 DEF LockInv, CopiedSoFar
  <2>2. cmd.pos \in Nat /\ cmd.pos + 1 \in Files
    BY <1>3, PackTreesAssumption DEF CmdRecords, Files, CopyNext
  <2>3. CopyFile(cmd.tree, OrEmpty(dirs[arg]), cmd.pos + 1) = Part(cmd.tree, cmd.pos + 1)
    BY <1>3, <2>1, <2>2, PartExtends DEF CmdRecords
  <2>4. OrEmpty(dirs'[arg]) = dirs'[arg]
    <3>1. cmd.tree \in Trees /\ OrEmpty(dirs[arg]) \in Trees
      BY <1>3, TreeTypes DEF PackDirs, CmdRecords
    <3>2. dirs'[arg] \in Trees
      BY <1>3, <2>2, <3>1, TreeTypes
    <3> QED BY <3>2, PackTreesAssumption DEF OrEmpty
  <2> QED BY <1>3, <2>3, <2>4
<1> QED BY <1>1, <1>2, <1>5, <1>6, <1>7, <1>8 DEF LockInv

LEMMA CopiedLock == LockInv /\ Copied => LockInv'
<1> SUFFICES ASSUME LockInv, Copied PROVE LockInv'
  OBVIOUS
<1>1. TypeInv'
  BY CopiedType DEF LockInv
<1>2. LockedIsValidated' /\ \A m \in Names : Entry(m)' = Entry(m)
  BY LockFrame DEF LockInv, Copied, files
<1>3. /\ arg \in Names /\ cmd \in CmdRecords /\ UNCHANGED <<op, arg, lock, dirs>>
      /\ pc = "copy" /\ cmd.pos = FileCount
      /\ \/ op = "add" /\ pc' = "merge" /\ snap'.lock = lock
         \/ op = "install" /\ pc' = "next" /\ snap' = snap
         \/ op = "update" /\ pc' = "yml" /\ snap' = snap
         \/ op = "upgrade" /\ pc' = "prov" /\ snap' = snap
  BY DEF LockInv, TypeInv, TypeOK, ControlOK, Copied, Goto, Controls, files, Snapshot
<1>4. /\ cmd'.tree = cmd.tree /\ cmd'.kind = cmd.kind /\ cmd'.ver = cmd.ver
      /\ cmd'.hash = ContentHash(OrEmpty(dirs[arg]))
  BY <1>3 DEF Copied, CmdRecords
<1>5. NoLeftovers'
  <2>1. op = "install" => Entry(arg) # None
    BY <1>3 DEF LockInv, ClearedFirst
  <2> QED BY <1>2, <1>3, <2>1 DEF LockInv, NoLeftovers, Scratch
<1>6. ClearedFirst'
  BY <1>2, <1>3 DEF LockInv, ClearedFirst, Busy
<1>7. Release' /\ CopiedSoFar'
  BY <1>3, <1>4 DEF LockInv, Release, CopiedSoFar, Installing, Busy
<1>8. HashOfRelease'
  <2> SUFFICES ASSUME Installing PROVE cmd'.hash = cmd.tree
    BY <1>3, <1>4 DEF HashOfRelease, Installing
  <2>1. OrEmpty(dirs[arg]) = Part(cmd.tree, FileCount)
    BY <1>3 DEF LockInv, CopiedSoFar
  <2>2. OrEmpty(dirs[arg]) = cmd.tree
    BY <1>3, <2>1, PartBounds DEF CmdRecords
  <2>3. cmd.tree = Pristine(cmd.tree)
    BY <1>3 DEF LockInv, Release, Busy
  <2> QED BY <1>4, <2>2, <2>3 DEF ContentHash
<1> QED BY <1>1, <1>2, <1>5, <1>6, <1>7, <1>8 DEF LockInv

LEMMA MergeToolConfigLock == LockInv /\ MergeToolConfig => LockInv'
<1> SUFFICES ASSUME LockInv, MergeToolConfig PROVE LockInv'
  OBVIOUS
<1>1. TypeInv'
  BY MergeToolConfigType DEF LockInv
<1>2. LockedIsValidated' /\ \A m \in Names : Entry(m)' = Entry(m)
  BY LockFrame DEF LockInv, MergeToolConfig
<1>3. /\ cmd \in CmdRecords /\ UNCHANGED <<op, arg, lock, dirs>> /\ pc = "merge"
      /\ \/ op = "add" /\ pc' \in {"undo_dir", "prov"} /\ snap' = snap
         \/ op = "upgrade" /\ pc' = "wipe" /\ snap' = snap
         \/ op = "upgrade" /\ pc' = "idle"
      /\ pc' = "idle" \/ cmd' = cmd \/ \E x : cmd' = [cmd EXCEPT !.merged = x]
  BY DEF LockInv, TypeInv, TypeOK, ControlOK, MergeToolConfig, Goto, Finish
<1>4. pc' # "idle" => /\ cmd'.tree = cmd.tree /\ cmd'.kind = cmd.kind /\ cmd'.ver = cmd.ver
                      /\ cmd'.hash = cmd.hash /\ cmd'.pos = cmd.pos
  BY <1>3 DEF CmdRecords
<1>5. NoLeftovers'
  BY <1>2, <1>3 DEF LockInv, NoLeftovers, Scratch
<1>6. ClearedFirst'
  BY <1>2, <1>3 DEF LockInv, ClearedFirst, Busy
<1>7. Release' /\ CopiedSoFar' /\ HashOfRelease'
  BY <1>3, <1>4 DEF LockInv, Release, CopiedSoFar, HashOfRelease, Installing, Busy
<1> QED BY <1>1, <1>2, <1>5, <1>6, <1>7 DEF LockInv

LEMMA WriteFilesLock == LockInv /\ (WriteProvenance \/ WriteYml \/ EnsureGitignore) => LockInv'
<1> SUFFICES ASSUME LockInv, WriteProvenance \/ WriteYml \/ EnsureGitignore PROVE LockInv'
  OBVIOUS
<1>1. TypeInv'
  BY WriteProvenanceType, WriteYmlType, EndOfAddType DEF LockInv
<1>2. lock' = lock /\ dirs' = dirs
  BY DEF WriteProvenance, WriteYml, EnsureGitignore
<1>3. LockedIsValidated' /\ \A m \in Names : Entry(m)' = Entry(m)
  BY <1>2, LockFrame DEF LockInv
<1>4. CASE pc' = "idle"
  <2>1. pc = "gitignore" \/ (pc = "prov" /\ op = "remove")
    BY <1>4 DEF WriteProvenance, WriteYml, EnsureGitignore, Goto
  <2>2. \A n \in Names : dirs[n] # None => Entry(n) # None
    BY <2>1 DEF LockInv, NoLeftovers, Scratch
  <2> QED BY <1>1, <1>2, <1>3, <1>4, <2>2, IdleLock
<1>5. CASE pc' # "idle"
  <2>1. /\ UNCHANGED <<op, arg, cmd, snap>>
        /\ \/ pc = "prov" /\ pc' = "yml" /\ op \in {"add", "upgrade"}
           \/ pc = "yml" /\ pc' = "lock" /\ op \in {"add", "update", "upgrade", "remove"}
    BY <1>5 DEF LockInv, TypeInv, ControlOK, WriteProvenance, WriteYml, EnsureGitignore, Goto, Finish
  <2>2. NoLeftovers'
    BY <1>2, <1>3, <2>1 DEF LockInv, NoLeftovers, Scratch
  <2>3. ClearedFirst'
    BY <1>2, <1>3, <2>1 DEF LockInv, ClearedFirst, Busy
  <2>4. Release' /\ CopiedSoFar' /\ HashOfRelease'
    BY <2>1 DEF LockInv, Release, CopiedSoFar, HashOfRelease, Installing, Busy
  <2> QED BY <1>1, <1>3, <2>2, <2>3, <2>4 DEF LockInv
<1> QED BY <1>4, <1>5

(* What WriteLock does to the entries: the one of the command's pack is    *)
(* written, dropped or rehashed, the others stay.                          *)
LEMMA WriteLockEntries ==
  ASSUME TypeInv, WriteLock
  PROVE  /\ \A n \in Names \ {arg} : Entry(n)' = Entry(n)
         /\ op \in {"add", "update", "upgrade"} => Entry(arg)' = NewEntry
         /\ op = "remove" => Entry(arg)' = None
         /\ op = "relock" => Entry(arg) # None /\ Entry(arg)' = [Entry(arg) EXCEPT !.hash = cmd.hash]
<1>0. /\ arg \in Names /\ cmd \in CmdRecords /\ pc = "lock" /\ lock \in LockFiles \union {None}
      /\ op \in {"add", "update", "upgrade", "remove", "relock"} /\ arg' = arg
  BY DEF TypeInv, TypeOK, ControlOK, WriteLock, Goto, Finish, Controls
<1>1. CASE op \in {"add", "update", "upgrade"}
  <2>1. LockBase \in [Names -> LockEntries \union {None}]
        /\ \A n \in Names : LockBase[n] = Entry(n)
    BY <1>0 DEF LockBase, LockFiles, NoPacks, Entry
  <2>2. lock' = [LockBase EXCEPT ![arg] = NewEntry]
    BY <1>0, <1>1 DEF WriteLock
  <2>3. lock' # None
    <3>1. NewEntry \in LockEntries
      BY <1>0, <1>1, NewEntryType
    <3>2. lock' \in LockFiles
      BY <1>0, <2>1, <2>2, <3>1 DEF LockFiles
    <3> QED BY <3>2, PackLifecycleAssumption
  <2> QED BY <1>0, <1>1, <2>1, <2>2, <2>3 DEF Entry
<1>2. CASE op = "remove"
  BY <1>0, <1>2, PackLifecycleAssumption DEF WriteLock, Entry, LockFiles
<1>3. CASE op = "relock"
  <2>1. lock \in LockFiles /\ lock # None /\ lock[arg] # None
    BY <1>0, <1>3 DEF TypeInv, ControlOK, Busy
  <2>2. lock' = [lock EXCEPT ![arg] = [lock[arg] EXCEPT !.hash = cmd.hash]]
    BY <1>0, <1>3 DEF WriteLock
  <2>3. lock' # None
    <3>1. [lock[arg] EXCEPT !.hash = cmd.hash] \in LockEntries
      BY <1>0, <2>1 DEF LockFiles, LockEntries, CmdRecords
    <3>2. lock' \in LockFiles
      BY <1>0, <2>1, <2>2, <3>1 DEF LockFiles
    <3> QED BY <3>2, PackLifecycleAssumption
  <2> QED BY <1>0, <1>3, <2>1, <2>2, <2>3 DEF Entry, LockFiles
<1> QED BY <1>0, <1>1, <1>2, <1>3

(* The only step that pins anything. *)
LEMMA WriteLockLock == LockInv /\ WriteLock => LockInv'
<1> SUFFICES ASSUME LockInv, WriteLock PROVE LockInv'
  OBVIOUS
<1>1. TypeInv'
  BY WriteLockType DEF LockInv
<1>2. /\ arg \in Names /\ cmd \in CmdRecords /\ pc = "lock" /\ dirs' = dirs /\ arg' = arg /\ op' = op
      /\ op \in {"add", "update", "upgrade", "remove", "relock"} /\ lock \in LockFiles \union {None}
      /\ pc' = IF op = "add" THEN "gitignore" ELSE IF op = "remove" THEN "prov" ELSE "idle"
  BY DEF LockInv, TypeInv, TypeOK, ControlOK, WriteLock, Goto, Finish, Controls
<1>3. /\ \A n \in Names \ {arg} : Entry(n)' = Entry(n)
      /\ op \in {"add", "update", "upgrade"} => Entry(arg)' = NewEntry
      /\ op = "remove" => Entry(arg)' = None
      /\ op = "relock" => Entry(arg) # None /\ Entry(arg)' = [Entry(arg) EXCEPT !.hash = cmd.hash]
  BY WriteLockEntries DEF LockInv
<1>4. LockedIsValidated'
  <2> SUFFICES ASSUME NEW n \in Names, GitEntry(n)'
               PROVE  (/\ Entry(n).hash \in ValidTrees
                       /\ IdentityOK(Entry(n).hash, Entry(n).version)
                       /\ Manifest(Entry(n).hash).name = n)'
    BY DEF LockedIsValidated
  <2>1. CASE n # arg
    BY <1>3, <2>1 DEF LockInv, LockedIsValidated, GitEntry
  <2>2. CASE n = arg /\ Installing
    <3>1. /\ Entry(n)'.hash = cmd.hash /\ Entry(n)'.kind = cmd.kind /\ Entry(n)'.version = cmd.ver
      BY <1>2, <1>3, <2>2 DEF NewEntry, Installing
    <3>2. cmd.hash = cmd.tree
      BY <1>2, <2>2 DEF LockInv, HashOfRelease, Installing
    <3>3. cmd.kind = "git"
      BY <3>1 DEF GitEntry
    <3> QED BY <1>2, <2>2, <3>1, <3>2, <3>3 DEF LockInv, Release, Busy, IdentityOK
  <2>3. CASE n = arg /\ op = "relock"
    <3>1. Entry(arg).kind = "local" /\ Entry(arg) \in LockEntries
      BY <1>2, <1>3, <2>3, RecordedType DEF LockInv, ClearedFirst, Busy, TypeInv
    <3>2. Entry(arg)'.kind = "local"
      BY <1>3, <2>3, <3>1 DEF LockEntries
    <3> QED BY <1>2, <2>3, <3>2 DEF GitEntry
  <2>4. CASE n = arg /\ op = "remove"
    BY <1>2, <1>3, <2>4 DEF GitEntry
  <2> QED BY <1>2, <2>1, <2>2, <2>3, <2>4 DEF Installing
<1>5. \A n \in Names : dirs'[n] # None => Entry(n)' # None
  <2>1. \A n \in Names \ {arg} : dirs'[n] # None => Entry(n)' # None
    BY <1>2, <1>3 DEF LockInv, NoLeftovers, Scratch
  <2>2. op = "remove" => dirs[arg] = None
    BY <1>2 DEF LockInv, ClearedFirst
  <2>3. op # "remove" => Entry(arg)' # None
    <3>1. Entry(arg)' \in LockEntries \/ op = "remove"
      <4>1. CASE Installing
        BY <1>2, <1>3, <4>1, NewEntryType DEF LockInv, Installing
      <4>2. CASE op = "relock"
        BY <1>2, <1>3, <4>2, RecordedType DEF LockInv, TypeInv, LockEntries, CmdRecords
      <4> QED BY <1>2, <4>1, <4>2 DEF Installing
    <3> QED BY <3>1, PackLifecycleAssumption
  <2> QED BY <1>2, <2>1, <2>2, <2>3
<1>6. (ClearedFirst /\ Release /\ CopiedSoFar /\ HashOfRelease)'
  <2>1. op = "add" => cmd' = cmd
    BY <1>2 DEF WriteLock
  <2> QED
  BY <1>2, <2>1 DEF LockInv, ClearedFirst, Release, CopiedSoFar, HashOfRelease, Busy, Installing
<1> QED BY <1>1, <1>4, <1>5, <1>6 DEF LockInv, NoLeftovers

LEMMA UndoLockLock == LockInv /\ (UndoYml \/ UndoLock \/ UndoProv) => LockInv'
<1> SUFFICES ASSUME LockInv, UndoYml \/ UndoLock \/ UndoProv PROVE LockInv'
  OBVIOUS
<1>1. TypeInv'
  BY EndOfAddType DEF LockInv
<1>2. lock' = lock /\ dirs' = dirs /\ pc \in {"undo_yml", "undo_lock", "undo_prov"} /\ op = "add"
  BY DEF UndoYml, UndoLock, UndoProv, LockInv, ClearedFirst, TypeInv, ControlOK
<1>3. LockedIsValidated' /\ \A m \in Names : Entry(m)' = Entry(m)
  BY <1>2, LockFrame DEF LockInv
<1>4. \A n \in Names : dirs[n] # None => Entry(n) # None
  BY <1>2 DEF LockInv, NoLeftovers, Scratch
<1>5. CASE pc' = "idle"
  BY <1>1, <1>2, <1>3, <1>4, <1>5, IdleLock
<1>6. CASE pc' # "idle"
  <2>1. /\ UNCHANGED <<op, arg, cmd, snap>> /\ pc' \in {"undo_lock", "undo_prov"}
        /\ pc \in {"undo_yml", "undo_lock"}
    BY <1>6 DEF UndoYml, UndoLock, UndoProv, Goto, Finish
  <2>2. ClearedFirst' /\ NoLeftovers'
    BY <1>2, <1>3, <1>4, <2>1 DEF LockInv, ClearedFirst, NoLeftovers
  <2>3. Release' /\ CopiedSoFar' /\ HashOfRelease'
    BY <1>2, <2>1 DEF LockInv, Release, CopiedSoFar, HashOfRelease, Installing, Busy
  <2> QED BY <1>1, <1>3, <2>2, <2>3 DEF LockInv
<1> QED BY <1>5, <1>6

LEMMA InstallStepLock ==
  LockInv /\ (InstallNext \/ InstallDone \/ RestoreWipe \/ RestoreCopy) => LockInv'
<1> SUFFICES ASSUME LockInv, InstallNext \/ InstallDone \/ RestoreWipe \/ RestoreCopy PROVE LockInv'
  OBVIOUS
<1>1. TypeInv'
  BY InstallNextType, InstallEndType DEF LockInv
<1>2. /\ lock' = lock /\ op = "install" /\ op' = "install" /\ Busy
      /\ pc \in {"next", "restore_wipe", "restore_copy"}
  BY DEF InstallNext, InstallDone, RestoreWipe, RestoreCopy, Goto, Finish, files, Busy,
         LockInv, TypeInv, ControlOK
<1>3. LockedIsValidated' /\ \A m \in Names : Entry(m)' = Entry(m)
  BY <1>2, LockFrame DEF LockInv
<1>4. \A n \in Names : dirs'[n] # None => Entry(n) # None
  <2>1. \A n \in Names : dirs[n] # None => Entry(n) # None
    BY <1>2 DEF LockInv, NoLeftovers, Scratch
  <2>2. \A n \in Names : snap.dirs[n] # None => Entry(n) # None
    BY <1>2 DEF LockInv, ClearedFirst
  <2>3. \/ dirs' = dirs \/ dirs' = NoPacks \/ dirs' = snap.dirs
    BY DEF InstallNext, InstallDone, RestoreWipe, RestoreCopy, files
  <2> QED BY <2>1, <2>2, <2>3 DEF NoPacks
<1>5. CASE pc' = "idle"
  BY <1>1, <1>3, <1>4, <1>5, IdleLock
<1>6. CASE pc' # "idle"
  <2>1. snap' = snap /\ (pc' = "copy" => Entry(arg)' # None)
    <3>1. CASE InstallNext
      <4>1. cmd.todo \subseteq Names /\ lock # None
        BY <1>2 DEF LockInv, TypeInv, TypeOK, CmdRecords, ControlOK
      <4> QED BY <3>1, <4>1, <1>2 DEF InstallNext, Entry
    <3>2. CASE ~InstallNext
      BY <1>6, <3>2 DEF InstallDone, RestoreWipe, RestoreCopy, Goto, Finish
    <3> QED BY <3>1, <3>2
  <2>2. ClearedFirst' /\ NoLeftovers'
    BY <1>2, <1>3, <1>4, <2>1 DEF LockInv, ClearedFirst, NoLeftovers
  <2>3. Release' /\ CopiedSoFar' /\ HashOfRelease'
    BY <1>2 DEF Release, CopiedSoFar, HashOfRelease, Installing
  <2> QED BY <1>1, <1>3, <2>2, <2>3 DEF LockInv
<1> QED BY <1>5, <1>6

LEMMA LockStep == Quiet /\ LockInv /\ [Next]_vars => LockInv'
<1> SUFFICES ASSUME Quiet, LockInv, [Next]_vars PROVE LockInv'
  OBVIOUS
<1>1. CASE Start
  BY <1>1, AddLock, UpdateLock, UpgradeLock, OtherStartLock DEF Start
<1>2. CASE Step
  BY <1>2, InstallStepLock, WipeFileLock, WipedLock, CopyNextLock, CopiedLock,
     MergeToolConfigLock, WriteFilesLock, WriteLockLock, UndoLockLock DEF Step
<1>3. CASE World
  BY <1>3, WorldLock
<1>4. ~Crash /\ ~WriteFails
  BY DEF Quiet, Crash, WriteFails, Disturb
<1>5. CASE UNCHANGED vars
  <2>1. TypeInv'
    BY <1>5, TypeStep DEF LockInv
  <2> QED BY <1>5, <2>1
  DEF vars, files, LockInv, LockedIsValidated, NoLeftovers, ClearedFirst, Release, CopiedSoFar,
      HashOfRelease, GitEntry, Entry, Scratch, Installing, Busy
<1> QED BY <1>1, <1>2, <1>3, <1>4, <1>5 DEF Next

(* Whatever is added, updated, upgraded, removed, relocked and installed,   *)
(* in any order, while tags move and sources, installed files and working  *)
(* copies change: backstop.lock pins only git trees that pack check and    *)
(* pack test accepted, under the name and version of their own manifest.   *)
(* The assumption is needed: a copy that is cut short, or a branch that    *)
(* does not know the directory, leaves files that the next add hashes.     *)
THEOREM LockSound == Quiet /\ Spec => []LockedIsValidated
<1> SUFFICES ASSUME Quiet PROVE Spec => []LockedIsValidated
  OBVIOUS
<1>1. LockInv /\ [Next]_vars => LockInv'
  BY LockStep
<1>2. LockInv => LockedIsValidated
  BY DEF LockInv
<1> QED BY <1>1, <1>2, LockInit, PTL DEF Spec

-----------------------------------------------------------------------------
(* What every command that installs something holds in memory from its      *)
(* start to its end: a release that passed validation, under the name it   *)
(* is installed as and, from git, at the version and from the tag that     *)
(* were asked for.                                                         *)

Checked(c, n) ==
  /\ c.tree \in ValidTrees /\ c.tree = Pristine(c.tree)
  /\ Manifest(c.tree) # None /\ Manifest(c.tree).name = n
  /\ \/ /\ c.kind = "git" /\ c.ver \in Versions /\ c.coord \in Coords
        /\ IdentityOK(c.tree, c.ver)
        /\ c.tree = Pristine(remote[c.coord][c.ver])
     \/ c.kind = "local" /\ c.ver = None

(* What the start of a command establishes. *)
Starts ==
  \/ op' = "add" /\ pc' = "copy" /\ Checked(cmd', arg') /\ cmd'.pos = 0 /\ ~InstalledAndCurrent(arg')
  \/ op' = "update" /\ pc' = "wipe" /\ Checked(cmd', arg') /\ cmd'.pos = 0 /\ cmd'.kind = "git"
  \/ op' = "upgrade" /\ pc' = "merge" /\ Checked(cmd', arg') /\ cmd'.pos = 0 /\ cmd'.kind = "git"
  \/ op' = "remove" /\ pc' = "wipe" /\ yml[arg'] # None
  \/ op' = "relock" /\ pc' = "lock" /\ Relockable(arg') /\ cmd'.hash = ContentHash(dirs[arg'])
  \/ /\ op' = "install" /\ pc' = "next" /\ lock # None /\ snap' = Snapshot
     /\ cmd'.todo = {n \in Names : yml[n] # None}

(* A clone or a local source that passed the checks. *)
LEMMA CheckedClone ==
  ASSUME TypeInv, NEW c \in Coords, NEW v \in Versions, NEW r \in CmdRecords,
         remote[c][v] # None, IdentityOK(Clone(c, v), v), Validates(Clone(c, v)),
         r.tree = Clone(c, v), r.ver = v, r.coord = c, r.kind = "git"
  PROVE  Checked(r, Manifest(Clone(c, v)).name)
<1>1. remote[c][v] \in Trees
  BY DEF TypeInv, TypeOK
<1>2. Pristine(Clone(c, v)) = Clone(c, v)
  BY <1>1, PristineManifest DEF Clone
<1> QED BY <1>2 DEF Checked, Validates, IdentityOK, Clone

LEMMA StartsAdd ==
  ASSUME TypeInv, \/ \E c \in Coords, v \in Versions : AddGit(c, v)
                  \/ \E p \in Paths : AddLocal(p)
  PROVE  \/ \E o, n, r : Answer(o, n, r) /\ r \in {"noop", "refused"}
         \/ Starts /\ \E o, n, first, c : Launch(o, n, first, c)
<1>1. ASSUME NEW c \in Coords, NEW v \in Versions, remote[c][v] # None, IdentityOK(Clone(c, v), v),
             LaunchAdd(Manifest(Clone(c, v)).name,
                       [NoCmd EXCEPT !.coord = c, !.ver = v, !.tree = Clone(c, v)]),
             ~\E o, n, r : Answer(o, n, r) /\ r \in {"noop", "refused"}
      PROVE  Starts /\ \E o, n, first, d : Launch(o, n, first, d)
  <2> DEFINE r == [NoCmd EXCEPT !.coord = c, !.ver = v, !.tree = Clone(c, v)]
             m == Manifest(Clone(c, v)).name
  <2>1. Clone(c, v) \in Trees
    BY <1>1, TreeTypes DEF TypeInv, TypeOK, Clone
  <2>2. r \in CmdRecords /\ r.tree = Clone(c, v) /\ r.ver = v /\ r.coord = c /\ r.kind = "git" /\ r.pos = 0
    BY <2>1, NewCmdType DEF NoCmd
  <2> HIDE DEF r
  <2>3. ~InstalledAndCurrent(m) /\ Validates(r.tree) /\ Launch("add", m, "copy", r)
    BY <1>1 DEF LaunchAdd, r
  <2>4. Checked(r, m)
    BY <1>1, <2>2, <2>3, CheckedClone
  <2>5. op' = "add" /\ pc' = "copy" /\ cmd' = r /\ arg' = m /\ UNCHANGED remote
    BY <2>3 DEF Launch, world
  <2> HIDE DEF m
  <2> QED BY <2>2, <2>3, <2>4, <2>5 DEF Starts
<1>2. ASSUME NEW p \in Paths, SourceManifest(p) # None,
             LaunchAdd(SourceManifest(p).name,
                       [NoCmd EXCEPT !.kind = "local", !.path = p, !.tree = Pristine(source[p])]),
             ~\E o, n, r : Answer(o, n, r) /\ r \in {"noop", "refused"}
      PROVE  Starts /\ \E o, n, first, d : Launch(o, n, first, d)
  <2> DEFINE r == [NoCmd EXCEPT !.kind = "local", !.path = p, !.tree = Pristine(source[p])]
             m == SourceManifest(p).name
  <2>1. source[p] \in Trees /\ Pristine(source[p]) \in Trees
        /\ Pristine(Pristine(source[p])) = Pristine(source[p])
        /\ Manifest(Pristine(source[p])) # None /\ Manifest(Pristine(source[p])).name = m
    BY <1>2, TreeTypes, PristineManifest DEF TypeInv, TypeOK, SourceManifest
  <2>2. r \in CmdRecords /\ r.tree = Pristine(source[p]) /\ r.ver = None /\ r.kind = "local" /\ r.pos = 0
    BY <2>1, NewCmdType DEF NoCmd
  <2> HIDE DEF r
  <2>3. ~InstalledAndCurrent(m) /\ Validates(r.tree) /\ Launch("add", m, "copy", r)
    BY <1>2 DEF LaunchAdd, r
  <2>4. Checked(r, m)
    BY <2>1, <2>2, <2>3 DEF Checked, Validates
  <2>5. op' = "add" /\ pc' = "copy" /\ cmd' = r /\ arg' = m
    BY <2>3 DEF Launch
  <2> HIDE DEF m
  <2> QED BY <2>2, <2>3, <2>4, <2>5 DEF Starts
<1> QED BY <1>1, <1>2 DEF AddGit, AddLocal

LEMMA StartsReplace ==
  ASSUME TypeInv, NEW n \in Names,
         (\E a \in BOOLEAN : Update(n, a)) \/ (\E v \in Versions : Upgrade(n, v))
  PROVE  \/ \E o, m, r : Answer(o, m, r) /\ r \in {"noop", "refused"}
         \/ Starts /\ \E o, m, first, d : Launch(o, m, first, d)
<1> DEFINE c == CoordinateFor(n)
<1>1. c \in Coords
  BY RecordedType DEF TypeInv
<1> HIDE DEF c
<1>2. ASSUME NEW w \in Versions, remote[c][w] # None, IdentityOK(Clone(c, w), w), Validates(Clone(c, w))
      PROVE  /\ Checked(Replacement(n, c, w), Manifest(Clone(c, w)).name)
             /\ Replacement(n, c, w).kind = "git" /\ Replacement(n, c, w).pos = 0
  <2>1. /\ Replacement(n, c, w) \in CmdRecords
        /\ Replacement(n, c, w).tree = Clone(c, w) /\ Replacement(n, c, w).ver = w
        /\ Replacement(n, c, w).coord = c /\ Replacement(n, c, w).kind = "git"
        /\ Replacement(n, c, w).pos = 0
    BY <1>1, <1>2, ReplacementType DEF Replacement, NoCmd
  <2> QED BY <1>1, <1>2, <2>1, CheckedClone
<1>3. CASE \E a \in BOOLEAN : Update(n, a)
  <2>1. \A w \in Versions : w # yml[n] /\ IsLatestCompatible(w, Tags(c), yml[n]) => remote[c][w] # None
    BY DEF IsLatestCompatible, Tags
  <2>2. ASSUME NEW w \in Versions, w # yml[n], IsLatestCompatible(w, Tags(c), yml[n]),
               IdentityOK(Clone(c, w), w), Validates(Clone(c, w)),
               Launch("update", Manifest(Clone(c, w)).name, "wipe", Replacement(n, c, w))
        PROVE  Starts
    <3>1. /\ op' = "update" /\ pc' = "wipe" /\ cmd' = Replacement(n, c, w)
          /\ arg' = Manifest(Clone(c, w)).name
      BY <2>2 DEF Launch
    <3> QED BY <1>2, <2>1, <2>2, <3>1 DEF Starts
  <2> QED BY <1>3, <2>2 DEF Update, c
<1>4. CASE \E v \in Versions : Upgrade(n, v)
  <2>1. ASSUME NEW w \in Versions, remote[c][w] # None, IdentityOK(Clone(c, w), w), Validates(Clone(c, w)),
               Launch("upgrade", Manifest(Clone(c, w)).name, "merge", Replacement(n, c, w))
        PROVE  Starts
    <3>1. /\ op' = "upgrade" /\ pc' = "merge" /\ cmd' = Replacement(n, c, w)
          /\ arg' = Manifest(Clone(c, w)).name
      BY <2>1 DEF Launch
    <3> QED BY <1>2, <2>1, <3>1 DEF Starts
  <2> QED BY <1>4, <2>1 DEF Upgrade, c
<1> QED BY <1>3, <1>4

(* A start writes nothing: it answers, or it begins a command that has what *)
(* its writes need.                                                        *)
LEMMA StartShape ==
  ASSUME TypeInv, Start
  PROVE  /\ pc = "idle" /\ UNCHANGED <<files, world, disturbed>>
         /\ \/ pc' = "idle" /\ out' \in {"noop", "refused"}
            \/ out' = None /\ Starts
<1>1. ASSUME NEW o, NEW n, NEW r, Answer(o, n, r), r \in {"noop", "refused"}
      PROVE  /\ pc = "idle" /\ UNCHANGED <<files, world, disturbed>>
             /\ pc' = "idle" /\ out' \in {"noop", "refused"}
  BY <1>1 DEF Answer, Finish, Idle
<1>2. ASSUME NEW o, NEW n, NEW first, NEW c, Launch(o, n, first, c)
      PROVE  pc = "idle" /\ UNCHANGED <<files, world, disturbed>> /\ out' = None
  BY <1>2 DEF Launch, Idle
<1>3. CASE (\E c \in Coords, v \in Versions : AddGit(c, v)) \/ (\E p \in Paths : AddLocal(p))
  BY <1>1, <1>2, <1>3, StartsAdd
<1>4. CASE (\E n \in Names, a \in BOOLEAN : Update(n, a)) \/ (\E n \in Names, v \in Versions : Upgrade(n, v))
  BY <1>1, <1>2, <1>4, StartsReplace
<1>5. ASSUME NEW n \in Names, Remove(n)
      PROVE  /\ pc = "idle" /\ UNCHANGED <<files, world, disturbed>>
             /\ \/ pc' = "idle" /\ out' \in {"noop", "refused"}
                \/ out' = None /\ Starts
  BY <1>1, <1>5 DEF Remove, Starts, Idle
<1>6. ASSUME NEW n \in Names, Relock(n)
      PROVE  /\ pc = "idle" /\ UNCHANGED <<files, world, disturbed>>
             /\ \/ pc' = "idle" /\ out' \in {"noop", "refused"}
                \/ out' = None /\ Starts
  BY <1>1, <1>2, <1>6 DEF Relock, Launch, Starts, NoCmd
<1>7. CASE Install
  BY <1>1, <1>2, <1>7 DEF Install, Launch, Starts, NoCmd
<1> QED BY <1>3, <1>4, <1>5, <1>6, <1>7 DEF Start

(* A running command keeps its name, its pack, the release in memory and    *)
(* the world it cloned it from.                                            *)
LEMMA StepKeeps ==
  ASSUME TypeInv, Step \/ Crash \/ WriteFails, pc' # "idle"
  PROVE  /\ pc # "idle" /\ op' = op /\ UNCHANGED world
         /\ cmd'.kind = cmd.kind /\ cmd'.ver = cmd.ver /\ cmd'.coord = cmd.coord
         /\ cmd'.asked = cmd.asked
         /\ op # "install" => arg' = arg /\ cmd'.tree = cmd.tree
<1> USE DEF Goto
<1>1. cmd \in CmdRecords
  BY DEF TypeInv, TypeOK
<1>2. CASE CopyNext \/ Copied \/ MergeToolConfig
  <2>1. pc # "idle" /\ op' = op /\ arg' = arg /\ UNCHANGED world
    BY <1>2 DEF CopyNext, Copied, MergeToolConfig, Finish
  <2>2. \/ cmd' = cmd
        \/ \E x : cmd' = [cmd EXCEPT !.pos = x]
        \/ \E x : cmd' = [cmd EXCEPT !.hash = x]
        \/ \E x : cmd' = [cmd EXCEPT !.merged = x]
    BY <1>2 DEF CopyNext, Copied, MergeToolConfig, Finish
  <2> QED BY <1>1, <2>1, <2>2 DEF CmdRecords
<1>3. CASE InstallNext
  <2>1. pc # "idle" /\ op' = op /\ UNCHANGED world /\ op = "install"
    BY <1>3 DEF InstallNext, TypeInv, ControlOK
  <2>2. \/ cmd' = cmd
        \/ \E x : cmd' = [cmd EXCEPT !.todo = x]
        \/ \E x, y : cmd' = [cmd EXCEPT !.todo = x, !.tree = y, !.pos = 0]
    BY <1>3 DEF InstallNext
  <2> QED BY <1>1, <2>1, <2>2 DEF CmdRecords
<1>4. CASE InstallDone \/ RestoreWipe \/ RestoreCopy \/ WipeFile \/ Wiped \/ WriteProvenance \/ WriteYml
           \/ WriteLock \/ EnsureGitignore \/ UndoYml \/ UndoLock \/ UndoProv
  BY <1>4 DEF InstallDone, RestoreWipe, RestoreCopy, WipeFile, Wiped, WriteProvenance, WriteYml,
              WriteLock, EnsureGitignore, UndoYml, UndoLock, UndoProv, Finish
<1>5. CASE Crash \/ WriteFails
  BY <1>5 DEF Crash, WriteFails
<1> QED BY <1>2, <1>3, <1>4, <1>5 DEF Step

CheckedOK == Installing /\ Busy => Checked(cmd, arg)

(* The world moves only between commands. *)
LEMMA WorldIdle == World => pc = "idle" /\ pc' = "idle" /\ out' = None
BY DEF World, EditInstalled, EditSource, Publish, Checkout, FreshClone, Meanwhile, Idle

LEMMA CheckedStep == TypeInv /\ CheckedOK /\ [Next]_vars => CheckedOK'
<1> SUFFICES ASSUME TypeInv, CheckedOK, [Next]_vars, pc' # "idle", op' \in {"add", "update", "upgrade"}
             PROVE  Checked(cmd, arg)'
  BY DEF CheckedOK, Installing, Busy
<1>1. CASE Start
  <2>1. Starts /\ remote' = remote
    BY <1>1, StartShape DEF world
  <2> QED BY <2>1 DEF Starts, Checked
<1>2. CASE Step \/ Crash \/ WriteFails
  BY <1>2, StepKeeps DEF CheckedOK, Checked, Installing, Busy, world
<1>3. CASE World
  BY <1>3, WorldIdle
<1>4. CASE UNCHANGED vars
  BY <1>4 DEF vars, world, CheckedOK, Checked, Installing, Busy
<1> QED BY <1>1, <1>2, <1>3, <1>4 DEF Next

LEMMA CheckedInit == Init => CheckedOK
BY DEF Init, CheckedOK, Busy

-----------------------------------------------------------------------------
(* Rollback.  The snapshot is taken when the directory has been copied      *)
(* (add) or before the first write (install), so until the rollback is     *)
(* over everything but what it has not yet put back equals the snapshot.   *)

Undoing == {"undo_dir", "undo_yml", "undo_lock", "undo_prov"}

(* add, from its snapshot on: other packs' directories are as they were,    *)
(* and the rollback puts the files back one after the other.               *)
AddUndo ==
  op = "add" /\ pc \in Undoing \union {"merge", "prov", "yml", "lock"} =>
    /\ \A n \in Names \ {arg} : dirs[n] = snap.dirs[n]
    /\ pc \in Undoing \ {"undo_dir"} => dirs[arg] = None
    /\ pc \in {"undo_lock", "undo_prov"} => yml = snap.yml
    /\ pc = "undo_prov" => lock = snap.lock

(* install writes nothing but directories. *)
InstallUndo ==
  op = "install" /\ Busy => yml = snap.yml /\ lock = snap.lock /\ prov = snap.prov

RollbackInv == TypeInv /\ AddUndo /\ InstallUndo /\ RollbackRestores

LEMMA RollbackInit == Init => RollbackInv
<1> SUFFICES ASSUME Init PROVE RollbackInv
  OBVIOUS
<1>1. AddUndo /\ InstallUndo /\ RollbackRestores
  BY PackLifecycleAssumption DEF Init, AddUndo, InstallUndo, RollbackRestores, Undoing, Busy, Outcomes, Commands
<1> QED BY <1>1, TypeInit DEF RollbackInv

(* A step that ends a command without a rollback has nothing to restore. *)
LEMMA RollbackIdle ==
  ASSUME TypeInv', pc' = "idle", out' # "rolledback"
  PROVE  RollbackInv'
BY DEF RollbackInv, AddUndo, InstallUndo, RollbackRestores, Undoing, Busy

LEMMA RollbackStep == RollbackInv /\ [Next]_vars => RollbackInv'
<1> SUFFICES ASSUME RollbackInv, [Next]_vars PROVE RollbackInv'
  OBVIOUS
<1> USE DEF Undoing, Busy
<1>t. TypeInv'
  BY TypeStep DEF RollbackInv
<1>n. None \notin Outcomes
  BY PackLifecycleAssumption
<1>1. CASE Start
  <2>1. /\ UNCHANGED <<yml, lock, prov, dirs>>
        /\ \/ pc' = "idle" /\ out' \in {"noop", "refused"}
           \/ out' = None /\ Starts
    BY <1>1, StartShape DEF RollbackInv, files
  <2>2. CASE pc' = "idle"
    <3>1. out' # "rolledback"
      BY <1>n, <2>1 DEF Outcomes
    <3> QED BY <1>t, <2>2, <3>1, RollbackIdle
  <2>3. CASE out' = None /\ Starts
    BY <1>t, <1>n, <2>1, <2>3 DEF Starts, RollbackInv, AddUndo, InstallUndo, RollbackRestores, Idle, Snapshot
  <2> QED BY <2>1, <2>2, <2>3
<1>2. CASE World
  BY <1>t, <1>n, <1>2, WorldIdle, RollbackIdle DEF Outcomes
<1>3. CASE UNCHANGED vars
  BY <1>t, <1>3 DEF vars, files, RollbackInv, AddUndo, InstallUndo, RollbackRestores, Idle
<1>4. CASE Crash
  BY <1>t, <1>4, RollbackIdle DEF Crash
<1>5. CASE WriteFails
  <2>1. CASE pc' = "idle"
    BY <1>t, <1>5, <2>1, RollbackIdle DEF WriteFails
  <2>2. CASE op = "add" /\ pc \in {"merge", "prov", "yml", "lock"} /\ pc' = "undo_dir"
    <3>1. UNCHANGED <<op, arg, snap, dirs>>
      BY <1>5, <2>2 DEF WriteFails, Interrupted
    <3> QED BY <1>t, <2>2, <3>1 DEF RollbackInv, AddUndo, InstallUndo, RollbackRestores, Idle
  <2>3. CASE op = "install" /\ pc' = "restore_wipe"
    <3>1. pc = "copy" /\ UNCHANGED <<op, arg, snap>>
      BY <1>5, <2>3 DEF WriteFails, RollbackInv, TypeInv, ControlOK
    <3>2. UNCHANGED <<yml, lock, prov>>
      BY <1>5, <3>1, InterruptedType DEF WriteFails, RollbackInv, TypeInv
    <3> QED BY <1>t, <2>3, <3>1, <3>2 DEF RollbackInv, AddUndo, InstallUndo, RollbackRestores, Idle
  <2> QED BY <1>5, <2>1, <2>2, <2>3 DEF WriteFails
<1>6. CASE Step
  <2> USE DEF RollbackInv, AddUndo, InstallUndo, RollbackRestores, Idle, Goto, Finish
  <2>1. CASE InstallNext \/ InstallDone \/ RestoreWipe \/ RestoreCopy
    <3>1. op = "install" /\ op' = "install" /\ UNCHANGED <<yml, lock, prov>>
      BY <2>1 DEF TypeInv, ControlOK, InstallNext, InstallDone, RestoreWipe, RestoreCopy, files
    <3>2. CASE pc' = "idle"
      BY <1>t, <2>1, <3>1, <3>2 DEF InstallNext, InstallDone, RestoreWipe, RestoreCopy
    <3>3. CASE pc' # "idle"
      BY <1>t, <2>1, <3>1, <3>3 DEF InstallNext, InstallDone, RestoreWipe, RestoreCopy
    <3> QED BY <3>2, <3>3
  <2>2. CASE WipeFile \/ Wiped
    <3>1. /\ arg \in Names /\ UNCHANGED <<op, arg, snap, yml, lock, prov, out>>
          /\ \A n \in Names \ {arg} : dirs'[n] = dirs[n]
          /\ pc \in {"wipe", "undo_dir"} /\ (pc' = pc \/ dirs'[arg] = None)
          /\ pc' = pc \/ pc' = (IF pc = "undo_dir" THEN "undo_yml" ELSE IF op = "remove" THEN "yml" ELSE "copy")
          /\ op \notin {"install"} /\ (pc = "wipe" => op # "add")
      BY <2>2 DEF WipeFile, Wiped, TypeInv, TypeOK, ControlOK, Controls, PackDirs
    <3> QED BY <1>t, <3>1
  <2>3. CASE CopyNext \/ Copied
    <3>1. /\ arg \in Names /\ UNCHANGED <<op, arg, yml, lock, prov, out>> /\ pc = "copy"
          /\ \/ snap' = snap /\ pc' = "copy"
             \/ snap' = snap /\ op # "add" /\ pc' \in {"next", "yml", "prov"}
             \/ op = "add" /\ pc' = "merge" /\ snap'.dirs = dirs'
      BY <2>3 DEF CopyNext, Copied, TypeInv, TypeOK, ControlOK, Controls, files, Snapshot
    <3> QED BY <1>t, <3>1
  <2>4. CASE MergeToolConfig \/ WriteProvenance \/ WriteYml \/ WriteLock \/ EnsureGitignore
    <3>1. op # "install" /\ op' = op /\ arg' = arg /\ dirs' = dirs
      BY <2>4 DEF MergeToolConfig, WriteProvenance, WriteYml, WriteLock, EnsureGitignore,
                  TypeInv, ControlOK
    <3>2. \/ pc' = "idle" /\ out' \in {"ok", "error"}
          \/ snap' = snap /\ pc' \in {"undo_dir", "prov", "wipe", "yml", "lock", "gitignore"}
      BY <2>4 DEF MergeToolConfig, WriteProvenance, WriteYml, WriteLock, EnsureGitignore
    <3>3. pc \in {"merge", "prov", "yml", "lock"} \/ pc' = "idle"
      BY <2>4 DEF MergeToolConfig, WriteProvenance, WriteYml, WriteLock, EnsureGitignore
    <3>4. CASE pc' = "idle"
      BY <1>t, <3>2, <3>4, RollbackIdle
    <3>5. CASE pc' # "idle"
      BY <1>t, <3>1, <3>2, <3>3, <3>5
    <3> QED BY <3>4, <3>5
  <2>5. CASE UndoYml \/ UndoLock \/ UndoProv
    <3>1. op = "add" /\ op' = "add" /\ arg' = arg /\ dirs' = dirs /\ arg \in Names
          /\ snap \in Snapshots /\ dirs \in PackDirs
      BY <2>5 DEF UndoYml, UndoLock, UndoProv, TypeInv, TypeOK, ControlOK, Controls
    <3>2. CASE UndoYml \/ UndoLock
      BY <1>t, <3>1, <3>2 DEF UndoYml, UndoLock
    <3>3. CASE UndoProv
      <4>1. dirs = [snap.dirs EXCEPT ![arg] = None]
        BY <3>1, <3>3 DEF UndoProv, Snapshots, PackDirs
      <4> QED BY <1>t, <3>1, <3>3, <4>1 DEF UndoProv
    <3> QED BY <2>5, <3>2, <3>3
  <2> QED BY <1>6, <2>1, <2>2, <2>3, <2>4, <2>5 DEF Step
<1> QED BY <1>1, <1>2, <1>3, <1>4, <1>5, <1>6 DEF Next

(* Whatever fails or crashes, in whatever state earlier commands left the   *)
(* project: when add or install reports that it rolled back, the manifest, *)
(* the lock, the provenance and every directory are what it found, for     *)
(* any packs, versions, trees and number of disturbances.                  *)
THEOREM RollbackIsComplete == Spec => []RollbackRestores
<1>1. RollbackInv => RollbackRestores
  BY DEF RollbackInv
<1> QED BY <1>1, RollbackInit, RollbackStep, PTL DEF Spec

-----------------------------------------------------------------------------
(* remove.  The directory goes first, then the declaration, the lock entry  *)
(* and the provenance; nothing that remove has cleared comes back.         *)

Clearing ==
  op = "remove" =>
    /\ pc \in {"yml", "lock", "prov"} => dirs[arg] = None
    /\ pc \in {"lock", "prov"} => yml[arg] = None
    /\ pc = "prov" => Entry(arg) = None

RemoveInv == TypeInv /\ Clearing /\ RemoveIsComplete

LEMMA RemoveIdle ==
  ASSUME TypeInv', pc' = "idle", op' # "remove" \/ out' # "ok"
  PROVE  RemoveInv'
BY DEF RemoveInv, Clearing, RemoveIsComplete

LEMMA RemoveInit == Init => RemoveInv
<1> SUFFICES ASSUME Init PROVE RemoveInv
  OBVIOUS
<1>1. Clearing /\ RemoveIsComplete
  BY PackLifecycleAssumption DEF Init, Clearing, RemoveIsComplete, Commands
<1> QED BY <1>1, TypeInit DEF RemoveInv

LEMMA RemoveStep == RemoveInv /\ [Next]_vars => RemoveInv'
<1> SUFFICES ASSUME RemoveInv, [Next]_vars PROVE RemoveInv'
  OBVIOUS
<1>t. TypeInv'
  BY TypeStep DEF RemoveInv
<1>n. None \notin Outcomes
  BY PackLifecycleAssumption
<1>1. CASE Start
  <2>1. \/ pc' = "idle" /\ out' \in {"noop", "refused"}
        \/ out' = None /\ Starts
    BY <1>1, StartShape DEF RemoveInv
  <2>2. CASE Starts
    <3>1. (op' = "remove" => pc' = "wipe") /\ pc' # "idle"
      BY <2>2 DEF Starts
    <3> QED BY <1>t, <3>1 DEF RemoveInv, Clearing, RemoveIsComplete, Idle
  <2> QED BY <1>t, <2>1, <2>2, RemoveIdle
<1>2. CASE World
  BY <1>t, <1>n, <1>2, WorldIdle, RemoveIdle DEF Outcomes
<1>3. CASE UNCHANGED vars
  BY <1>t, <1>3 DEF vars, files, RemoveInv, Clearing, RemoveIsComplete, Entry, Idle
<1>4. CASE Crash
  BY <1>t, <1>4, RemoveIdle DEF Crash
<1>5. CASE WriteFails
  BY <1>t, <1>5, RemoveIdle DEF WriteFails, RemoveInv, Clearing, RemoveIsComplete, Idle
<1>6. CASE Step /\ op' # "remove"
  BY <1>t, <1>6 DEF RemoveInv, Clearing, RemoveIsComplete
<1>7. CASE Step /\ op' = "remove"
  <2>1. op = "remove" /\ pc \in {"wipe", "yml", "lock", "prov"}
    BY <1>7 DEF Step, InstallNext, InstallDone, RestoreWipe, RestoreCopy, WipeFile, Wiped, CopyNext, Copied,
       MergeToolConfig, WriteProvenance, WriteYml, WriteLock, EnsureGitignore, UndoYml, UndoLock, UndoProv,
       Goto, Finish, RemoveInv, TypeInv, ControlOK
  <2>2. arg \in Names /\ prov # None /\ prov \in ProvFiles
    BY <2>1 DEF RemoveInv, TypeInv, TypeOK, ControlOK, Controls
  <2>3. WipeFile \/ Wiped \/ WriteProvenance \/ WriteYml \/ WriteLock
    BY <1>7, <2>1 DEF Step, InstallNext, InstallDone, RestoreWipe, RestoreCopy, CopyNext, Copied,
       MergeToolConfig, EnsureGitignore, UndoYml, UndoLock, UndoProv
  <2> USE DEF RemoveInv, Clearing, RemoveIsComplete, Idle, Goto
  <2>4. CASE WipeFile
    BY <1>t, <2>1, <2>4 DEF WipeFile
  <2>5. CASE Wiped
    BY <1>t, <2>1, <2>2, <2>5 DEF Wiped, TypeInv, TypeOK, PackDirs
  <2>6. CASE WriteYml
    BY <1>t, <2>1, <2>2, <2>6 DEF WriteYml, TypeInv, TypeOK, YmlFiles
  <2>7. CASE WriteLock
    <3>1. Entry(arg)' = None /\ pc' = "prov" /\ arg' = arg /\ UNCHANGED <<yml, dirs>> /\ pc = "lock"
      BY <2>1, <2>2, <2>7 DEF WriteLock, Entry, TypeInv, TypeOK, LockFiles
    <3> QED BY <1>t, <2>1, <3>1
  <2>8. CASE WriteProvenance
    <3>1. /\ pc' = "idle" /\ UNCHANGED <<yml, dirs, lock, arg>> /\ pc = "prov"
          /\ prov' = {e \in prov : e.pack # arg}
      BY <2>1, <2>8 DEF WriteProvenance, Finish
    <3>2. Entry(arg)' = Entry(arg)
      BY <3>1 DEF Entry
    <3> QED BY <1>t, <2>1, <3>1, <3>2
  <2> QED BY <2>3, <2>4, <2>5, <2>6, <2>7, <2>8
<1> QED BY <1>1, <1>2, <1>3, <1>4, <1>5, <1>6, <1>7 DEF Next

(* A remove that says it succeeded left no directory, declaration, lock     *)
(* entry or provenance of the pack, whatever earlier crashes, failed       *)
(* writes and hand edits had left, for any packs and disturbances.         *)
THEOREM RemovesAll == Spec => []RemoveIsComplete
<1>1. RemoveInv => RemoveIsComplete
  BY DEF RemoveInv
<1> QED BY <1>1, RemoveInit, RemoveStep, PTL DEF Spec
-----------------------------------------------------------------------------
(* update and upgrade.  The directory is emptied, the release copied file   *)
(* by file, hashed, declared and locked.                                   *)

Replacing == op \in {"update", "upgrade"}

Replaced ==
  Replacing =>
    /\ Busy => cmd.kind = "git"
    /\ pc \in {"wipe", "merge"} => cmd.pos = 0
    /\ pc = "copy" => OrEmpty(dirs[arg]) = Part(cmd.tree, cmd.pos)
    /\ pc \in {"prov", "yml", "lock"} => dirs[arg] = cmd.tree /\ cmd.hash = cmd.tree
    /\ pc = "lock" => yml[arg] = cmd.ver

ReplaceInv == TypeInv /\ CheckedOK /\ Replaced /\ ReplaceHeals

LEMMA ReplaceIdle ==
  ASSUME TypeInv', pc' = "idle", op' \notin {"update", "upgrade"} \/ out' # "ok"
  PROVE  ReplaceInv'
BY DEF ReplaceInv, CheckedOK, Replaced, ReplaceHeals, Busy

LEMMA ReplaceInit == Init => ReplaceInv
<1> SUFFICES ASSUME Init PROVE ReplaceInv
  OBVIOUS
<1>1. Replaced /\ ReplaceHeals
  BY PackLifecycleAssumption DEF Init, Replaced, Replacing, ReplaceHeals, Commands
<1> QED BY <1>1, TypeInit, CheckedInit DEF ReplaceInv

LEMMA ReplaceCopy ==
  ASSUME ReplaceInv, Replacing, CopyNext \/ Copied
  PROVE  Replaced' /\ ReplaceHeals'
<1> USE DEF Replacing, Busy
<1>1. /\ arg \in Names /\ cmd \in CmdRecords /\ dirs \in PackDirs /\ pc = "copy"
      /\ op' = op /\ arg' = arg /\ pc' # "idle" /\ cmd.pos \in 0..FileCount /\ cmd.tree \in Trees
  BY DEF ReplaceInv, TypeInv, TypeOK, ControlOK, CopyNext, Copied, Goto, Controls, CmdRecords
<1>2. OrEmpty(dirs[arg]) = Part(cmd.tree, cmd.pos)
  BY <1>1 DEF ReplaceInv, Replaced
<1>3. CASE CopyNext
  <2>1. cmd.pos \in Nat /\ cmd.pos + 1 \in Files
    BY <1>1, <1>3, PackTreesAssumption DEF CopyNext, Files
  <2>2. pc' = "copy" /\ cmd'.tree = cmd.tree /\ cmd'.pos = cmd.pos + 1 /\ cmd'.kind = cmd.kind
    BY <1>1, <1>3 DEF CopyNext, CmdRecords
  <2>3. dirs'[arg] = Part(cmd.tree, cmd.pos + 1)
    BY <1>1, <1>2, <1>3, <2>1, PartExtends DEF CopyNext, PackDirs
  <2>4. dirs'[arg] # None
    BY <1>1, <2>3, PackTreesAssumption DEF Part, Trees
  <2> QED BY <1>1, <2>2, <2>3, <2>4 DEF ReplaceInv, Replaced, ReplaceHeals, OrEmpty, Idle
<1>4. CASE Copied
  <2>1. OrEmpty(dirs[arg]) = cmd.tree
    BY <1>1, <1>2, <1>4, PartBounds DEF Copied
  <2>2. Checked(cmd, arg) /\ cmd.kind = "git"
    BY <1>1 DEF ReplaceInv, CheckedOK, Installing, Replaced
  <2>3. cmd.tree # EmptyTree
    BY <2>2, PackTreesAssumption DEF Checked, Manifest, EmptyTree
  <2>4. dirs[arg] = cmd.tree
    BY <2>1, <2>3 DEF OrEmpty
  <2>5. cmd'.hash = cmd.tree /\ cmd'.tree = cmd.tree /\ cmd'.kind = cmd.kind /\ cmd'.ver = cmd.ver
    BY <1>1, <1>4, <2>1, <2>2 DEF Copied, CmdRecords, ContentHash, Checked
  <2>6. dirs' = dirs /\ pc' \in {"yml", "prov"}
    BY <1>4 DEF Copied, Goto, files, ReplaceInv, Replacing
  <2> QED BY <1>1, <2>2, <2>4, <2>5, <2>6 DEF Replaced, ReplaceHeals, Idle
<1> QED BY <1>3, <1>4

(* The step that ends a replacement. *)
LEMMA ReplaceLock ==
  ASSUME ReplaceInv, Replacing, WriteLock
  PROVE  Replaced' /\ ReplaceHeals'
<1> USE DEF Replacing, Busy
<1>1. /\ arg \in Names /\ pc = "lock" /\ arg' = arg /\ op' = op /\ dirs' = dirs /\ yml' = yml /\ pc' = "idle"
      /\ lock' = [LockBase EXCEPT ![arg] = NewEntry] /\ NewEntry \in LockEntries
  BY NewEntryType DEF ReplaceInv, TypeInv, TypeOK, ControlOK, WriteLock, Finish, Controls
<1>2. LockBase \in LockFiles
  BY DEF ReplaceInv, TypeInv, TypeOK, LockBase, LockFiles, NoPacks
<1>3. lock' \in LockFiles /\ lock'[arg] = NewEntry
  BY <1>1, <1>2 DEF LockFiles
<1>4. Entry(arg)' = NewEntry /\ NewEntry # None
  BY <1>1, <1>3, PackLifecycleAssumption DEF Entry
<1>5. /\ NewEntry.hash = cmd.hash /\ NewEntry.version = cmd.ver /\ NewEntry.kind = cmd.kind
  BY DEF NewEntry
<1>6. Checked(cmd, arg) /\ cmd.kind = "git" /\ dirs[arg] = cmd.tree /\ cmd.hash = cmd.tree /\ yml[arg] = cmd.ver
  BY <1>1 DEF ReplaceInv, CheckedOK, Installing, Replaced
<1>7. IdentityOK(cmd.tree, cmd.ver) /\ cmd.tree \in ValidTrees
  BY <1>6 DEF Checked
<1>8. (GitEntry(arg) /\ IdentityOK(Entry(arg).hash, Entry(arg).version))'
  BY <1>1, <1>4, <1>5, <1>6, <1>7 DEF GitEntry, IdentityOK
<1> QED BY <1>1, <1>4, <1>5, <1>6, <1>7, <1>8 DEF Replaced, ReplaceHeals

LEMMA ReplaceStep == ReplaceInv /\ [Next]_vars => ReplaceInv'
<1> SUFFICES ASSUME ReplaceInv, [Next]_vars PROVE ReplaceInv'
  OBVIOUS
<1> USE DEF Replacing, Busy
<1>t. TypeInv' /\ CheckedOK'
  BY TypeStep, CheckedStep DEF ReplaceInv
<1>n. None \notin Outcomes
  BY PackLifecycleAssumption
<1>1. CASE Start
  <2>1. \/ pc' = "idle" /\ out' \in {"noop", "refused"}
        \/ out' = None /\ Starts
    BY <1>1, StartShape DEF ReplaceInv
  <2>2. CASE Starts
    <3>1. /\ op' \in {"update", "upgrade"} => pc' \in {"wipe", "merge"} /\ cmd'.pos = 0 /\ cmd'.kind = "git"
          /\ pc' # "idle"
      BY <2>2 DEF Starts
    <3> QED BY <1>t, <3>1 DEF ReplaceInv, Replaced, ReplaceHeals, Idle
  <2> QED BY <1>t, <2>1, <2>2, ReplaceIdle
<1>2. CASE World
  BY <1>t, <1>n, <1>2, WorldIdle, ReplaceIdle DEF Outcomes
<1>3. CASE UNCHANGED vars
  BY <1>t, <1>3 DEF vars, files, ReplaceInv, Replaced, ReplaceHeals, GitEntry, Entry, Idle
<1>4. CASE Crash
  BY <1>t, <1>4, ReplaceIdle DEF Crash
<1>5. CASE WriteFails
  BY <1>t, <1>5, ReplaceIdle DEF WriteFails, ReplaceInv, Replaced, ReplaceHeals, Idle
<1>6. CASE Step /\ op' \notin {"update", "upgrade"}
  BY <1>t, <1>6 DEF ReplaceInv, Replaced, ReplaceHeals
<1>7. CASE Step /\ op' \in {"update", "upgrade"}
  <2>1. op = op' /\ pc # "idle"
    BY <1>7 DEF Step, InstallNext, InstallDone, RestoreWipe, RestoreCopy, WipeFile, Wiped, CopyNext, Copied,
       MergeToolConfig, WriteProvenance, WriteYml, WriteLock, EnsureGitignore, UndoYml, UndoLock, UndoProv,
       Goto, Finish
  <2>2. WipeFile \/ Wiped \/ CopyNext \/ Copied \/ MergeToolConfig \/ WriteProvenance \/ WriteYml \/ WriteLock
    BY <1>7, <2>1 DEF Step, InstallNext, InstallDone, RestoreWipe, RestoreCopy,
       EnsureGitignore, UndoYml, UndoLock, UndoProv, ReplaceInv, TypeInv, ControlOK
  <2>3. arg \in Names /\ cmd \in CmdRecords
    BY <2>2 DEF WipeFile, Wiped, CopyNext, Copied, MergeToolConfig, WriteProvenance, WriteYml, WriteLock,
       ReplaceInv, TypeInv, TypeOK, ControlOK, Controls
  <2> USE DEF ReplaceInv, Replaced, ReplaceHeals, Idle, Goto
  <2>4. CASE WipeFile
    BY <1>t, <1>7, <2>1, <2>4 DEF WipeFile, TypeInv, ControlOK
  <2>5. CASE Wiped
    <3>1. /\ pc = "wipe" /\ pc' = "copy" /\ cmd' = cmd /\ arg' = arg /\ dirs'[arg] = None
      BY <1>7, <2>1, <2>3, <2>5 DEF Wiped, TypeInv, TypeOK, ControlOK, PackDirs
    <3>2. Part(cmd.tree, cmd.pos) = EmptyTree
      BY <1>7, <2>1, <2>3, <3>1, PartBounds DEF CmdRecords
    <3> QED BY <1>t, <1>7, <2>1, <3>1, <3>2 DEF OrEmpty
  <2>6. CASE CopyNext \/ Copied
    BY <1>t, <1>7, <2>1, <2>6, ReplaceCopy
  <2>7. CASE MergeToolConfig
    <3>1. \/ pc' = "idle" /\ out' = "error"
          \/ pc' = "wipe" /\ pc = "merge" /\ \E x : cmd' = [cmd EXCEPT !.merged = x]
      BY <1>7, <2>1, <2>7 DEF MergeToolConfig, Finish
    <3>2. CASE pc' = "idle"
      BY <1>t, <3>1, <3>2, ReplaceIdle
    <3>3. CASE pc' # "idle"
      <4>1. cmd'.pos = cmd.pos /\ cmd'.kind = cmd.kind
        BY <2>3, <3>1, <3>3 DEF CmdRecords
      <4> QED BY <1>t, <1>7, <2>1, <3>1, <3>3, <4>1
    <3> QED BY <3>2, <3>3
  <2>8. CASE WriteProvenance
    BY <1>t, <1>7, <2>1, <2>8 DEF WriteProvenance
  <2>9. CASE WriteYml
    BY <1>t, <1>7, <2>1, <2>3, <2>9 DEF WriteYml, TypeInv, TypeOK, YmlFiles
  <2>10. CASE WriteLock
    BY <1>t, <1>7, <2>1, <2>10, ReplaceLock
  <2> QED BY <2>2, <2>4, <2>5, <2>6, <2>7, <2>8, <2>9, <2>10
<1> QED BY <1>1, <1>2, <1>3, <1>4, <1>5, <1>6, <1>7 DEF Next

(* An update or upgrade that says it succeeded left exactly the validated   *)
(* release in the directory, declared and locked with its hash, whatever   *)
(* crashes, failed writes and edits came before, for any packs, versions,  *)
(* trees and disturbances.                                                 *)
THEOREM ReplaceIsExact == Spec => []ReplaceHeals
<1>1. ReplaceInv => ReplaceHeals
  BY DEF ReplaceInv
<1> QED BY <1>1, ReplaceInit, ReplaceStep, PTL DEF Spec
=============================================================================
