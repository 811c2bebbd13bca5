--------------------------- MODULE PackStoreProofs ---------------------------
(***************************************************************************)
(* Proofs about an undisturbed life cycle of packs: manifest, lock and     *)
(* installed content agree between commands, install restores, what add    *)
(* locked can be restored, and the commands implement PackStore.           *)
(***************************************************************************)
EXTENDS PackLifecycleProofs

(* Nothing is cut short, no branch is switched, no installed file edited. *)
Undisturbed == Quiet /\ "edit_installed" \notin Env

-----------------------------------------------------------------------------
(* Manifest and lock.  They are written one after the other, so they        *)
(* disagree about one pack while its command is between the two writes;    *)
(* add's rollback starts before either.                                    *)

Agree(n) ==
  /\ yml[n] = None <=> Entry(n) = None
  /\ yml[n] = Local => Entry(n).kind = "local"
  /\ yml[n] \in Versions => Entry(n).kind = "git" /\ Entry(n).version = yml[n]

BetweenWrites(n) == n = arg /\ pc = "lock" /\ op # "relock"

YmlFirst ==
  /\ \A n \in Names : ~BetweenWrites(n) => Agree(n)
  /\ BetweenWrites(arg) =>
       yml[arg] = IF op = "remove" THEN None ELSE IF cmd.kind = "local" THEN Local ELSE cmd.ver
  /\ op = "add" /\ pc \in {"merge", "undo_dir", "undo_yml"} => snap.yml = yml

AgreeInv == LockInv /\ CheckedOK /\ YmlFirst

LEMMA AgreeInit == Init => AgreeInv
<1> SUFFICES ASSUME Init PROVE AgreeInv
  OBVIOUS
<1>1. YmlFirst
  BY PackLifecycleAssumption, PackTreesAssumption
  DEF Init, YmlFirst, BetweenWrites, Agree, Entry, NoPacks
<1> QED BY <1>1, LockInit, CheckedInit DEF AgreeInv

(* A step that writes neither file, before or after the two writes. *)
LEMMA AgreeFrame ==
  ASSUME YmlFirst, UNCHANGED <<yml, lock>>, pc # "lock" \/ op = "relock",
         pc' # "lock" \/ op' = "relock",
         op' = "add" /\ pc' \in {"merge", "undo_dir", "undo_yml"} => snap'.yml = yml
  PROVE  YmlFirst'
<1>1. \A n \in Names : Agree(n)
  BY DEF YmlFirst, BetweenWrites
<1>2. \A n \in Names : Agree(n)'
  BY <1>1 DEF Agree, Entry
<1> QED BY <1>2 DEF YmlFirst, BetweenWrites

LEMMA WriteYmlAgree == AgreeInv /\ WriteYml => YmlFirst'
<1> SUFFICES ASSUME AgreeInv, WriteYml PROVE YmlFirst'
  OBVIOUS
<1>1. /\ arg \in Names /\ yml \in YmlFiles /\ pc = "yml" /\ op # "relock"
      /\ UNCHANGED <<lock, op, arg, cmd>> /\ pc' = "lock"
  BY DEF AgreeInv, LockInv, TypeInv, TypeOK, ControlOK, WriteYml, Goto, Controls
<1>2. \A n \in Names \ {arg} : yml'[n] = yml[n]
  BY <1>1 DEF WriteYml, YmlFiles
<1>3. yml'[arg] = IF op = "remove" THEN None ELSE IF cmd.kind = "local" THEN Local ELSE cmd.ver
  BY <1>1 DEF WriteYml, YmlFiles
<1>4. \A n \in Names \ {arg} : Agree(n)
  BY <1>1 DEF AgreeInv, YmlFirst, BetweenWrites
<1>5. \A n \in Names \ {arg} : Agree(n)'
  BY <1>1, <1>2, <1>4 DEF Agree, Entry
<1> QED BY <1>1, <1>3, <1>5 DEF YmlFirst, BetweenWrites

LEMMA WriteLockAgree == AgreeInv /\ WriteLock => YmlFirst'
<1> SUFFICES ASSUME AgreeInv, WriteLock PROVE YmlFirst'
  OBVIOUS
<1>1. /\ arg \in Names /\ pc = "lock" /\ yml' = yml /\ arg' = arg
      /\ op \in {"add", "update", "upgrade", "remove", "relock"} /\ pc' \in {"gitignore", "prov", "idle"}
  BY DEF AgreeInv, LockInv, TypeInv, ControlOK, WriteLock, Goto, Finish, Controls
<1>2. \A n \in Names \ {arg} : Entry(n)' = Entry(n) /\ Agree(n)
  BY <1>1, WriteLockEntries DEF AgreeInv, LockInv, YmlFirst, BetweenWrites
<1>3. \A n \in Names \ {arg} : Agree(n)'
  BY <1>1, <1>2 DEF Agree
<1>4. Agree(arg)'
  <2>1. CASE op = "remove"
    BY <1>1, <2>1, WriteLockEntries, PackLifecycleAssumption, PackTreesAssumption
    DEF AgreeInv, LockInv, YmlFirst, BetweenWrites, Agree
  <2>2. CASE op = "relock"
    <3>1. /\ Agree(arg) /\ Entry(arg) # None /\ Entry(arg) \in LockEntries
          /\ Entry(arg)' = [Entry(arg) EXCEPT !.hash = cmd.hash] /\ cmd.hash \in Trees
      BY <1>1, <2>2, WriteLockEntries, RecordedType
      DEF AgreeInv, LockInv, TypeInv, TypeOK, CmdRecords, YmlFirst, BetweenWrites
    <3>2. /\ Entry(arg)' \in LockEntries /\ Entry(arg)'.kind = Entry(arg).kind
          /\ Entry(arg)'.version = Entry(arg).version
      BY <3>1 DEF LockEntries
    <3>3. Entry(arg)' # None
      BY <3>2, PackLifecycleAssumption
    <3> QED BY <1>1, <3>1, <3>2, <3>3 DEF Agree
  <2>3. CASE op \in {"add", "update", "upgrade"}
    <3>1. /\ Entry(arg)' = NewEntry /\ NewEntry \in LockEntries
          /\ NewEntry.kind = cmd.kind /\ NewEntry.version = cmd.ver
      BY <1>1, <2>3, WriteLockEntries, NewEntryType DEF AgreeInv, LockInv, NewEntry
    <3>2. NewEntry # None
      BY <3>1, PackLifecycleAssumption
    <3>3. yml[arg] = IF cmd.kind = "local" THEN Local ELSE cmd.ver
      BY <1>1, <2>3 DEF AgreeInv, YmlFirst, BetweenWrites
    <3>4. \/ cmd.kind = "git" /\ cmd.ver \in Versions
          \/ cmd.kind = "local"
      BY <1>1, <2>3 DEF AgreeInv, CheckedOK, Installing, Busy, Checked
    <3> QED BY <1>1, <3>1, <3>2, <3>3, <3>4, PackLifecycleAssumption, PackTreesAssumption DEF Agree
  <2> QED BY <1>1, <2>1, <2>2, <2>3
<1> QED BY <1>1, <1>3, <1>4 DEF YmlFirst, BetweenWrites

LEMMA AgreeStep == Quiet /\ AgreeInv /\ [Next]_vars => AgreeInv'
<1> SUFFICES ASSUME Quiet, AgreeInv, [Next]_vars PROVE AgreeInv'
  OBVIOUS
<1>t. LockInv' /\ CheckedOK'
  BY LockStep, CheckedStep DEF AgreeInv, LockInv
<1> SUFFICES YmlFirst'
  BY <1>t DEF AgreeInv
<1>1. CASE Start
  <2>1. /\ pc = "idle" /\ UNCHANGED <<yml, lock>>
        /\ pc' = "idle" \/ Starts
    BY <1>1, StartShape DEF AgreeInv, LockInv, files
  <2>2. /\ pc' # "lock" \/ op' = "relock"
        /\ op' = "add" => pc' \notin {"merge", "undo_dir", "undo_yml"}
    BY <2>1 DEF Starts
  <2> QED BY <2>1, <2>2, AgreeFrame DEF AgreeInv
<1>2. CASE World
  <2>1. UNCHANGED <<yml, lock>>
    BY <1>2 DEF World, EditInstalled, EditSource, Publish, Checkout, FreshClone, Meanwhile, Disturb, Quiet
  <2> QED BY <1>2, <2>1, WorldIdle, AgreeFrame DEF AgreeInv
<1>3. CASE UNCHANGED vars
  BY <1>3 DEF vars, files, AgreeInv, YmlFirst, BetweenWrites, Agree, Entry
<1>4. ~Crash /\ ~WriteFails
  BY DEF Quiet, Crash, WriteFails, Disturb
<1>5. CASE Step
  <2>1. CASE InstallNext \/ InstallDone \/ RestoreWipe \/ RestoreCopy
    BY <2>1, AgreeFrame
    DEF AgreeInv, LockInv, TypeInv, ControlOK, InstallNext, InstallDone, RestoreWipe, RestoreCopy, files, Goto, Finish
  <2>2. CASE WipeFile \/ Wiped
    <3>1. /\ UNCHANGED <<yml, lock, op, snap>> /\ pc \in {"wipe", "undo_dir"}
          /\ pc' \in {"wipe", "undo_dir", "undo_yml", "yml", "copy"}
          /\ pc' \in {"undo_dir", "undo_yml"} => pc = "undo_dir"
      BY <2>2 DEF WipeFile, Wiped, Goto
    <3> QED BY <3>1, AgreeFrame DEF AgreeInv, YmlFirst
  <2>3. CASE CopyNext
    BY <2>3, AgreeFrame DEF AgreeInv, CopyNext
  <2>4. CASE Copied
    <3>1. /\ UNCHANGED <<yml, lock, op>> /\ pc = "copy" /\ pc' \in {"merge", "next", "yml", "prov"}
          /\ op = "add" => snap'.yml = yml
      BY <2>4 DEF AgreeInv, LockInv, TypeInv, ControlOK, Copied, Goto, files, Snapshot
    <3> QED BY <3>1, AgreeFrame DEF AgreeInv
  <2>5. CASE MergeToolConfig
    <3>1. /\ UNCHANGED <<yml, lock>> /\ pc = "merge" /\ pc' \in {"undo_dir", "idle", "prov", "wipe"}
          /\ pc' = "undo_dir" => UNCHANGED <<op, snap>>
      BY <2>5 DEF MergeToolConfig, Goto, Finish
    <3> QED BY <3>1, AgreeFrame DEF AgreeInv, YmlFirst
  <2>6. CASE WriteProvenance \/ EnsureGitignore \/ UndoProv
    <3>1. /\ UNCHANGED <<yml, lock>> /\ pc # "lock" /\ pc' \in {"idle", "yml"}
      BY <2>6 DEF WriteProvenance, EnsureGitignore, UndoProv, Goto, Finish
    <3> QED BY <3>1, AgreeFrame DEF AgreeInv
  <2>7. CASE WriteYml
    BY <2>7, WriteYmlAgree
  <2>8. CASE WriteLock
    BY <2>8, WriteLockAgree
  <2>9. CASE UndoYml \/ UndoLock
    <3>1. /\ op = "add" /\ pc = "undo_yml" => snap.yml = yml
          /\ pc = "undo_lock" => snap.lock = lock
      BY <2>9 DEF AgreeInv, YmlFirst, LockInv, ClearedFirst, TypeInv, ControlOK, UndoYml, UndoLock
    <3>2. UNCHANGED <<yml, lock>> /\ pc \in {"undo_yml", "undo_lock"} /\ pc' \in {"undo_lock", "undo_prov"}
      BY <2>9, <3>1 DEF UndoYml, UndoLock, Goto, AgreeInv, LockInv, TypeInv, ControlOK
    <3> QED BY <3>2, AgreeFrame DEF AgreeInv
  <2> QED BY <1>5, <2>1, <2>2, <2>3, <2>4, <2>5, <2>6, <2>7, <2>8, <2>9 DEF Step
<1> QED BY <1>1, <1>2, <1>3, <1>4, <1>5 DEF Next

(* Between commands backstop.yml and backstop.lock name the same packs, at  *)
(* the same versions and from the same kind of source, for any packs,      *)
(* releases and sequence of commands that are not cut short.  A crash      *)
(* between the two writes, or a branch without them, breaks it.            *)
THEOREM FilesAgree == Quiet /\ Spec => []ManifestLockAgree
<1> SUFFICES ASSUME Quiet PROVE Spec => []ManifestLockAgree
  OBVIOUS
<1>1. AgreeInv /\ [Next]_vars => AgreeInv'
  BY AgreeStep
<1>2. AgreeInv => ManifestLockAgree
  BY DEF AgreeInv, YmlFirst, BetweenWrites, Agree, ManifestLockAgree, Idle
<1> QED BY <1>1, <1>2, AgreeInit, PTL DEF Spec

-----------------------------------------------------------------------------
(* add and the tag it cloned.  The world does not move while add runs, and  *)
(* the entry it locks is the clone it holds.                               *)

JustLocked ==
  pc = "gitignore" =>
    /\ Entry(arg).hash = cmd.tree /\ Entry(arg).kind = cmd.kind
    /\ Entry(arg).coord = cmd.coord /\ Entry(arg).version = cmd.ver

ReproInv == LockInv /\ CheckedOK /\ JustLocked /\ AddIsReproducible

LEMMA ReproInit == Init => ReproInv
<1> SUFFICES ASSUME Init PROVE ReproInv
  OBVIOUS
<1>1. JustLocked /\ AddIsReproducible
  BY PackLifecycleAssumption DEF Init, JustLocked, AddIsReproducible, Commands
<1> QED BY <1>1, LockInit, CheckedInit DEF ReproInv

LEMMA ReproStep == Quiet /\ ReproInv /\ [Next]_vars => ReproInv'
<1> SUFFICES ASSUME Quiet, ReproInv, [Next]_vars PROVE ReproInv'
  OBVIOUS
<1>t. LockInv' /\ CheckedOK'
  BY LockStep, CheckedStep DEF ReproInv, LockInv
<1> SUFFICES JustLocked' /\ AddIsReproducible'
  BY <1>t DEF ReproInv
<1>n. None \notin Outcomes
  BY PackLifecycleAssumption
<1>1. CASE Start
  <2>1. \/ pc' = "idle" /\ out' \in {"noop", "refused"}
        \/ Starts
    BY <1>1, StartShape DEF ReproInv, LockInv
  <2> QED BY <2>1 DEF Starts, JustLocked, AddIsReproducible, Idle
<1>2. CASE World
  BY <1>n, <1>2, WorldIdle DEF JustLocked, AddIsReproducible, Outcomes
<1>3. CASE UNCHANGED vars
  BY <1>3 DEF vars, files, world, ReproInv, JustLocked, AddIsReproducible, GitEntry, Entry, Idle
<1>4. ~Crash /\ ~WriteFails
  BY DEF Quiet, Crash, WriteFails, Disturb
<1>5. CASE WriteLock
  <2>1. CASE op = "add"
    <3>1. /\ Entry(arg)' = NewEntry /\ pc = "lock" /\ pc' = "gitignore" /\ cmd' = cmd
      BY <1>5, <2>1, WriteLockEntries DEF ReproInv, LockInv, WriteLock, Goto
    <3>2. cmd.hash = cmd.tree
      BY <2>1, <3>1 DEF ReproInv, LockInv, HashOfRelease
    <3> QED BY <2>1, <3>1, <3>2 DEF NewEntry, JustLocked, AddIsReproducible, Idle
  <2>2. CASE op # "add"
    BY <1>5, <2>2 DEF WriteLock, Goto, Finish, JustLocked, AddIsReproducible
  <2> QED BY <2>1, <2>2
<1>6. CASE EnsureGitignore
  <2>1. pc = "gitignore" /\ op = "add" /\ pc' = "idle" /\ UNCHANGED <<lock, arg, remote>>
    BY <1>6 DEF EnsureGitignore, Finish, world, ReproInv, LockInv, TypeInv, ControlOK
  <2>2. Checked(cmd, arg) /\ JustLocked
    BY <2>1 DEF ReproInv, CheckedOK, Installing, Busy
  <2>3. Entry(arg)' = Entry(arg)
    BY <2>1 DEF Entry
  <2>4. cmd.kind = "git" => cmd.tree = ContentHash(remote[cmd.coord][cmd.ver])
    BY <2>2 DEF Checked, ContentHash
  <2> QED BY <2>1, <2>2, <2>3, <2>4 DEF JustLocked, AddIsReproducible, GitEntry, ContentHash
<1>7. CASE Step /\ ~WriteLock /\ ~EnsureGitignore
  <2>1. pc' # "gitignore"
    BY <1>7 DEF Step, InstallNext, InstallDone, RestoreWipe, RestoreCopy, WipeFile, Wiped, CopyNext, Copied,
       MergeToolConfig, WriteProvenance, WriteYml, UndoYml, UndoLock, UndoProv, Goto, Finish,
       ReproInv, LockInv, TypeInv, ControlOK
  <2>2. pc' = "idle" /\ op' = "add" => out' # "ok"
    BY <1>7 DEF Step, InstallNext, InstallDone, RestoreWipe, RestoreCopy, WipeFile, Wiped, CopyNext, Copied,
       MergeToolConfig, WriteProvenance, WriteYml, UndoYml, UndoLock, UndoProv, Goto, Finish,
       ReproInv, LockInv, TypeInv, ControlOK
  <2> QED BY <2>1, <2>2 DEF JustLocked, AddIsReproducible, Idle
<1> QED BY <1>1, <1>2, <1>3, <1>4, <1>5, <1>6, <1>7 DEF Next

(* The hash a git pack was just locked with is that of its own tag, for any *)
(* releases and any history of commands that are not cut short: install    *)
(* can restore it.  A file left in the directory by a command that was cut *)
(* short would be hashed too.                                              *)
THEOREM AddReproduces == Quiet /\ Spec => []AddIsReproducible
<1> SUFFICES ASSUME Quiet PROVE Spec => []AddIsReproducible
  OBVIOUS
<1>1. ReproInv /\ [Next]_vars => ReproInv'
  BY ReproStep
<1>2. ReproInv => AddIsReproducible
  BY DEF ReproInv
<1> QED BY <1>1, <1>2, ReproInit, PTL DEF Spec

-----------------------------------------------------------------------------
(* Installed content and lock.  The lock is right about every directory but *)
(* the one the running command works on.                                   *)

Matches(n) == dirs[n] # None => Entry(n) # None /\ Entry(n).hash = ContentHash(dirs[n])

InWork(n) ==
  /\ n = arg
  /\ \/ op = "add" /\ pc \in {"copy", "merge", "prov", "yml", "lock", "undo_dir"}
     \/ op \in {"update", "upgrade"} /\ pc \in {"wipe", "copy", "prov", "yml", "lock"}
     \/ op = "remove" /\ pc = "wipe"
     \/ op = "install" /\ pc = "copy"

OthersMatch == \A n \in Names : ~InWork(n) => Matches(n)

(* Once copied, the release stays in place until it is locked. *)
InPlace ==
  \/ op = "add" /\ pc \in {"merge", "prov", "yml", "lock"}
  \/ op \in {"update", "upgrade"} /\ pc \in {"prov", "yml", "lock"}

ReleaseInPlace == InPlace => dirs[arg] = cmd.tree

(* install copies over what is there: the locked content already, so that   *)
(* nothing changes, or nothing.                                            *)
Overlay ==
  op = "install" /\ pc = "copy" =>
    /\ Entry(arg).hash = cmd.tree /\ cmd.tree = Pristine(cmd.tree)
    /\ \/ dirs[arg] # None /\ ContentHash(dirs[arg]) = cmd.tree
       \/ OrEmpty(dirs[arg]) = Part(cmd.tree, cmd.pos) /\ (cmd.pos > 0 => dirs[arg] # None)

(* What install can roll back to, what relock will lock, and the state in   *)
(* the middle of install's rollback.                                       *)
SnapMatches ==
  op = "install" /\ Busy =>
    \A n \in Names : snap.dirs[n] # None =>
      Entry(n) # None /\ Entry(n).hash = ContentHash(snap.dirs[n])

RelockHash == op = "relock" /\ Busy => dirs[arg] # None /\ cmd.hash = ContentHash(dirs[arg])

WipedAll == pc = "restore_copy" => dirs = NoPacks

(* The packs install is done with. *)
Restored(n) == dirs[n] # None /\ ContentHash(dirs[n]) = Entry(n).hash

InstallSoFar ==
  op = "install" /\ pc \in {"next", "copy"} =>
    \A n \in Names : yml[n] # None /\ n \notin cmd.todo /\ ~InWork(n) => Restored(n)

ContentOK ==
  /\ OthersMatch /\ ReleaseInPlace /\ Overlay /\ SnapMatches /\ RelockHash /\ WipedAll
  /\ InstallSoFar /\ InstallRestores

StoreInv == AgreeInv /\ ContentOK

LEMMA StoreInit == Init => StoreInv
<1> SUFFICES ASSUME Init PROVE StoreInv
  OBVIOUS
<1>1. OthersMatch
  BY DEF Init, OthersMatch, Matches, NoPacks
<1>2. ContentOK
  BY <1>1, PackLifecycleAssumption
  DEF Init, ContentOK, ReleaseInPlace, InPlace, Overlay, SnapMatches, RelockHash, WipedAll,
      InstallSoFar, InstallRestores, Commands, Busy
<1> QED BY <1>2, AgreeInit DEF StoreInv

(* Copying a tree over itself changes nothing. *)
LEMMA CopySame ==
  ASSUME NEW d \in Trees, NEW t \in Trees, Pristine(d) = t, NEW f \in Files
  PROVE  CopyFile(t, d, f) = d
<1>1. t[f] # None => d[f] = t[f]
  BY DEF Pristine
<1> QED BY <1>1 DEF CopyFile, Trees

(* A step that ends a command, or the world between two. *)
LEMMA IdleContent ==
  ASSUME pc' = "idle", \A n \in Names : Matches(n)', op' # "install" \/ out' # "ok"
  PROVE  ContentOK'
BY DEF ContentOK, OthersMatch, ReleaseInPlace, InPlace, Overlay, SnapMatches, RelockHash, WipedAll,
       InstallSoFar, InstallRestores, Busy

LEMMA MatchFrame ==
  ASSUME UNCHANGED <<lock, dirs>>, NEW n \in Names
  PROVE  (Matches(n)' <=> Matches(n)) /\ Entry(n)' = Entry(n)
BY DEF Matches, Entry

LEMMA StartContent ==
  ASSUME StoreInv, Start
  PROVE  ContentOK'
<1>1. /\ pc = "idle" /\ UNCHANGED <<yml, lock, dirs>>
      /\ \/ pc' = "idle" /\ out' \in {"noop", "refused"}
         \/ Starts
  BY StartShape DEF StoreInv, AgreeInv, LockInv, files
<1>2. \A n \in Names : Matches(n)
  BY <1>1 DEF StoreInv, ContentOK, OthersMatch, InWork
<1>3. \A n \in Names : Matches(n)'
  BY <1>1, <1>2, MatchFrame
<1>4. CASE pc' = "idle"
  BY <1>1, <1>3, <1>4, IdleContent DEF Starts
<1>5. CASE Starts
  <2>1. /\ pc' \in {"copy", "wipe", "merge", "lock", "next"}
        /\ op' \in {"add", "update", "upgrade", "remove", "relock", "install"}
        /\ op' = "install" => pc' = "next" /\ snap' = Snapshot /\ cmd'.todo = {n \in Names : yml[n] # None}
        /\ op' = "relock" => Relockable(arg') /\ cmd'.hash = ContentHash(dirs[arg'])
        /\ op' = "add" => pc' = "copy"
        /\ op' \in {"update", "upgrade"} => pc' \in {"wipe", "merge"}
    BY <1>5 DEF Starts
  <2>2. (OthersMatch /\ ReleaseInPlace /\ Overlay /\ WipedAll)'
    BY <1>3, <2>1 DEF OthersMatch, ReleaseInPlace, InPlace, Overlay, WipedAll
  <2>3. SnapMatches'
    BY <1>1, <1>2, <2>1, MatchFrame DEF SnapMatches, Snapshot, Matches
  <2>4. RelockHash'
    BY <1>1, <2>1 DEF RelockHash, Relockable
  <2>5. (InstallSoFar /\ InstallRestores)'
    BY <1>1, <2>1 DEF InstallSoFar, InstallRestores, Idle
  <2> QED BY <2>2, <2>3, <2>4, <2>5 DEF ContentOK
<1> QED BY <1>1, <1>4, <1>5

LEMMA WorldContent ==
  ASSUME Undisturbed, StoreInv, World
  PROVE  ContentOK'
<1>1. /\ pc = "idle" /\ pc' = "idle" /\ out' = None /\ lock' = lock
      /\ dirs' = dirs \/ dirs' = NoPacks
  BY WorldIdle DEF World, EditInstalled, EditSource, Publish, Checkout, FreshClone, Meanwhile, Disturb,
     Undisturbed, Quiet
<1>2. \A n \in Names : Matches(n)
  BY <1>1 DEF StoreInv, ContentOK, OthersMatch, InWork
<1>3. \A n \in Names : Matches(n)'
  BY <1>1, <1>2 DEF Matches, Entry, NoPacks
<1>4. out' # "ok"
  BY <1>1, PackLifecycleAssumption DEF Outcomes
<1> QED BY <1>1, <1>3, <1>4, IdleContent

LEMMA InstallNextContent ==
  ASSUME StoreInv, InstallNext
  PROVE  ContentOK'
<1> USE DEF StoreInv, ContentOK
<1>1. /\ cmd \in CmdRecords /\ pc = "next" /\ op = "install" /\ op' = "install" /\ lock # None
      /\ UNCHANGED <<yml, lock, dirs, snap>> /\ TypeOK
  BY DEF AgreeInv, LockInv, TypeInv, TypeOK, ControlOK, InstallNext, files, Busy
<1>2. PICK n \in cmd.todo :
        /\ arg' = n
        /\ \/ /\ lock[n] = None
              /\ pc' = "next"
              /\ cmd' = [cmd EXCEPT !.todo = @ \ {n}]
           \/ /\ lock[n] # None /\ Locked(n) # None
              /\ pc' = "copy"
              /\ cmd' = [cmd EXCEPT !.todo = @ \ {n}, !.tree = Locked(n), !.pos = 0]
           \/ /\ pc' = "restore_wipe"
              /\ cmd' = cmd
  BY DEF InstallNext
<1>3. n \in Names /\ (pc' # "restore_wipe" => cmd'.todo = cmd.todo \ {n})
  BY <1>1, <1>2 DEF CmdRecords
<1>4. \A m \in Names : Matches(m) /\ Matches(m)' /\ Entry(m)' = Entry(m)
  <2>1. \A m \in Names : Matches(m)
    BY <1>1 DEF OthersMatch, InWork
  <2> QED BY <1>1, <2>1, MatchFrame
<1>5. (OthersMatch /\ ReleaseInPlace /\ SnapMatches /\ RelockHash /\ WipedAll /\ InstallRestores)'
  BY <1>1, <1>2, <1>4
  DEF OthersMatch, ReleaseInPlace, InPlace, SnapMatches, RelockHash, WipedAll, InstallRestores, Busy, Idle
<1>6. Overlay'
  <2> SUFFICES ASSUME pc' = "copy"
               PROVE  /\ Entry(n).hash = cmd'.tree /\ cmd'.tree = Pristine(cmd'.tree)
                      /\ \/ dirs[n] # None /\ ContentHash(dirs[n]) = cmd'.tree
                         \/ OrEmpty(dirs[n]) = Part(cmd'.tree, cmd'.pos) /\ cmd'.pos = 0
    BY <1>1, <1>2, <1>4, <1>3 DEF Overlay
  <2>1. lock[n] # None /\ Locked(n) # None /\ cmd'.tree = Locked(n) /\ cmd'.pos = 0 /\ Entry(n) = lock[n]
    BY <1>1, <1>2 DEF CmdRecords, Entry
  <2>2. PICK t \in Trees : ContentHash(t) = lock[n].hash /\ Locked(n) = Pristine(t)
    <3>1. lock[n] \in LockEntries /\ CoordinateFor(n) \in Coords
      BY <1>1, <1>3, <2>1, RecordedType DEF TypeOK, LockFiles
    <3> DEFINE e == lock[n]
               t == IF e.kind = "local"
                    THEN IF e.path = None THEN None ELSE source[e.path]
                    ELSE IF e.version = None THEN None ELSE remote[CoordinateFor(n)][e.version]
    <3>2. t \in Trees \union {None}
      BY <1>1, <3>1 DEF TypeOK, LockEntries
    <3>3. Locked(n) = IF t = None THEN None ELSE IF ContentHash(t) # e.hash THEN None ELSE Pristine(t)
      BY DEF Locked
    <3> QED BY <2>1, <3>2, <3>3
  <2>3. Entry(n).hash = cmd'.tree /\ cmd'.tree = Pristine(cmd'.tree) /\ cmd'.tree \in Trees
    BY <2>1, <2>2, PristineManifest, TreeTypes DEF ContentHash
  <2>4. CASE dirs[n] # None
    BY <1>3, <1>4, <2>3, <2>4 DEF Matches
  <2>5. CASE dirs[n] = None
    BY <2>1, <2>3, <2>5, PartBounds DEF OrEmpty
  <2> QED BY <2>3, <2>4, <2>5
<1>7. InstallSoFar'
  <2> SUFFICES ASSUME pc' \in {"next", "copy"}, NEW m \in Names, yml[m] # None, m \notin cmd'.todo, ~InWork(m)'
               PROVE  Restored(m)'
    BY <1>1 DEF InstallSoFar
  <2>1. m # n
    <3>1. CASE pc' = "copy"
      BY <1>1, <1>2, <3>1 DEF InWork
    <3>2. CASE pc' = "next"
      <4>1. Agree(n) /\ Entry(n) = None
        BY <1>1, <1>2, <1>3, <3>2 DEF AgreeInv, YmlFirst, BetweenWrites, Entry
      <4> QED BY <4>1 DEF Agree
    <3> QED BY <3>1, <3>2
  <2>2. m \notin cmd.todo
    BY <1>3, <2>1
  <2>3. Restored(m)
    BY <1>1, <2>2 DEF InstallSoFar, InWork
  <2> QED BY <1>1, <1>4, <2>3 DEF Restored
<1> QED BY <1>5, <1>6, <1>7

(* A successful install ends with every declared pack in place. *)
LEMMA InstallDoneContent ==
  ASSUME StoreInv, InstallDone
  PROVE  ContentOK'
<1> USE DEF StoreInv, ContentOK
<1>1. /\ pc = "next" /\ op = "install" /\ op' = "install" /\ pc' = "idle" /\ lock # None
      /\ cmd.todo = {} /\ UNCHANGED <<yml, lock, dirs>>
  BY DEF AgreeInv, LockInv, TypeInv, ControlOK, InstallDone, Finish, files, Busy
<1>2. \A n \in Names : Matches(n) /\ Agree(n) /\ (yml[n] # None => Restored(n))
  BY <1>1 DEF OthersMatch, InWork, AgreeInv, YmlFirst, BetweenWrites, InstallSoFar
<1>3. \A n \in Names : Matches(n)' /\ Entry(n)' = Entry(n)
  BY <1>1, <1>2, MatchFrame
<1>4. \A n \in Names : ~MissingPack(n) /\ ~HashMismatch(n) /\ ~ExtraUnlocked(n)
  BY <1>1, <1>2 DEF MissingPack, HashMismatch, ExtraUnlocked, Matches, Agree, Restored, Entry
<1>5. VerifyLock'
  BY <1>1, <1>3, <1>4 DEF VerifyLock, MissingPack, HashMismatch, ExtraUnlocked
<1>6. InstallRestores'
  BY <1>1, <1>2, <1>3, <1>5 DEF InstallRestores, Restored
<1> QED BY <1>1, <1>3, <1>6
     DEF OthersMatch, ReleaseInPlace, InPlace, Overlay, SnapMatches, RelockHash, WipedAll, InstallSoFar, Busy

LEMMA RestoreContent ==
  ASSUME StoreInv, RestoreWipe \/ RestoreCopy
  PROVE  ContentOK'
<1> USE DEF StoreInv, ContentOK
<1>1. op = "install" /\ op' = "install" /\ lock' = lock /\ Busy /\ pc \in {"restore_wipe", "restore_copy"}
  BY DEF AgreeInv, LockInv, TypeInv, ControlOK, RestoreWipe, RestoreCopy, Goto, Finish, Busy
<1>2. \A n \in Names : Entry(n)' = Entry(n)
  BY <1>1 DEF Entry
<1>3. CASE RestoreWipe
  <2>1. pc' = "restore_copy" /\ dirs' = NoPacks /\ snap' = snap
    BY <1>3 DEF RestoreWipe, Goto
  <2>2. OthersMatch'
    BY <2>1 DEF OthersMatch, Matches, NoPacks
  <2>3. SnapMatches'
    BY <1>1, <1>2, <2>1 DEF SnapMatches
  <2> QED BY <1>1, <2>1, <2>2, <2>3
       DEF ReleaseInPlace, InPlace, Overlay, RelockHash, WipedAll, InstallSoFar, InstallRestores, Idle
<1>4. CASE RestoreCopy
  <2>1. pc' = "idle" /\ out' = "rolledback" /\ dirs' = snap.dirs
    BY <1>4 DEF RestoreCopy, Finish
  <2>2. \A n \in Names : Matches(n)'
    BY <1>1, <1>2, <2>1 DEF SnapMatches, Matches
  <2> QED BY <2>1, <2>2, IdleContent
<1> QED BY <1>3, <1>4

LEMMA WipeContent ==
  ASSUME StoreInv, WipeFile \/ Wiped
  PROVE  ContentOK'
<1> USE DEF StoreInv, ContentOK
<1>1. /\ arg \in Names /\ dirs \in PackDirs /\ UNCHANGED <<lock, op, arg, cmd, snap>>
      /\ \/ pc = "undo_dir" /\ op = "add" /\ pc' \in {"undo_dir", "undo_yml"}
         \/ pc = "wipe" /\ op = "remove" /\ pc' \in {"wipe", "yml"}
         \/ pc = "wipe" /\ op \in {"update", "upgrade"} /\ pc' \in {"wipe", "copy"}
      /\ \A n \in Names \ {arg} : dirs'[n] = dirs[n]
      /\ pc' # pc => dirs'[arg] = None
  BY DEF AgreeInv, LockInv, TypeInv, TypeOK, ControlOK, WipeFile, Wiped, Goto, Controls, PackDirs
<1>2. \A n \in Names : Entry(n)' = Entry(n)
  BY <1>1 DEF Entry
<1>3. OthersMatch'
  <2>1. \A n \in Names \ {arg} : Matches(n)'
    BY <1>1, <1>2 DEF OthersMatch, InWork, Matches
  <2>2. pc' # pc => Matches(arg)'
    BY <1>1 DEF Matches
  <2>3. pc' = pc => InWork(arg)'
    BY <1>1 DEF InWork
  <2> QED BY <1>1, <2>1, <2>2, <2>3 DEF OthersMatch
<1> QED BY <1>1, <1>3
     DEF ReleaseInPlace, InPlace, Overlay, SnapMatches, RelockHash, WipedAll, InstallSoFar, InstallRestores, Idle

LEMMA CopyNextContent ==
  ASSUME StoreInv, CopyNext
  PROVE  ContentOK'
<1> USE DEF StoreInv, ContentOK
<1>1. /\ arg \in Names /\ dirs \in PackDirs /\ cmd \in CmdRecords /\ UNCHANGED <<yml, lock, op, arg, pc, snap>>
      /\ pc = "copy" /\ op \in {"add", "install", "update", "upgrade"}
      /\ \A n \in Names \ {arg} : dirs'[n] = dirs[n]
      /\ dirs'[arg] = CopyFile(cmd.tree, OrEmpty(dirs[arg]), cmd.pos + 1)
  BY DEF AgreeInv, LockInv, TypeInv, TypeOK, ControlOK, CopyNext, Controls, PackDirs
<1>2. \A n \in Names : Entry(n)' = Entry(n)
  BY <1>1 DEF Entry
<1>3. /\ cmd'.tree = cmd.tree /\ cmd'.pos = cmd.pos + 1 /\ cmd'.todo = cmd.todo /\ cmd.tree \in Trees
      /\ cmd.pos \in Nat /\ cmd.pos + 1 \in Files
  BY <1>1, PackTreesAssumption DEF CopyNext, CmdRecords, Files
<1>4. OthersMatch'
  BY <1>1, <1>2 DEF OthersMatch, InWork, Matches
<1>5. Overlay'
  <2> SUFFICES ASSUME op = "install"
               PROVE  /\ Entry(arg).hash = cmd.tree /\ cmd.tree = Pristine(cmd.tree)
                      /\ dirs'[arg] # None
                      /\ \/ ContentHash(dirs'[arg]) = cmd.tree
                         \/ OrEmpty(dirs'[arg]) = Part(cmd.tree, cmd.pos + 1)
    BY <1>1, <1>2, <1>3 DEF Overlay
  <2>1. Overlay /\ dirs[arg] \in Trees \union {None}
    BY <1>1 DEF PackDirs
  <2>2. CASE dirs[arg] # None /\ ContentHash(dirs[arg]) = cmd.tree
    <3>1. CopyFile(cmd.tree, dirs[arg], cmd.pos + 1) = dirs[arg]
      BY <1>3, <2>1, <2>2, CopySame DEF ContentHash
    <3> QED BY <1>1, <2>1, <2>2, <3>1 DEF Overlay, OrEmpty
  <2>3. CASE OrEmpty(dirs[arg]) = Part(cmd.tree, cmd.pos)
    <3>1. dirs'[arg] = Part(cmd.tree, cmd.pos + 1)
      BY <1>1, <1>3, <2>3, PartExtends
    <3>2. dirs'[arg] # None
      BY <1>3, <3>1, PackTreesAssumption DEF Part, Trees
    <3> QED BY <1>1, <2>1, <3>1, <3>2 DEF Overlay, OrEmpty
  <2> QED BY <1>1, <2>1, <2>2, <2>3 DEF Overlay
<1>6. InstallSoFar'
  BY <1>1, <1>2, <1>3 DEF InstallSoFar, InWork, Restored
<1>7. SnapMatches'
  BY <1>1, <1>2 DEF SnapMatches, Busy
<1> QED BY <1>1, <1>4, <1>5, <1>6, <1>7 DEF ReleaseInPlace, InPlace, RelockHash, WipedAll, InstallRestores, Idle

(* The copy is complete: the release, or the locked content, is in place. *)
LEMMA CopiedContent ==
  ASSUME StoreInv, Copied
  PROVE  ContentOK'
<1> USE DEF StoreInv, ContentOK
<1>1. /\ arg \in Names /\ dirs \in PackDirs /\ cmd \in CmdRecords /\ UNCHANGED <<yml, lock, dirs, op, arg>>
      /\ pc = "copy" /\ cmd.pos = FileCount /\ cmd.tree \in Trees
      /\ \/ op = "add" /\ pc' = "merge"
         \/ op = "install" /\ pc' = "next" /\ snap' = snap
         \/ op = "update" /\ pc' = "yml"
         \/ op = "upgrade" /\ pc' = "prov"
  BY DEF AgreeInv, LockInv, TypeInv, TypeOK, ControlOK, Copied, Goto, files, Controls, CmdRecords
<1>2. \A n \in Names : Entry(n)' = Entry(n)
  BY <1>1 DEF Entry
<1>3. cmd'.tree = cmd.tree /\ cmd'.todo = cmd.todo
  BY <1>1 DEF Copied, CmdRecords
<1>4. FileCount > 0
  BY PackTreesAssumption DEF Files
<1>5. op = "install" => Restored(arg)
  <2> SUFFICES ASSUME op = "install" PROVE Restored(arg)
    OBVIOUS
  <2>1. OrEmpty(dirs[arg]) = Part(cmd.tree, cmd.pos) => OrEmpty(dirs[arg]) = cmd.tree
    BY <1>1, PartBounds
  <2> QED BY <1>1, <1>4, <2>1 DEF Overlay, OrEmpty, Restored, ContentHash
<1>6. OthersMatch'
  <2>1. \A n \in Names \ {arg} : Matches(n)'
    BY <1>1, <1>2 DEF OthersMatch, InWork, Matches
  <2>2. op = "install" => Matches(arg)'
    BY <1>1, <1>2, <1>5 DEF Matches, Restored, AgreeInv, LockInv, ClearedFirst
  <2>3. op # "install" => InWork(arg)'
    BY <1>1 DEF InWork
  <2> QED BY <1>1, <2>1, <2>2, <2>3 DEF OthersMatch
<1>7. ReleaseInPlace'
  <2> SUFFICES ASSUME op \in {"add", "update", "upgrade"} PROVE dirs[arg] = cmd.tree
    BY <1>1, <1>3 DEF ReleaseInPlace, InPlace
  <2>1. OrEmpty(dirs[arg]) = cmd.tree
    BY <1>1, PartBounds DEF AgreeInv, LockInv, CopiedSoFar, Installing
  <2>2. cmd.tree # EmptyTree
    <3>1. Checked(cmd, arg)
      BY <1>1 DEF AgreeInv, CheckedOK, Installing, Busy
    <3> QED BY <3>1, PackTreesAssumption DEF Checked, Manifest, EmptyTree
  <2> QED BY <2>1, <2>2 DEF OrEmpty
<1>8. InstallSoFar'
  BY <1>1, <1>2, <1>3, <1>5 DEF InstallSoFar, InWork, Restored
<1>9. SnapMatches'
  BY <1>1, <1>2 DEF SnapMatches, Busy
<1> QED BY <1>1, <1>6, <1>7, <1>8, <1>9 DEF Overlay, RelockHash, WipedAll, InstallRestores, Idle

(* The writes of files other than the lock, and the rollback of add, change *)
(* neither directories nor, as it turns out, the lock.                     *)
LEMMA FilesContent ==
  ASSUME StoreInv,
         MergeToolConfig \/ WriteProvenance \/ WriteYml \/ EnsureGitignore \/ UndoYml \/ UndoLock \/ UndoProv
  PROVE  ContentOK'
<1> USE DEF StoreInv, ContentOK
<1>1. /\ UNCHANGED <<lock, dirs>> /\ cmd \in CmdRecords
  BY DEF AgreeInv, LockInv, ClearedFirst, TypeInv, TypeOK, ControlOK, MergeToolConfig, WriteProvenance, WriteYml,
     EnsureGitignore, UndoYml, UndoLock, UndoProv
<1>2. /\ op \in {"add", "update", "upgrade", "remove"} /\ op' = op /\ arg' = arg
      /\ \/ pc = "merge" /\ op = "add" /\ pc' \in {"undo_dir", "prov"}
         \/ pc = "merge" /\ op = "upgrade" /\ pc' \in {"idle", "wipe"}
         \/ pc = "prov" /\ op = "remove" /\ pc' = "idle"
         \/ pc = "prov" /\ op \in {"add", "upgrade"} /\ pc' = "yml"
         \/ pc = "yml" /\ pc' = "lock"
         \/ pc = "gitignore" /\ pc' = "idle"
         \/ pc \in {"undo_yml", "undo_lock", "undo_prov"} /\ pc' \in {"undo_lock", "undo_prov", "idle"}
  BY DEF AgreeInv, LockInv, TypeInv, ControlOK, MergeToolConfig, WriteProvenance, WriteYml,
     EnsureGitignore, UndoYml, UndoLock, UndoProv, Goto, Finish
<1>3. pc' # "idle" => cmd'.tree = cmd.tree
  <2>1. pc' # "idle" => cmd' = cmd \/ \E x : cmd' = [cmd EXCEPT !.merged = x]
    BY DEF MergeToolConfig, WriteProvenance, WriteYml, EnsureGitignore, UndoYml, UndoLock, UndoProv, Finish, Goto
  <2> QED BY <1>1, <2>1 DEF CmdRecords
<1>4. OthersMatch'
  <2>1. \A n \in Names : InWork(n) => InWork(n)'
    BY <1>2 DEF InWork
  <2> QED BY <1>1, <2>1, MatchFrame DEF OthersMatch
<1>5. ReleaseInPlace'
  BY <1>1, <1>2, <1>3 DEF ReleaseInPlace, InPlace
<1> QED BY <1>2, <1>4, <1>5
     DEF Overlay, SnapMatches, RelockHash, WipedAll, InstallSoFar, InstallRestores, Idle

LEMMA WriteLockContent ==
  ASSUME StoreInv, WriteLock
  PROVE  ContentOK'
<1> USE DEF StoreInv, ContentOK
<1>1. /\ arg \in Names /\ pc = "lock" /\ dirs' = dirs /\ arg' = arg /\ op' = op
      /\ op \in {"add", "update", "upgrade", "remove", "relock"}
      /\ pc' = IF op = "add" THEN "gitignore" ELSE IF op = "remove" THEN "prov" ELSE "idle"
  BY DEF AgreeInv, LockInv, TypeInv, ControlOK, WriteLock, Goto, Finish, Controls
<1>2. \A n \in Names \ {arg} : Matches(n)'
  BY <1>1, WriteLockEntries DEF AgreeInv, LockInv, OthersMatch, InWork, Matches
<1>3. Matches(arg)'
  <2>1. CASE op \in {"add", "update", "upgrade"}
    <3>1. Entry(arg)' = NewEntry /\ NewEntry \in LockEntries /\ NewEntry.hash = cmd.hash
      BY <1>1, <2>1, WriteLockEntries, NewEntryType DEF AgreeInv, LockInv, NewEntry
    <3>2. cmd.hash = cmd.tree /\ cmd.tree = Pristine(cmd.tree)
      BY <1>1, <2>1 DEF AgreeInv, LockInv, HashOfRelease, Release, Installing, Busy
    <3>3. dirs[arg] = cmd.tree
      BY <1>1, <2>1 DEF ReleaseInPlace, InPlace
    <3> QED BY <1>1, <3>1, <3>2, <3>3, PackLifecycleAssumption DEF Matches, ContentHash
  <2>2. CASE op = "remove"
    BY <1>1, <2>2 DEF AgreeInv, LockInv, ClearedFirst, Matches
  <2>3. CASE op = "relock"
    <3>1. /\ Entry(arg) \in LockEntries /\ cmd.hash \in Trees
          /\ Entry(arg)' = [Entry(arg) EXCEPT !.hash = cmd.hash]
      BY <1>1, <2>3, WriteLockEntries, RecordedType DEF AgreeInv, LockInv, TypeInv, TypeOK, CmdRecords
    <3>2. Entry(arg)' \in LockEntries /\ Entry(arg)'.hash = cmd.hash
      BY <3>1 DEF LockEntries
    <3>3. cmd.hash = ContentHash(dirs[arg])
      BY <1>1, <2>3 DEF RelockHash, Busy
    <3> QED BY <1>1, <3>2, <3>3, PackLifecycleAssumption DEF Matches
  <2> QED BY <1>1, <2>1, <2>2, <2>3
<1>4. OthersMatch'
  BY <1>2, <1>3, <1>1 DEF OthersMatch
<1> QED BY <1>1, <1>4
     DEF ReleaseInPlace, InPlace, Overlay, SnapMatches, RelockHash, WipedAll, InstallSoFar, InstallRestores,
         Busy, Idle

LEMMA StoreStep == Undisturbed /\ StoreInv /\ [Next]_vars => StoreInv'
<1> SUFFICES ASSUME Undisturbed, StoreInv, [Next]_vars PROVE StoreInv'
  OBVIOUS
<1>1. AgreeInv'
  BY AgreeStep DEF StoreInv, Undisturbed
<1>2. CASE Start
  BY <1>1, <1>2, StartContent DEF StoreInv
<1>3. CASE Step
  BY <1>1, <1>3, InstallNextContent, InstallDoneContent, RestoreContent, WipeContent, CopyNextContent,
     CopiedContent, FilesContent, WriteLockContent DEF Step, StoreInv
<1>4. CASE World
  BY <1>1, <1>4, WorldContent DEF StoreInv
<1>5. ~Crash /\ ~WriteFails
  BY DEF Undisturbed, Quiet, Crash, WriteFails, Disturb
<1>6. CASE UNCHANGED vars
  <2>1. ContentOK'
    BY <1>6 DEF vars, files, StoreInv, ContentOK, OthersMatch, InWork, Matches, ReleaseInPlace, InPlace, Overlay,
       SnapMatches, RelockHash, WipedAll, InstallSoFar, Restored, InstallRestores, VerifyLock, MissingPack,
       HashMismatch, ExtraUnlocked, Entry, Busy, Idle
  <2> QED BY <1>1, <2>1 DEF StoreInv
<1> QED BY <1>2, <1>3, <1>4, <1>5, <1>6 DEF Next

(* Between commands what is installed is locked with its hash, local packs  *)
(* too, for any packs, releases and commands: the gate's lock verification *)
(* can only miss what a fresh clone has not installed.  An edited file, a  *)
(* command cut short or a switched branch breaks it.                       *)
THEOREM ContentIsLocked == Undisturbed /\ Spec => []NoDrift
<1> SUFFICES ASSUME Undisturbed PROVE Spec => []NoDrift
  OBVIOUS
<1>1. StoreInv /\ [Next]_vars => StoreInv'
  BY StoreStep
<1>2. StoreInv => NoDrift
  BY DEF StoreInv, ContentOK, OthersMatch, InWork, Matches, NoDrift, Idle
<1> QED BY <1>1, <1>2, StoreInit, PTL DEF Spec

(* After an install that reports success the gate's lock verification is    *)
(* green and every declared pack is there with its locked content, for any *)
(* packs and releases: install copies over what is there, and what is      *)
(* there is the locked content or nothing.                                 *)
THEOREM InstallIsComplete == Undisturbed /\ Spec => []InstallRestores
<1> SUFFICES ASSUME Undisturbed PROVE Spec => []InstallRestores
  OBVIOUS
<1>1. StoreInv /\ [Next]_vars => StoreInv'
  BY StoreStep
<1>2. StoreInv => InstallRestores
  BY DEF StoreInv, ContentOK
<1> QED BY <1>1, <1>2, StoreInit, PTL DEF Spec

-----------------------------------------------------------------------------
(* The commands implement the store of pins.  Every write is a step of the  *)
(* store: a lock write pins or unpins, a directory write loses or restores *)
(* content, and everything else is invisible.                              *)

LEMMA PinsOf ==
  ASSUME TypeInv, NEW n \in Names
  PROVE  /\ Pins[n] = None <=> Entry(n) = None
         /\ Entry(n) # None => Pins[n] = [name |-> n, version |-> Entry(n).version, hash |-> Entry(n).hash]
<1>1. Entry(n) # None => [name |-> n, version |-> Entry(n).version, hash |-> Entry(n).hash] \in PinRecords
  BY RecordedType DEF TypeInv, LockEntries, PinRecords
<1> QED BY <1>1, PackLifecycleAssumption DEF Pins

LEMMA PinsFrame ==
  ASSUME lock' = lock
  PROVE  Pins' = Pins /\ \A n \in Names : Entry(n)' = Entry(n)
BY DEF Pins, Entry

(* With the lock as it was, a step that loses no content or gains none. *)
LEMMA ContentRefines ==
  ASSUME TypeInv, lock' = lock,
         IntactPacks' \subseteq IntactPacks \/ IntactPacks \subseteq IntactPacks'
  PROVE  Store!Lose \/ Store!Restore
<1>1. Pins' = Pins /\ \A n \in Names : Entry(n)' = Entry(n)
  BY PinsFrame
<1>2. IntactPacks' \subseteq {n \in Names : Pins[n] # None}
  BY <1>1, PinsOf DEF IntactPacks
<1> QED BY <1>1, <1>2 DEF Store!Lose, Store!Restore

(* A directory at a time. *)
LEMMA OneDirRefines ==
  ASSUME TypeInv, lock' = lock, NEW m, \A n \in Names \ {m} : dirs'[n] = dirs[n]
  PROVE  Store!Lose \/ Store!Restore
<1>1. \A n \in Names : Entry(n)' = Entry(n)
  BY PinsFrame
<1>2. \A n \in Names \ {m} : n \in IntactPacks <=> n \in IntactPacks'
  BY <1>1 DEF IntactPacks
<1>3. IntactPacks \subseteq Names /\ IntactPacks' \subseteq Names
  BY DEF IntactPacks
<1>4. IntactPacks' \subseteq IntactPacks \/ IntactPacks \subseteq IntactPacks'
  BY <1>2, <1>3
<1> QED BY <1>4, ContentRefines

LEMMA WriteLockRefines ==
  ASSUME StoreInv, WriteLock
  PROVE  [Store!Next]_(Store!storeVars)
<1> USE DEF StoreInv, AgreeInv, LockInv, ContentOK
<1>1. /\ arg \in Names /\ pc = "lock" /\ dirs' = dirs /\ arg' = arg /\ cmd \in CmdRecords
      /\ op \in {"add", "update", "upgrade", "remove", "relock"}
      /\ \A n \in Names \ {arg} : Entry(n)' = Entry(n)
      /\ TypeInv /\ TypeInv'
  BY WriteLockEntries, WriteLockType
  DEF TypeInv, TypeOK, ControlOK, WriteLock, Goto, Finish, Controls
<1>2. \A n \in Names \ {arg} : Pins'[n] = Pins[n] /\ (n \in IntactPacks' <=> n \in IntactPacks)
  BY <1>1 DEF Pins, IntactPacks
<1>3. Pins = [n \in Names |-> Pins[n]] /\ Pins' = [n \in Names |-> Pins'[n]]
  BY DEF Pins
<1>4. Pins' = [Pins EXCEPT ![arg] = Pins'[arg]]
  BY <1>1, <1>2, <1>3
<1>5. IntactPacks \subseteq Names /\ IntactPacks' \subseteq Names
  BY DEF IntactPacks
<1>6. CASE op \in {"add", "update", "upgrade"}
  <2>1. /\ Entry(arg)' = NewEntry /\ NewEntry \in LockEntries
        /\ NewEntry.hash = cmd.hash /\ NewEntry.version = cmd.ver
    BY <1>1, <1>6, WriteLockEntries, NewEntryType DEF NewEntry
  <2>2. NewEntry # None
    BY <2>1, PackLifecycleAssumption
  <2>3. cmd.hash = cmd.tree /\ dirs[arg] = cmd.tree /\ Checked(cmd, arg)
    BY <1>1, <1>6 DEF HashOfRelease, ReleaseInPlace, InPlace, CheckedOK, Installing, Busy
  <2>4. dirs[arg] # None
    BY <1>1, <2>3, PackTreesAssumption DEF CmdRecords
  <2> DEFINE r == [name |-> arg, version |-> cmd.ver, hash |-> cmd.tree]
  <2>5. Pins'[arg] = r
    BY <1>1, <2>1, <2>2, <2>3 DEF Pins
  <2>6. r \in Releases /\ r.name = arg
    BY <1>1, <2>3 DEF Releases, Checked, CmdRecords
  <2>7. arg \in IntactPacks'
    BY <1>1, <2>1, <2>2, <2>3, <2>4 DEF IntactPacks, Checked, ContentHash
  <2>8. IntactPacks' = IntactPacks \union {arg}
    BY <1>1, <1>2, <1>5, <2>7
  <2> HIDE DEF r
  <2>9. Store!Pin(arg)
    BY <1>4, <2>5, <2>6, <2>8 DEF Store!Pin
  <2> QED BY <1>1, <2>9 DEF Store!Next
<1>7. CASE op = "remove"
  <2>1. Entry(arg)' = None /\ dirs[arg] = None
    BY <1>1, <1>7, WriteLockEntries DEF ClearedFirst
  <2>2. Pins'[arg] = None
    BY <1>1, <2>1 DEF Pins
  <2>3. arg \notin IntactPacks /\ arg \notin IntactPacks'
    BY <1>1, <2>1 DEF IntactPacks
  <2>4. IntactPacks' = IntactPacks
    BY <1>2, <1>5, <2>3
  <2>5. Store!Unpin(arg)
    BY <1>4, <2>2, <2>3, <2>4 DEF Store!Unpin
  <2> QED BY <1>1, <2>5 DEF Store!Next
<1>8. CASE op = "relock"
  <2>1. /\ Entry(arg) \in LockEntries /\ Entry(arg) # None
        /\ Entry(arg)' = [Entry(arg) EXCEPT !.hash = cmd.hash]
    BY <1>1, <1>8, WriteLockEntries, RecordedType DEF TypeInv
  <2>2. Entry(arg).hash = cmd.hash
    BY <1>1, <1>8 DEF RelockHash, OthersMatch, InWork, Matches, Busy
  <2>3. Entry(arg)' = Entry(arg)
    BY <2>1, <2>2 DEF LockEntries
  <2>4. Pins'[arg] = Pins[arg] /\ (arg \in IntactPacks' <=> arg \in IntactPacks)
    BY <1>1, <2>3 DEF Pins, IntactPacks
  <2>5. Pins' = Pins /\ IntactPacks' = IntactPacks
    BY <1>2, <1>3, <1>5, <2>4
  <2> QED BY <2>5 DEF Store!storeVars
<1> QED BY <1>1, <1>6, <1>7, <1>8

LEMMA StepRefines ==
  ASSUME StoreInv, Step
  PROVE  [Store!Next]_(Store!storeVars)
<1> USE DEF StoreInv, AgreeInv, LockInv, ContentOK
<1>0. TypeInv
  OBVIOUS
<1>1. CASE WriteLock
  BY <1>1, WriteLockRefines
<1>2. CASE RestoreWipe
  <2>1. lock' = lock /\ dirs' = NoPacks
    BY <1>2 DEF RestoreWipe
  <2>2. IntactPacks' = {}
    BY <2>1 DEF IntactPacks, NoPacks
  <2> QED BY <1>0, <2>1, <2>2, ContentRefines DEF Store!Next
<1>3. CASE RestoreCopy
  <2>1. lock' = lock /\ dirs = NoPacks
    BY <1>3 DEF RestoreCopy, WipedAll
  <2>2. IntactPacks = {}
    BY <2>1 DEF IntactPacks, NoPacks
  <2> QED BY <1>0, <2>1, <2>2, ContentRefines DEF Store!Next
<1>4. CASE WipeFile \/ Wiped \/ CopyNext
  <2>1. lock' = lock /\ \A n \in Names \ {arg} : dirs'[n] = dirs[n]
    BY <1>4 DEF WipeFile, Wiped, CopyNext, TypeInv, TypeOK, PackDirs
  <2> QED BY <1>0, <2>1, OneDirRefines DEF Store!Next
<1>5. CASE InstallNext \/ InstallDone \/ Copied \/ MergeToolConfig \/ WriteProvenance \/ WriteYml
           \/ EnsureGitignore \/ UndoYml \/ UndoLock \/ UndoProv
  <2>1. UNCHANGED <<lock, dirs>>
    BY <1>5 DEF ClearedFirst, TypeInv, ControlOK, InstallNext, InstallDone, Copied, MergeToolConfig,
       WriteProvenance, WriteYml, EnsureGitignore, UndoYml, UndoLock, UndoProv, files
  <2> QED BY <1>0, <2>1, OneDirRefines DEF Store!Next
<1> QED BY <1>1, <1>2, <1>3, <1>4, <1>5 DEF Step

LEMMA NextRefines ==
  Undisturbed /\ StoreInv /\ [Next]_vars => [Store!Next]_(Store!storeVars)
<1> SUFFICES ASSUME Undisturbed, StoreInv, [Next]_vars PROVE [Store!Next]_(Store!storeVars)
  OBVIOUS
<1>0. TypeInv
  BY DEF StoreInv, AgreeInv, LockInv
<1>1. CASE Start
  <2>1. UNCHANGED <<lock, dirs>>
    BY <1>0, <1>1, StartShape DEF files
  <2> QED BY <1>0, <2>1, OneDirRefines DEF Store!Next
<1>2. CASE Step
  BY <1>2, StepRefines
<1>3. CASE World
  <2>1. lock' = lock /\ (dirs' = dirs \/ dirs' = NoPacks)
    BY <1>3 DEF World, EditInstalled, EditSource, Publish, Checkout, FreshClone, Meanwhile, Disturb,
       Undisturbed, Quiet
  <2>2. dirs' = NoPacks => IntactPacks' = {}
    BY DEF IntactPacks, NoPacks
  <2> QED BY <1>0, <2>1, <2>2, OneDirRefines, ContentRefines DEF Store!Next
<1>4. ~Crash /\ ~WriteFails
  BY DEF Undisturbed, Quiet, Crash, WriteFails, Disturb
<1>5. CASE UNCHANGED vars
  BY <1>5 DEF vars, files, Store!storeVars, Pins, IntactPacks, Entry
<1> QED BY <1>1, <1>2, <1>3, <1>4, <1>5 DEF Next

LEMMA InitRefines == Init => Store!Init
BY DEF Init, Store!Init, Pins, IntactPacks, Entry, NoPacks

(* The pack commands, file by file and in any order, implement the store of *)
(* pins for any packs, releases and histories without crashes, failed      *)
(* writes, switched branches and edited installations: the lock never pins *)
(* what is not validated and on disk, changes for one pack at a time, and  *)
(* lets go only of packs that are gone.                                    *)
THEOREM CommandsImplementStore == Undisturbed /\ Spec => ImplementsPackStore
<1> SUFFICES ASSUME Undisturbed PROVE Spec => ImplementsPackStore
  OBVIOUS
<1>1. StoreInv /\ [Next]_vars => StoreInv'
  BY StoreStep
<1>2. StoreInv /\ [Next]_vars => [Store!Next]_(Store!storeVars)
  BY NextRefines
<1> QED BY <1>1, <1>2, StoreInit, InitRefines, PTL DEF Spec, ImplementsPackStore, Store!Spec
=============================================================================
