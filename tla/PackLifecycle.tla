---------------------------- MODULE PackLifecycle ----------------------------
(***************************************************************************)
(* The pack commands of pkg/pack/distribution over one consumer project:   *)
(* add, install, update, upgrade, remove and relock.  A command first      *)
(* reads, clones and validates, which changes nothing, and then performs   *)
(* its writes one by one; it can fail or be killed before any of them.     *)
(* Between commands the world moves on: tags are published or moved, files *)
(* are edited, the project is checked out afresh.                          *)
(***************************************************************************)
EXTENDS PackTrees

CONSTANTS
  Paths,            \* directories a local pack can be added from
  Local,            \* the version backstop.yml declares for a local pack
  ScanAvailable,    \* the violation scan of upgrade exists (FALSE in production)
  Candidates,       \* the trees that can be published or edited into a source
  Env,              \* which disturbances can happen
  MaxDisturbances,  \* bound on their number
  InitSource,       \* the local source directories at the start
  InitRemote,       \* the published tags at the start
  InitConf          \* the consumer's own tool configuration

Disturbances ==
  {"crash", "fail", "edit_installed", "edit_source", "publish", "checkout", "fresh_clone"}

LockEntries ==
  [version : Versions \union {None}, hash : Trees, kind : {"git", "local"},
   coord : Coords \union {None}, path : Paths \union {None}]

LockFiles == [Names -> LockEntries \union {None}]

(* What an entry pins, without the place it came from. *)
PinRecords == [name : Names, version : Versions \union {None}, hash : Trees]

Commands == {"add", "install", "update", "upgrade", "remove", "relock"}
Outcomes == {"ok", "noop", "refused", "error", "rolledback", "crashed"}

ASSUME PackLifecycleAssumption ==
  /\ Local \notin Versions \union {None}
  /\ ScanAvailable \in BOOLEAN
  /\ Candidates \subseteq Trees
  /\ Env \subseteq Disturbances
  /\ MaxDisturbances \in Nat
  /\ InitSource \in [Paths -> Trees \union {None}]
  /\ InitRemote \in [Coords -> [Versions -> Trees \union {None}]]
  /\ InitConf \in ToolConfigs
  /\ None \notin Paths /\ None \notin LockEntries /\ None \notin LockFiles
  /\ None \notin PinRecords /\ None \notin Commands /\ None \notin Outcomes

VARIABLES
  yml,      \* packs of backstop.yml: declared version per name
  lock,     \* backstop.lock: an entry per name, or None for no file
  prov,     \* pack-config-provenance.json; None when it cannot be parsed
  conf,     \* the tool configuration files
  dirs,     \* .backstop/packs/<name>
  ignored,  \* .backstop/packs/ is listed in .gitignore
  source,   \* local pack directories
  remote,   \* the tree each repository publishes under each version tag
  pc,       \* the next write of the running command, or "idle"
  op,       \* the last command ...
  arg,      \* ... the pack it installs or removes ...
  out,      \* ... and how it ended
  report,   \* the settings remove says it reverted
  cmd,      \* what the running command holds in memory
  snap,     \* the snapshot it can roll back to
  disturbed \* number of disturbances so far

files == <<yml, lock, prov, conf, dirs, ignored>>
world == <<source, remote>>
vars == <<files, world, pc, op, arg, out, report, cmd, snap, disturbed>>

ProvEntries == [setting : Settings, pack : Names, value : Values]

NoPacks == [n \in Names |-> None]

NoCmd == [asked |-> None, coord |-> None, ver |-> None, kind |-> "git", path |-> None,
          tree |-> EmptyTree, hash |-> EmptyTree, pos |-> 0, merged |-> {}, todo |-> {}]

Init ==
  /\ yml = NoPacks
  /\ lock = None
  /\ prov = {}
  /\ conf = InitConf
  /\ dirs = NoPacks
  /\ ignored = FALSE
  /\ source = InitSource
  /\ remote = InitRemote
  /\ pc = "idle" /\ op = None /\ arg = None /\ out = None
  /\ report = {}
  /\ cmd = NoCmd
  /\ snap = None
  /\ disturbed = 0

-----------------------------------------------------------------------------
(* Reading the project *)

Entry(n) == IF lock = None THEN None ELSE lock[n]

(* Mutation: a pack that is already locked is added again. *)
InstalledButNotLocked(n) == dirs[n] \notin {None, EmptyTree} /\ Entry(n) = None

(* isPackInstalledAndCurrent: a non-empty directory and any lock entry. *)
InstalledAndCurrent(n) == dirs[n] \notin {None, EmptyTree} /\ Entry(n) # None

(* recordedCoordinateFor *)
RecordedCoordinate(n) == IF Entry(n) = None THEN None ELSE Entry(n).coord

(* CoordinateForEntry: the pack name is the fallback repository. *)
CoordinateFor(n) == IF RecordedCoordinate(n) = None THEN n ELSE RecordedCoordinate(n)

Clone(c, v) == Pristine(remote[c][v])

Tags(c) == {v \in Versions : remote[c][v] # None}

(* VerifyLock, the gate's pack_lock_verification step: local entries are    *)
(* skipped, every other one needs its directory with the locked hash, and  *)
(* no directory is there without an entry.  verifyPackLock asks only when  *)
(* packs are declared.                                                     *)
MissingPack(n) == Entry(n) # None /\ Entry(n).kind = "git" /\ dirs[n] = None
HashMismatch(n) ==
  Entry(n) # None /\ Entry(n).kind = "git" /\ dirs[n] # None /\ ContentHash(dirs[n]) # Entry(n).hash
ExtraUnlocked(n) == lock # None /\ lock[n] = None /\ dirs[n] # None

VerifyLock ==
  (\E n \in Names : yml[n] # None) =>
    /\ lock # None
    /\ \A n \in Names : ~MissingPack(n) /\ ~HashMismatch(n) /\ ~ExtraUnlocked(n)

-----------------------------------------------------------------------------
(* Starting and ending a command *)

Idle == pc = "idle"

Finish(o, n, result) ==
  /\ pc' = "idle" /\ op' = o /\ arg' = n /\ out' = result
  /\ cmd' = NoCmd
  /\ snap' = IF result = "rolledback" THEN snap ELSE None
  /\ UNCHANGED <<world, disturbed>>

(* A command that ends before its first write. *)
Answer(o, n, result) == Idle /\ Finish(o, n, result) /\ report' = {} /\ UNCHANGED files

Launch(o, n, first, c) ==
  /\ Idle
  /\ pc' = first /\ op' = o /\ arg' = n /\ out' = None
  /\ report' = {}
  /\ cmd' = c
  /\ UNCHANGED <<files, world, disturbed>>

Goto(next) == pc' = next /\ UNCHANGED <<world, op, arg, out, report, disturbed>>

-----------------------------------------------------------------------------
(* add *)

LaunchAdd(n, c) ==
  \/ InstalledAndCurrent(n) /\ Answer("add", n, "noop")
  \/ ~InstalledAndCurrent(n) /\ ~Validates(c.tree) /\ Answer("add", n, "refused")
  \/ ~InstalledAndCurrent(n) /\ Validates(c.tree) /\ Launch("add", n, "copy", c) /\ snap' = None

AddGit(c, v) ==
  \/ Answer("add", None, "refused")         \* the clone fails
  \/ /\ remote[c][v] # None
     /\ ~IdentityOK(Clone(c, v), v)
     /\ Answer("add", None, "refused")
  \/ /\ remote[c][v] # None
     /\ IdentityOK(Clone(c, v), v)
     /\ LaunchAdd(Manifest(Clone(c, v)).name,
                  [NoCmd EXCEPT !.coord = c, !.ver = v, !.tree = Clone(c, v)])

SourceManifest(p) == IF source[p] = None THEN None ELSE Manifest(source[p])

AddLocal(p) ==
  \/ SourceManifest(p) = None /\ Answer("add", None, "refused")
  \/ /\ SourceManifest(p) # None
     /\ LaunchAdd(SourceManifest(p).name,
                  [NoCmd EXCEPT !.kind = "local", !.path = p, !.tree = Pristine(source[p])])

-----------------------------------------------------------------------------
(* update and upgrade *)

(* The new tree was cloned at v; it is installed under its manifest name.   *)
Replacement(n, c, v) ==
  [NoCmd EXCEPT !.asked = n, !.coord = c, !.ver = v, !.tree = Clone(c, v)]

(* Tamper detection looks at the directory of the name that was asked for. *)
TamperStops(n, t, acknowledged) ==
  /\ dirs[n] # None
  /\ \/ ~TamperReadable(dirs[n], t)
     \/ DetectTamper(dirs[n], t) /\ ~acknowledged

Update(n, acknowledged) ==
  LET c == CoordinateFor(n) IN
  \/ Answer("update", n, "refused")         \* the listing or the clone fails
  \/ yml[n] = Local /\ Answer("update", n, "noop")
  \/ /\ yml[n] \in Versions
     /\ \E v \in Versions :
          /\ IsLatestCompatible(v, Tags(c), yml[n])
          /\ \/ v = yml[n] /\ Answer("update", n, "noop")
             \/ /\ v # yml[n]
                /\ \/ ~IdentityOK(Clone(c, v), v)
                   \/ ~Validates(Clone(c, v))
                   \/ TamperStops(n, Clone(c, v), acknowledged)
                /\ Answer("update", n, "refused")
             \/ /\ v # yml[n]
                /\ IdentityOK(Clone(c, v), v)
                /\ Validates(Clone(c, v))
                /\ ~TamperStops(n, Clone(c, v), acknowledged)
                /\ Launch("update", Manifest(Clone(c, v)).name, "wipe", Replacement(n, c, v))
                /\ snap' = None

Upgrade(n, v) ==
  LET c == CoordinateFor(n) IN
  \/ Answer("upgrade", n, "refused")        \* not declared, local, or the clone fails
  \/ /\ yml[n] \in Versions
     /\ remote[c][v] # None
     /\ \/ ~IdentityOK(Clone(c, v), v)
        \/ ~Validates(Clone(c, v))
        \/ ~ScanAvailable
        \/ prov = None
     /\ Answer("upgrade", n, "refused")
  \/ /\ yml[n] \in Versions
     /\ remote[c][v] # None
     /\ IdentityOK(Clone(c, v), v)
     /\ Validates(Clone(c, v))
     /\ ScanAvailable
     /\ prov # None
     /\ Launch("upgrade", Manifest(Clone(c, v)).name, "merge", Replacement(n, c, v))
     /\ snap' = None

-----------------------------------------------------------------------------
(* remove and relock *)

(* The settings remove reports as reverted: contributed by the pack, and    *)
(* not changed since.                                                      *)
Reverted(n) ==
  {e.setting : e \in {x \in prov : x.pack = n /\ conf[x.setting] \in {None, x.value}}}

(* Mutation: remove forgets the pack and leaves its directory. *)
RemoveWithoutRemoveAll(n) ==
  \/ (yml[n] = None \/ prov = None) /\ Answer("remove", n, "refused")
  \/ /\ Idle /\ yml[n] # None /\ prov # None
     /\ pc' = "yml" /\ op' = "remove" /\ arg' = n /\ out' = None
     /\ report' = Reverted(n)
     /\ cmd' = NoCmd /\ snap' = None
     /\ UNCHANGED <<files, world, disturbed>>

Remove(n) ==
  \/ (yml[n] = None \/ prov = None) /\ Answer("remove", n, "refused")
  \/ /\ Idle /\ yml[n] # None /\ prov # None
     /\ pc' = "wipe" /\ op' = "remove" /\ arg' = n /\ out' = None
     /\ report' = Reverted(n)
     /\ cmd' = NoCmd /\ snap' = None
     /\ UNCHANGED <<files, world, disturbed>>

Relockable(n) == Entry(n) # None /\ Entry(n).kind = "local" /\ dirs[n] # None

(* The hash is that of the installed copy, not of the source. *)
Relock(n) ==
  \/ ~Relockable(n) /\ Answer("relock", n, "refused")
  \/ /\ Relockable(n)
     /\ Launch("relock", n, "lock", [NoCmd EXCEPT !.hash = ContentHash(dirs[n])])
     /\ snap' = None

-----------------------------------------------------------------------------
(* install *)

Snapshot == [yml |-> yml, lock |-> lock, prov |-> prov, dirs |-> dirs]

Install ==
  \/ lock = None /\ Answer("install", None, "refused")
  \/ /\ lock # None
     /\ Launch("install", None, "next",
               [NoCmd EXCEPT !.todo = {n \in Names : yml[n] # None}])
     /\ snap' = Snapshot

(* Mutation: install restores whatever the tag or the path holds now. *)
LockedWithoutHashCheck(n) ==
  LET e == lock[n]
      t == IF e.kind = "local"
           THEN IF e.path = None THEN None ELSE source[e.path]
           ELSE IF e.version = None THEN None ELSE remote[CoordinateFor(n)][e.version]
  IN  IF t = None THEN None ELSE Pristine(t)

(* The source install copies n from, or None when it fails or its hash is   *)
(* not the locked one.  A --cache directory passes the same hash check.    *)
Locked(n) ==
  LET e == lock[n]
      t == IF e.kind = "local"
           THEN IF e.path = None THEN None ELSE source[e.path]
           ELSE IF e.version = None THEN None ELSE remote[CoordinateFor(n)][e.version]
  IN  IF t = None THEN None ELSE IF ContentHash(t) # e.hash THEN None ELSE Pristine(t)

(* Mutation: a pack without a lock entry is skipped but stays on the list. *)
InstallNextWithoutProgress ==
  /\ pc = "next"
  /\ \E n \in cmd.todo :
       /\ \A m \in cmd.todo : n <= m
       /\ arg' = n
       /\ \/ lock[n] = None /\ pc' = "next" /\ cmd' = cmd
          \/ /\ lock[n] # None
             /\ Locked(n) # None
             /\ pc' = "copy"
             /\ cmd' = [cmd EXCEPT !.todo = @ \ {n}, !.tree = Locked(n), !.pos = 0]
          \/ /\ lock[n] # None
             /\ Locked(n) = None \/ lock[n].kind = "git"
             /\ pc' = "restore_wipe"
             /\ cmd' = cmd
  /\ UNCHANGED <<files, world, op, out, report, snap, disturbed>>

InstallNext ==
  /\ pc = "next"
  /\ \E n \in cmd.todo :
       /\ \A m \in cmd.todo : n <= m
       /\ arg' = n
       /\ \/ /\ lock[n] = None                           \* warned about and skipped
             /\ pc' = "next"
             /\ cmd' = [cmd EXCEPT !.todo = @ \ {n}]
          \/ /\ lock[n] # None
             /\ Locked(n) # None
             /\ pc' = "copy"
             /\ cmd' = [cmd EXCEPT !.todo = @ \ {n}, !.tree = Locked(n), !.pos = 0]
          \/ /\ lock[n] # None
             /\ Locked(n) = None \/ lock[n].kind = "git"   \* a clone can always fail
             /\ pc' = "restore_wipe"
             /\ cmd' = cmd
  /\ UNCHANGED <<files, world, op, out, report, snap, disturbed>>

InstallDone ==
  /\ pc = "next" /\ cmd.todo = {}
  /\ Finish("install", arg, "ok")
  /\ UNCHANGED <<files, report>>

(* The rollback of install: RemoveAll(packsDir), then the snapshot back. *)
RestoreWipe ==
  /\ pc = "restore_wipe"
  /\ dirs' = NoPacks
  /\ Goto("restore_copy")
  /\ UNCHANGED <<yml, lock, prov, conf, ignored, cmd, snap>>

RestoreCopy ==
  /\ pc = "restore_copy"
  /\ dirs' = snap.dirs
  /\ Finish("install", arg, "rolledback")
  /\ UNCHANGED <<yml, lock, prov, conf, ignored, report>>

-----------------------------------------------------------------------------
(* The writes, in the order each command performs them *)

(* os.RemoveAll(.backstop/packs/<name>), one file at a time. *)
WipeFile ==
  /\ pc \in {"wipe", "undo_dir"}
  /\ dirs[arg] # None
  /\ \E f \in Files :
       /\ dirs[arg][f] # None
       /\ dirs' = [dirs EXCEPT ![arg] = [@ EXCEPT ![f] = None]]
  /\ UNCHANGED <<yml, lock, prov, conf, ignored, world, pc, op, arg, out, report, cmd, snap, disturbed>>

(* Mutation: the old directory is not removed first. *)
WipedWithoutRemoveAll ==
  /\ pc \in {"wipe", "undo_dir"}
  /\ Goto(IF pc = "undo_dir" THEN "undo_yml" ELSE IF op = "remove" THEN "yml" ELSE "copy")
  /\ UNCHANGED <<files, cmd, snap>>

Wiped ==
  /\ pc \in {"wipe", "undo_dir"}
  /\ dirs[arg] \in {None, EmptyTree}
  /\ dirs' = [dirs EXCEPT ![arg] = None]
  /\ Goto(IF pc = "undo_dir" THEN "undo_yml" ELSE IF op = "remove" THEN "yml" ELSE "copy")
  /\ UNCHANGED <<yml, lock, prov, conf, ignored, cmd, snap>>

(* copyDirRecursive into .backstop/packs/<name>: an overlay. *)
CopyNext ==
  /\ pc = "copy" /\ cmd.pos < FileCount
  /\ dirs' = [dirs EXCEPT ![arg] = CopyFile(cmd.tree, OrEmpty(@), cmd.pos + 1)]
  /\ cmd' = [cmd EXCEPT !.pos = @ + 1]
  /\ UNCHANGED <<yml, lock, prov, conf, ignored, world, pc, op, arg, out, report, snap, disturbed>>

(* The hash that will be locked is computed over the installed directory.   *)
(* add takes its snapshot here.                                            *)
Copied ==
  /\ pc = "copy" /\ cmd.pos = FileCount
  /\ Goto(CASE op = "add" -> "merge"
            [] op = "install" -> "next"
            [] op = "update" -> "yml"
            [] op = "upgrade" -> "prov")
  /\ cmd' = [cmd EXCEPT !.hash = ContentHash(OrEmpty(dirs[arg]))]
  /\ snap' = IF op = "add" THEN Snapshot ELSE snap
  /\ UNCHANGED files

(* MergeToolConfig: unset settings are written even when others conflict. *)
MergeToolConfig ==
  LET wanted == Manifest(cmd.tree).config
      fresh == {s \in Settings : wanted[s] # None /\ conf[s] = None}
      conflicts == {s \in Settings : wanted[s] # None /\ conf[s] \notin {None, wanted[s]}}
  IN
  /\ pc = "merge"
  /\ \/ /\ op = "add" /\ prov = None
        /\ Goto("undo_dir")
        /\ UNCHANGED <<conf, cmd, snap>>
     \/ /\ prov # None
        /\ conf' = [s \in Settings |-> IF s \in fresh THEN wanted[s] ELSE conf[s]]
        /\ \/ /\ conflicts # {} /\ op = "add"
              /\ Goto("undo_dir")
              /\ UNCHANGED <<cmd, snap>>
           \/ /\ conflicts # {} /\ op = "upgrade"
              /\ Finish(op, arg, "error")
              /\ UNCHANGED report
           \/ /\ conflicts = {}
              /\ Goto(IF op = "add" THEN "prov" ELSE "wipe")
              /\ cmd' = [cmd EXCEPT !.merged = fresh]
              /\ UNCHANGED snap
  /\ UNCHANGED <<yml, lock, prov, dirs, ignored>>

(* Mutation: provenance is recorded for settings the pack does not set. *)
WriteProvenanceForAll ==
  /\ pc = "prov"
  /\ \/ /\ op = "remove"
        /\ prov' = {e \in prov : e.pack # arg}
        /\ Finish("remove", arg, "ok")
        /\ UNCHANGED report
     \/ /\ op # "remove"
        /\ prov' = prov \union
             {[setting |-> s, pack |-> arg, value |-> Manifest(cmd.tree).config[s]] : s \in Settings}
        /\ Goto("yml")
        /\ UNCHANGED <<cmd, snap>>
  /\ UNCHANGED <<yml, lock, conf, dirs, ignored>>

WriteProvenance ==
  /\ pc = "prov"
  /\ \/ /\ op = "remove"
        /\ prov' = {e \in prov : e.pack # arg}
        /\ Finish("remove", arg, "ok")
        /\ UNCHANGED report
     \/ /\ op # "remove"
        /\ prov' = prov \union
             {[setting |-> s, pack |-> arg, value |-> Manifest(cmd.tree).config[s]] : s \in cmd.merged}
        /\ Goto("yml")
        /\ UNCHANGED <<cmd, snap>>
  /\ UNCHANGED <<yml, lock, conf, dirs, ignored>>

(* Mutation: a renamed pack keeps its declaration under the old name. *)
WriteYmlUnderAsked ==
  /\ pc = "yml"
  /\ yml' = [yml EXCEPT ![IF op \in {"update", "upgrade"} THEN cmd.asked ELSE arg] =
               IF op = "remove" THEN None ELSE IF cmd.kind = "local" THEN Local ELSE cmd.ver]
  /\ Goto("lock")
  /\ UNCHANGED <<lock, prov, conf, dirs, ignored, cmd, snap>>

(* updateBackstopYml, updatePackVersion, removeFromBackstopYml *)
WriteYml ==
  /\ pc = "yml"
  /\ yml' = [yml EXCEPT ![arg] =
               IF op = "remove" THEN None ELSE IF cmd.kind = "local" THEN Local ELSE cmd.ver]
  /\ Goto("lock")
  /\ UNCHANGED <<lock, prov, conf, dirs, ignored, cmd, snap>>

(* Mutation: update changes the version of an entry and keeps its hash. *)
NewEntryKeepsHash ==
  [version |-> cmd.ver, kind |-> cmd.kind, path |-> cmd.path,
   hash |-> IF op = "add" \/ Entry(arg) = None THEN cmd.hash ELSE Entry(arg).hash,
   coord |-> IF op = "add" THEN cmd.coord ELSE RecordedCoordinate(cmd.asked)]

(* The entry add writes, and the one recordGitPackInLock writes: it carries *)
(* forward the coordinate recorded under the name that was asked for.      *)
NewEntry ==
  [version |-> cmd.ver, hash |-> cmd.hash, kind |-> cmd.kind, path |-> cmd.path,
   coord |-> IF op = "add" THEN cmd.coord ELSE RecordedCoordinate(cmd.asked)]

LockBase == IF lock = None THEN NoPacks ELSE lock

WriteLock ==
  /\ pc = "lock"
  /\ \/ /\ op = "add"
        /\ lock' = [LockBase EXCEPT ![arg] = NewEntry]
        /\ Goto("gitignore")
        /\ UNCHANGED <<cmd, snap>>
     \/ /\ op \in {"update", "upgrade"}
        /\ lock' = [LockBase EXCEPT ![arg] = NewEntry]
        /\ Finish(op, arg, "ok")
        /\ UNCHANGED report
     \/ /\ op = "remove"
        /\ lock' = IF lock = None THEN None ELSE [lock EXCEPT ![arg] = None]
        /\ Goto("prov")
        /\ UNCHANGED <<cmd, snap>>
     \/ /\ op = "relock"
        /\ lock' = [lock EXCEPT ![arg] = [@ EXCEPT !.hash = cmd.hash]]
        /\ Finish(op, arg, "ok")
        /\ UNCHANGED report
  /\ UNCHANGED <<yml, prov, conf, dirs, ignored>>

EnsureGitignore ==
  /\ pc = "gitignore"
  /\ ignored' = TRUE
  /\ Finish("add", arg, "ok")
  /\ UNCHANGED <<yml, lock, prov, conf, dirs, report>>

(* The rollback of add, after its directory is wiped. *)
UndoYml ==
  /\ pc = "undo_yml"
  /\ yml' = snap.yml
  /\ Goto("undo_lock")
  /\ UNCHANGED <<lock, prov, conf, dirs, ignored, cmd, snap>>

(* Mutation: the rollback cannot restore that there was no lock file. *)
UndoLockKeepsNewFile ==
  /\ pc = "undo_lock"
  /\ lock' = IF snap.lock = None THEN lock ELSE snap.lock
  /\ Goto("undo_prov")
  /\ UNCHANGED <<yml, prov, conf, dirs, ignored, cmd, snap>>

UndoLock ==
  /\ pc = "undo_lock"
  /\ lock' = snap.lock
  /\ Goto("undo_prov")
  /\ UNCHANGED <<yml, prov, conf, dirs, ignored, cmd, snap>>

UndoProv ==
  /\ pc = "undo_prov"
  /\ prov' = snap.prov
  /\ Finish("add", arg, "rolledback")
  /\ UNCHANGED <<yml, lock, conf, dirs, ignored, report>>

-----------------------------------------------------------------------------
(* Failure and crash *)

(* os.WriteFile truncates before it writes, so a write that does not        *)
(* complete leaves the file as it was or empty.  An empty backstop.yml or  *)
(* lock parses as one without packs; an empty provenance file does not     *)
(* parse.                                                                  *)
Truncated(f) ==
  /\ yml' = IF f = "yml" THEN NoPacks ELSE yml
  /\ lock' = IF f = "lock" THEN NoPacks ELSE lock
  /\ prov' = IF f = "prov" THEN None ELSE prov

Interrupted ==
  /\ \/ UNCHANGED <<yml, lock, prov>>
     \/ pc \in {"yml", "undo_yml"} /\ Truncated("yml")
     \/ pc \in {"lock", "undo_lock"} /\ Truncated("lock")
     \/ pc \in {"prov", "undo_prov"} /\ Truncated("prov")
  /\ UNCHANGED <<conf, dirs, ignored>>

Disturb(d) == d \in Env /\ disturbed < MaxDisturbances /\ disturbed' = disturbed + 1

Crash ==
  /\ pc # "idle"
  /\ Disturb("crash")
  /\ Interrupted
  /\ pc' = "idle" /\ out' = "crashed" /\ cmd' = NoCmd /\ snap' = None
  /\ UNCHANGED <<world, op, arg, report>>

(* A write returns an error: add rolls back once it has its snapshot and    *)
(* until the lock is written, install rolls back, the others just return.  *)
WriteFails ==
  /\ pc \in {"copy", "wipe", "merge", "prov", "yml", "lock", "gitignore"}
  /\ Disturb("fail")
  /\ Interrupted
  /\ \/ /\ op = "add" /\ pc \in {"merge", "prov", "yml", "lock"}
        /\ pc' = "undo_dir" /\ UNCHANGED <<out, cmd, snap>>
     \/ /\ op = "install"
        /\ pc' = "restore_wipe" /\ UNCHANGED <<out, cmd, snap>>
     \/ /\ op # "install" /\ ~(op = "add" /\ pc \in {"merge", "prov", "yml", "lock"})
        /\ pc' = "idle" /\ out' = "error" /\ cmd' = NoCmd /\ snap' = None
  /\ UNCHANGED <<world, op, arg, report>>

-----------------------------------------------------------------------------
(* The world between commands *)

Meanwhile(d) ==
  /\ Idle
  /\ Disturb(d)
  /\ out' = None /\ report' = {} /\ snap' = None
  /\ UNCHANGED <<prov, conf, ignored, pc, op, arg, cmd>>

(* A file of an installed pack is edited, added or deleted. *)
EditInstalled(n, f, x) ==
  /\ Meanwhile("edit_installed")
  /\ dirs[n] # None
  /\ dirs' = [dirs EXCEPT ![n] = [@ EXCEPT ![f] = x]]
  /\ UNCHANGED <<yml, lock, source, remote>>

EditSource(p, t) ==
  /\ Meanwhile("edit_source")
  /\ source' = [source EXCEPT ![p] = t]
  /\ UNCHANGED <<yml, lock, dirs, remote>>

(* A tag is published, or moved to another tree. *)
Publish(c, v, t) ==
  /\ Meanwhile("publish")
  /\ remote' = [remote EXCEPT ![c] = [@ EXCEPT ![v] = t]]
  /\ UNCHANGED <<yml, lock, dirs, source>>

(* A branch without packs is checked out: backstop.yml and backstop.lock    *)
(* are tracked, .backstop/packs/ is ignored and stays.                     *)
Checkout ==
  /\ Meanwhile("checkout")
  /\ yml' = NoPacks /\ lock' = None
  /\ UNCHANGED <<dirs, source, remote>>

(* A new clone of the project: what is ignored is not there. *)
FreshClone ==
  /\ Meanwhile("fresh_clone")
  /\ dirs' = NoPacks
  /\ UNCHANGED <<yml, lock, source, remote>>

-----------------------------------------------------------------------------
Start ==
  \/ \E c \in Coords, v \in Versions : AddGit(c, v)
  \/ \E p \in Paths : AddLocal(p)
  \/ \E n \in Names, a \in BOOLEAN : Update(n, a)
  \/ \E n \in Names, v \in Versions : Upgrade(n, v)
  \/ \E n \in Names : Remove(n)
  \/ \E n \in Names : Relock(n)
  \/ Install

Step ==
  \/ InstallNext \/ InstallDone \/ RestoreWipe \/ RestoreCopy
  \/ WipeFile \/ Wiped \/ CopyNext \/ Copied
  \/ MergeToolConfig \/ WriteProvenance \/ WriteYml \/ WriteLock \/ EnsureGitignore
  \/ UndoYml \/ UndoLock \/ UndoProv

World ==
  \/ \E n \in Names, f \in Files, x \in Contents \union {None} : EditInstalled(n, f, x)
  \/ \E p \in Paths, t \in Candidates : EditSource(p, t)
  \/ \E c \in Coords, v \in Versions, t \in Candidates : Publish(c, v, t)
  \/ Checkout
  \/ FreshClone

Next == Start \/ Step \/ Crash \/ WriteFails \/ World

Spec == Init /\ [][Next]_vars

(* A command that was started keeps running. *)
FairSpec == Spec /\ WF_vars(Step)

-----------------------------------------------------------------------------
(* Type *)

Controls ==
  {"idle", "copy", "merge", "prov", "yml", "lock", "gitignore", "wipe", "next",
   "undo_dir", "undo_yml", "undo_lock", "undo_prov", "restore_wipe", "restore_copy"}

CmdRecords ==
  [asked : Names \union {None}, coord : Coords \union {None}, ver : Versions \union {None},
   kind : {"git", "local"}, path : Paths \union {None}, tree : Trees, hash : Trees,
   pos : 0..FileCount, merged : SUBSET Settings, todo : SUBSET Names]

YmlFiles == [Names -> Versions \union {Local, None}]
ProvFiles == (SUBSET ProvEntries) \union {None}
PackDirs == [Names -> Trees \union {None}]

Snapshots ==
  [yml : YmlFiles, lock : LockFiles \union {None}, prov : ProvFiles, dirs : PackDirs]

(* Every file, directory and in-memory value has the shape the code gives   *)
(* it, in every state of every command, whatever fails or crashes.         *)
TypeOK ==
  /\ yml \in YmlFiles
  /\ lock \in LockFiles \union {None}
  /\ prov \in ProvFiles
  /\ conf \in ToolConfigs
  /\ dirs \in PackDirs
  /\ ignored \in BOOLEAN
  /\ source \in [Paths -> Trees \union {None}]
  /\ remote \in [Coords -> [Versions -> Trees \union {None}]]
  /\ pc \in Controls
  /\ op \in Commands \union {None}
  /\ arg \in Names \union {None}
  /\ out \in Outcomes \union {None}
  /\ report \in SUBSET Settings
  /\ cmd \in CmdRecords
  /\ snap \in Snapshots \union {None}
  /\ disturbed \in 0..MaxDisturbances

-----------------------------------------------------------------------------
(* Safety of an undisturbed life cycle: commands that are refused, fail to  *)
(* clone or conflict, tags that move, sources and installed files that are *)
(* edited, fresh clones of the project; but no crash, failing write or     *)
(* switched branch.                                                        *)

GitEntry(n) == Entry(n) # None /\ Entry(n).kind = "git"

(* What backstop.lock pins for a git pack is a tree that pack check and     *)
(* pack test accepted, whose manifest carries the locked name and version. *)
(* install restores by hash and never validates, so it depends on this.    *)
LockedIsValidated ==
  \A n \in Names : GitEntry(n) =>
    /\ Entry(n).hash \in ValidTrees
    /\ IdentityOK(Entry(n).hash, Entry(n).version)
    /\ Manifest(Entry(n).hash).name = n

(* Between commands backstop.yml and backstop.lock name the same packs, at  *)
(* the same versions and with the same kind of source, although every      *)
(* command writes them one after the other.                                *)
ManifestLockAgree ==
  Idle => \A n \in Names :
    /\ yml[n] = None <=> Entry(n) = None
    /\ yml[n] = Local => Entry(n).kind = "local"
    /\ yml[n] \in Versions => Entry(n).kind = "git" /\ Entry(n).version = yml[n]

(* Between commands the gate's lock verification can only miss packs that   *)
(* a fresh clone has not installed yet: what is installed is locked, with  *)
(* its hash, local packs included.                                         *)
NoDrift ==
  Idle => \A n \in Names : dirs[n] # None =>
    Entry(n) # None /\ Entry(n).hash = ContentHash(dirs[n])

(* After a successful install the gate's lock verification is green and     *)
(* every declared pack, a local one too, is there with its locked content: *)
(* "run pack install to restore".                                          *)
InstallRestores ==
  (Idle /\ op = "install" /\ out = "ok") =>
    /\ VerifyLock
    /\ \A n \in Names : yml[n] # None => dirs[n] # None /\ ContentHash(dirs[n]) = Entry(n).hash

(* A git pack that was just added can be restored from its own tag: "what   *)
(* makes the hash `pack add` records equal the hash `pack install`         *)
(* computes", although add hashes the directory it copied into.            *)
AddIsReproducible ==
  (Idle /\ op = "add" /\ out = "ok" /\ GitEntry(arg)) =>
    Entry(arg).hash = ContentHash(remote[Entry(arg).coord][Entry(arg).version])

(* The abstract store the commands implement.  A pin is the lock entry      *)
(* without the place it came from; an entry of a local directory has no    *)
(* version.                                                                *)
Releases ==
  {r \in [name : Names, version : Versions \union {None}, hash : ValidTrees] :
     /\ Manifest(r.hash) # None /\ Manifest(r.hash).name = r.name
     /\ r.version # None => IdentityOK(r.hash, r.version)}

Pins ==
  [n \in Names |->
     IF Entry(n) = None THEN None
     ELSE [name |-> n, version |-> Entry(n).version, hash |-> Entry(n).hash]]

IntactPacks ==
  {n \in Names : Entry(n) # None /\ dirs[n] # None /\ ContentHash(dirs[n]) = Entry(n).hash}

Store == INSTANCE PackStore WITH pins <- Pins, intact <- IntactPacks

(* Every single write of every command is a step of the abstract store, or  *)
(* none: although directory, manifest and lock are written one after the   *)
(* other, the lock never pins what is not on disk already, never changes   *)
(* for two packs at once, and never lets go of a pack that is still there. *)
ImplementsPackStore == Store!Spec

-----------------------------------------------------------------------------
(* Safety whatever fails, crashes or is edited *)

(* A rollback leaves the project as the command found it: add restores the  *)
(* manifest, the lock and the provenance and leaves no directory; install  *)
(* restores every directory.  A write that failed half way included.       *)
RollbackRestores ==
  (Idle /\ out = "rolledback") =>
    /\ yml = snap.yml /\ lock = snap.lock /\ prov = snap.prov
    /\ op = "add" => dirs = [snap.dirs EXCEPT ![arg] = None]
    /\ op = "install" => dirs = snap.dirs

(* A remove that reports success leaves nothing of the pack behind in the   *)
(* packs directory, the manifest, the lock and the provenance, in whatever *)
(* state earlier crashes had left them.                                    *)
RemoveIsComplete ==
  (Idle /\ op = "remove" /\ out = "ok") =>
    /\ dirs[arg] = None /\ yml[arg] = None /\ Entry(arg) = None
    /\ \A e \in prov : e.pack # arg

(* An update or upgrade that reports success heals the pack: whatever was   *)
(* in the directory before, it now holds exactly the validated release the *)
(* manifest and the lock name, and the lock carries its hash.              *)
ReplaceHeals ==
  (Idle /\ op \in {"update", "upgrade"} /\ out = "ok") =>
    /\ GitEntry(arg) /\ yml[arg] = Entry(arg).version
    /\ dirs[arg] = Entry(arg).hash
    /\ Entry(arg).hash \in ValidTrees
    /\ IdentityOK(Entry(arg).hash, Entry(arg).version)

(* No command is left hanging: it ends unless the operator kills it, and    *)
(* the install loop over the declared packs runs out.                      *)
CommandTerminates == pc # "idle" ~> pc = "idle"

=============================================================================
