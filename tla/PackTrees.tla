------------------------------ MODULE PackTrees ------------------------------
(***************************************************************************)
(* What a pack is made of: directory trees, the content hash that locks    *)
(* one, the manifest (pack.yml) a tree carries, release versions, and the  *)
(* comparison that detects a weakened pack.                                *)
(*                                                                         *)
(* A tree maps every path of a pack to a content or to None.  Paths are    *)
(* numbered in the order filepath.Walk visits them.  The content of the    *)
(* path PackYml decides everything the distribution code reads from the    *)
(* manifest.  A SHA-256 digest is modelled as the data it digests.         *)
(***************************************************************************)
EXTENDS Naturals

CONSTANTS
  None,         \* what is absent: a file, a directory, an entry, a field
  FileCount,    \* number of paths of a pack
  PackYml,      \* the path of the manifest
  MetaFiles,    \* the root repository metadata (.git)
  Contents,     \* file contents
  Names,        \* pack names (org/pack), ordered as the code sorts them
  Coords,       \* repository coordinates (org/repository)
  Versions,     \* release versions, <<major, minor, patch>>
  Settings,     \* tool_config settings (config file and key)
  Values,       \* values of a setting
  Manifests,    \* what parsing a content as pack.yml yields
  ValidTrees,   \* the trees pack check and pack test accept
  Weakens       \* pairs of contents of one path that DetectTamper reports

Files == 1..FileCount

Trees == [Files -> Contents \union {None}]

(* tool_config: the value a manifest wants for each setting. *)
ToolConfigs == [Settings -> Values \union {None}]

(* None stands for a pack.yml that cannot be read or parsed, or is nameless. *)
ManifestRecords ==
  [name : Names, version : Versions \union {None}, config : ToolConfigs]

ASSUME PackTreesAssumption ==
  /\ FileCount \in Nat
  /\ PackYml \in Files
  /\ MetaFiles \subseteq Files \ {PackYml}
  /\ Names \subseteq Coords
  /\ Coords \subseteq Nat
  /\ Versions \subseteq Nat \X Nat \X Nat
  /\ None \notin Contents /\ None \notin Coords /\ None \notin Versions /\ None \notin Values
  /\ Manifests \in [Contents -> ManifestRecords \union {None}]
  /\ None \notin ManifestRecords
  /\ ValidTrees \subseteq Trees
  /\ Weakens \subseteq Contents \X (Contents \union {None})
  /\ None \notin Trees

-----------------------------------------------------------------------------
(* Trees and their hash *)

EmptyTree == [f \in Files |-> None]

(* copyDirRecursive and ComputeContentHash skip the same root metadata. *)
Pristine(t) == [f \in Files |-> IF f \in MetaFiles THEN None ELSE t[f]]

(* ComputeContentHash: equal exactly for equal trees, metadata aside. *)
ContentHash(t) == Pristine(t)

(* One file of copyDirRecursive: written over the target, nothing deleted. *)
CopyFile(src, dst, f) == IF src[f] = None THEN dst ELSE [dst EXCEPT ![f] = src[f]]

(* A directory the walk has just created, or the one that was there. *)
OrEmpty(d) == IF d = None THEN EmptyTree ELSE d

-----------------------------------------------------------------------------
(* Manifest *)

Manifest(t) == IF t[PackYml] = None THEN None ELSE Manifests[t[PackYml]]

(* ValidateRemoteIdentity: the cloned manifest carries a name and exactly   *)
(* the version of the tag it was cloned at.                                *)
IdentityOK(t, v) == Manifest(t) # None /\ Manifest(t).version = v

(* RunValidationOnScratchCopy: the verdict on a copy; t itself is untouched. *)
Validates(t) == Pristine(t) \in ValidTrees

-----------------------------------------------------------------------------
(* Versions *)

NewerThan(v, w) ==
  \/ v[1] > w[1]
  \/ v[1] = w[1] /\ v[2] > w[2]
  \/ v[1] = w[1] /\ v[2] = w[2] /\ v[3] > w[3]

(* ResolveLatestCompatible: v is what it answers for the tags and the       *)
(* current version; current itself when no tag of its major is newer.      *)
IsLatestCompatible(v, tags, current) ==
  LET newer == {w \in tags : w[1] = current[1] /\ NewerThan(w, current)}
  IN  /\ v \in newer \union {current}
      /\ \A w \in newer : ~NewerThan(w, v)
      /\ newer # {} => v # current

-----------------------------------------------------------------------------
(* DetectTamper: a rule removed, downgraded or reclassified, or a fixture   *)
(* gone, between the installed and the new tree, path by path.             *)
DetectTamper(old, new) == \E f \in Files : <<old[f], new[f]>> \in Weakens

(* It reads both manifests first and fails when it cannot. *)
TamperReadable(old, new) == Manifest(old) # None /\ Manifest(new) # None
=============================================================================
