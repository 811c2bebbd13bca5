----------------------------- MODULE RecipeApply -----------------------------
(***************************************************************************)
(* `backstop recipe apply`: the operations of a recipe run in the order    *)
(* they are declared, each writes its file at once, and what was adopted   *)
(* is recorded last.  The record is all the next apply has to tell the     *)
(* recipe's own output from the consumer's files.  Between applies people  *)
(* create, edit, waive and delete files.                                   *)
(*                                                                         *)
(* A document is what the applier can tell apart: the text it started      *)
(* from, whether it was edited by hand, the waiver tokens in it, its       *)
(* settings, and the snippets and rewrites put into it.                    *)
(***************************************************************************)
EXTENDS Naturals, Sequences, FiniteSets

CONSTANTS
  None,              \* no file, no value
  User, Torn,        \* the text of the consumer's own files; of a truncated one
  Malformed,         \* a waiver token that does not parse
  Recipes, Versions,
  Paths,             \* files of the project
  Texts,             \* rendered payloads
  Anchored,          \* texts that hold the anchor of the inserts
  Keys, Values,      \* settings of structured files; None is unset
  Pieces,            \* snippets and rewrites
  Rules,             \* enforcement rules a waiver can name
  Kind,              \* the kind of each recipe
  Ops,               \* the operations of each recipe at each version
  Enforcement,       \* the rules it declares
  InitFiles,         \* projects to start from
  Env,               \* what can go wrong
  MaxWorld,          \* bound on what happens between and to the applies
  MaxSplices         \* bound on the snippets in one file

Tokens == [rule : Rules, expired : BOOLEAN]

Settings == [Keys -> Values \union {None}]

Docs == [text : Texts \union {User, Torn}, edited : BOOLEAN,
         tokens : SUBSET (Tokens \union {Malformed}), settings : Settings,
         spliced : Seq(Pieces), rewritten : SUBSET Pieces]

OpKinds == {"create", "merge", "insert", "transform", "step", "unknown"}

Formats == {"json", "yaml", "env"}

Operations == [kind : OpKinds, target : Paths \union {None}, payload : Texts,
               fragment : Settings, format : Formats, piece : Pieces]

ASSUME RecipeApplyAssumption ==
  /\ None \notin Versions /\ None \notin Docs /\ None \notin Paths
  /\ None \notin Recipes \X Versions /\ None \notin [Recipes -> Versions \union {None}]
  /\ {User, Torn} \intersect Texts = {} /\ User # Torn
  /\ Malformed \notin Tokens
  /\ Kind \in [Recipes -> {"scaffolding", "implementing", "templating"}]
  /\ Ops \in [Recipes \X Versions -> Seq(Operations)]
  /\ Enforcement \in [Recipes \X Versions -> SUBSET Rules]
  /\ InitFiles \subseteq [Paths -> Docs \union {None}]
  /\ Env \subseteq {"fails", "torn", "crash"}
  /\ MaxWorld \in Nat /\ MaxSplices \in Nat

VARIABLES
  files,    \* the project's files
  record,   \* backstop-recipes.lock: adopted versions, None if it does not parse
  pc,       \* where the running apply is
  run,      \* what it holds in memory
  result,   \* what the last apply reported
  world,    \* disturbances so far
  before,   \* the files when the last apply started (history)
  settled   \* the last apply, if it preserved nothing and nothing happened since (history)

vars == <<files, record, pc, run, result, world, before, settled>>
history == <<world, before, settled>>

Refs == Recipes \X Versions

Nothing == [r \in Recipes |-> None]

Failed == [status |-> "failed", written |-> {}, preserved |-> {}, regenerated |-> {}]

NewRun(r, v) ==
  [ref |-> <<r, v>>, next |-> 1, adopted |-> record[r] # None, writtenNow |-> {},
   materialized |-> FALSE, written |-> {}, preserved |-> {}, regenerated |-> {},
   again |-> settled = <<r, v>>]

Init ==
  /\ files \in InitFiles
  /\ record = Nothing
  /\ pc = "idle"
  /\ run \in {[ref |-> ref, next |-> 1, adopted |-> FALSE, writtenNow |-> {},
               materialized |-> FALSE, written |-> {}, preserved |-> {},
               regenerated |-> {}, again |-> FALSE] : ref \in Refs}
  /\ result = Failed
  /\ world = 0
  /\ before = files /\ settled = None

-----------------------------------------------------------------------------
(* One operation *)

Op == Ops[run.ref][run.next]
KindOfRun == Kind[run.ref[1]]

(* The rendered payload, as a file. *)
Rendered(op) ==
  [text |-> op.payload, edited |-> FALSE, tokens |-> {},
   settings |-> [k \in Keys |-> None], spliced |-> <<>>, rewritten |-> {}]

(* Some declared rule has a token that is not expired. *)
Covered(doc, rules) == \E r \in rules : [rule |-> r, expired |-> FALSE] \in doc.tokens

(* Tokens are only read on behalf of a declared rule. *)
HasMalformed(doc, rules) == rules # {} /\ Malformed \in doc.tokens

Write(p, doc) == files' = [files EXCEPT ![p] = doc]

Advance(update) == run' = [update EXCEPT !.next = @ + 1]

(* An error ends the apply: the operations done stay, the report is empty. *)
Fail ==
  /\ pc' = "idle" /\ result' = Failed /\ settled' = None
  /\ UNCHANGED <<run, before>>

(* Mutation: a write over a divergence is reported as any other write. *)
WroteQuietly(op, over) ==
  [run EXCEPT !.writtenNow = @ \union {op.target}, !.materialized = TRUE,
              !.written = @ \union {op.target}]

Wrote(op, over) ==
  [run EXCEPT !.writtenNow = @ \union {op.target}, !.materialized = TRUE,
              !.written = @ \union {op.target},
              !.regenerated = IF over THEN @ \union {op.target} ELSE @]

(* Mutation: the payload is written over the file without truncating it. *)
WriteRenderedOver(op) ==
  LET doc == files[op.target] IN
  Write(op.target,
        IF doc = None THEN Rendered(op) ELSE [doc EXCEPT !.text = op.payload, !.edited = FALSE])

WriteRendered(op) == Write(op.target, Rendered(op))

(* Mutation: output nobody edited counts as current, whatever its version. *)
UnchangedIfUnedited(doc, op) == ~doc.edited /\ doc.text \in Texts

Unchanged(doc, op) == doc = Rendered(op)

(* A recipe on record that is no template owns what it finds, and finds it  *)
(* changed in a way no waiver covers.                                      *)
Diverged(op) ==
  LET doc == files[op.target] IN
  /\ run.adopted /\ KindOfRun # "templating"
  /\ ~Unchanged(doc, op) /\ ~Covered(doc, Enforcement[run.ref])

Present(op) == files[op.target] # None /\ op.target \notin run.writtenNow

(* Mutation: a token that does not parse counts as no token. *)
RegeneratesSilently(op) == Present(op) /\ Diverged(op)

Regenerates(op) ==
  Present(op) /\ Diverged(op) /\ ~HasMalformed(files[op.target], Enforcement[run.ref])

(* A token that does not parse: the apply will not judge the edit. *)
Refuses(op) ==
  Present(op) /\ Diverged(op) /\ HasMalformed(files[op.target], Enforcement[run.ref])

(* What a file that stays says about ownership: nothing, if no apply of the *)
(* recipe is on record; it is preserved, unless it is the payload.         *)
Keep(op) ==
  IF run.adopted /\ KindOfRun # "templating" /\ Unchanged(files[op.target], op)
    THEN [run EXCEPT !.materialized = TRUE]
    ELSE [run EXCEPT !.preserved = @ \union {op.target}, !.materialized = @ \/ run.adopted]

Create ==
  /\ pc = "ops" /\ run.next <= Len(Ops[run.ref])
  /\ Op.kind = "create" /\ Op.target # None
  /\ \/ /\ ~Present(Op) \/ Regenerates(Op)
        /\ WriteRendered(Op)
        /\ Advance(Wrote(Op, Present(Op)))
     \/ /\ Present(Op) /\ ~Diverged(Op)
        /\ Advance(Keep(Op))
        /\ UNCHANGED files
  /\ UNCHANGED <<record, pc, result, history>>

(* Fragment over settings, name by name. *)
DeepMerge(settings, fragment) ==
  [k \in Keys |-> IF fragment[k] # None THEN fragment[k] ELSE settings[k]]

(* A structured document is encoded anew from its tree: in yaml and toml    *)
(* the comments are gone, and the tokens with them.                        *)
MergeDocuments(doc, op) ==
  [doc EXCEPT !.settings = DeepMerge(@, op.fragment),
              !.tokens = IF op.format = "yaml" THEN {} ELSE @]

WroteInto(op) == [run EXCEPT !.written = @ \union {op.target}]

(* Merge, insert and transform need the file; insert needs the anchor too. *)
Reachable(op) ==
  /\ op.target # None
  /\ files[op.target] # None
  /\ op.kind = "insert" => files[op.target].text \in Anchored

Edited(doc, op) ==
  CASE op.kind = "merge" -> MergeDocuments(doc, op)
    [] op.kind = "insert" -> [doc EXCEPT !.spliced = <<op.piece>> \o @]
    [] op.kind = "transform" -> [doc EXCEPT !.rewritten = @ \union {op.piece}]

(* applyMerge, applyInsert, applyTransform: they change whatever is there,  *)
(* the consumer's file too.                                                *)
Modify ==
  /\ pc = "ops" /\ run.next <= Len(Ops[run.ref])
  /\ Op.kind \in {"merge", "insert", "transform"}
  /\ Reachable(Op)
  /\ Write(Op.target, Edited(files[Op.target], Op))
  /\ Advance(WroteInto(Op))
  /\ UNCHANGED <<record, pc, result, history>>

(* A step is reserved and not executed. *)
SkipStep ==
  /\ pc = "ops" /\ run.next <= Len(Ops[run.ref])
  /\ Op.kind = "step"
  /\ Advance(run)
  /\ UNCHANGED <<files, record, pc, result, history>>

(* The operation cannot be done: its kind is unknown, its path, file or     *)
(* anchor is missing, or the edit it meets cannot be judged.               *)
OpFails ==
  /\ pc = "ops" /\ run.next <= Len(Ops[run.ref])
  /\ \/ Op.kind = "unknown"
     \/ Op.kind = "create" /\ (Op.target = None \/ Refuses(Op))
     \/ Op.kind \in {"merge", "insert", "transform"} /\ ~Reachable(Op)
  /\ Fail
  /\ UNCHANGED <<files, record, world>>

-----------------------------------------------------------------------------
(* The command *)

Inserts(ref, p) == {i \in DOMAIN Ops[ref] : Ops[ref][i].kind = "insert" /\ Ops[ref][i].target = p}

Room(ref, p) ==
  files[p] # None => Len(files[p].spliced) + Cardinality(Inserts(ref, p)) <= MaxSplices

Begin(r, v) ==
  /\ pc = "idle" /\ record # None
  /\ \A p \in Paths : Room(<<r, v>>, p)
  /\ pc' = "ops"
  /\ run' = NewRun(r, v)
  /\ result' = Failed
  /\ before' = files
  /\ UNCHANGED <<files, record, world, settled>>

Adopt == record' = [record EXCEPT ![run.ref[1]] = run.ref[2]]

(* Apply records the recipe when output of its own is in place. *)
RecordAdoption ==
  /\ pc = "ops" /\ run.next > Len(Ops[run.ref])
  /\ IF run.materialized THEN Adopt ELSE UNCHANGED record
  /\ pc' = "report"
  /\ UNCHANGED <<files, run, result, history>>

(* The command records it again, when any file was written, and reports. *)
RecordRecipeAdoption ==
  /\ pc = "report"
  /\ IF run.written # {} THEN Adopt ELSE UNCHANGED record
  /\ pc' = "idle"
  /\ result' = [status |-> "ok", written |-> run.written, preserved |-> run.preserved,
                regenerated |-> run.regenerated]
  /\ settled' = IF run.preserved = {} THEN run.ref ELSE None
  /\ UNCHANGED <<files, run, world, before>>

-----------------------------------------------------------------------------
(* The world *)

Disturb(what) == what \in Env /\ world < MaxWorld /\ world' = world + 1

(* A payload or fragment is missing, a placeholder has no value, a document *)
(* does not parse, the engine exits with an error, a file cannot be opened.*)
OpErrs ==
  /\ Disturb("fails")
  /\ pc \in {"ops", "report"}
  /\ Fail
  /\ UNCHANGED <<files, record>>

(* A write fails or is interrupted and leaves the file truncated. *)
WriteTorn ==
  /\ Disturb("torn")
  /\ \/ /\ pc = "ops" /\ run.next <= Len(Ops[run.ref])
        /\ \/ Op.kind = "create" /\ Op.target # None /\ (~Present(Op) \/ Regenerates(Op))
           \/ Op.kind \in {"merge", "insert"} /\ Reachable(Op)
        /\ Write(Op.target, [Rendered(Op) EXCEPT !.text = Torn])
        /\ UNCHANGED record
     \/ /\ \/ pc = "ops" /\ run.next > Len(Ops[run.ref]) /\ run.materialized
           \/ pc = "report" /\ run.written # {}
        /\ record' \in {Nothing, None}
        /\ UNCHANGED files
  /\ Fail

Crash ==
  /\ Disturb("crash")
  /\ pc # "idle"
  /\ Fail
  /\ UNCHANGED <<files, record>>

(* Between applies: nothing an earlier apply promised binds any more. *)
Between(p, doc) ==
  /\ pc = "idle" /\ world < MaxWorld /\ world' = world + 1
  /\ Write(p, doc)
  /\ before' = files'
  /\ settled' = None /\ result' = Failed
  /\ UNCHANGED <<record, pc, run>>

Creates(ref, p) == {i \in DOMAIN Ops[ref] : Ops[ref][i].kind = "create" /\ Ops[ref][i].target = p}

(* The consumer edits a file, and may put waiver tokens next to the edit. *)
EditFile(p, tokens) ==
  /\ files[p] # None
  /\ Between(p, [files[p] EXCEPT !.edited = TRUE, !.tokens = tokens])

DeleteFile(p) ==
  /\ files[p] # None
  /\ Between(p, None)

OwnDoc ==
  [text |-> User, edited |-> FALSE, tokens |-> {}, settings |-> [k \in Keys |-> None],
   spliced |-> <<>>, rewritten |-> {}]

AddFile(p) ==
  /\ files[p] = None
  /\ Between(p, OwnDoc)

(* Somebody deletes the record that does not parse. *)
DeleteRecord ==
  /\ pc = "idle" /\ record = None
  /\ record' = Nothing
  /\ UNCHANGED <<files, pc, run, result, history>>

-----------------------------------------------------------------------------
Step == Create \/ Modify \/ SkipStep \/ OpFails \/ RecordAdoption \/ RecordRecipeAdoption

Next ==
  \/ Step
  \/ \E r \in Recipes, v \in Versions : Begin(r, v)
  \/ OpErrs \/ WriteTorn \/ Crash \/ DeleteRecord
  \/ \E p \in Paths :
       \/ DeleteFile(p) \/ AddFile(p)
       \/ \E tokens \in SUBSET (Tokens \union {Malformed}) : EditFile(p, tokens)

Spec == Init /\ [][Next]_vars

-----------------------------------------------------------------------------
Runs == [ref : Refs, next : Nat \ {0}, adopted : BOOLEAN, writtenNow : SUBSET Paths,
         materialized : BOOLEAN, written : SUBSET Paths, preserved : SUBSET Paths,
         regenerated : SUBSET Paths, again : BOOLEAN]

(* Files, memory, report and record have the shapes the code gives them,    *)
(* and no apply runs on a record that does not parse.                      *)
TypeOK ==
  /\ files \in [Paths -> Docs \union {None}] /\ before \in [Paths -> Docs \union {None}]
  /\ record \in [Recipes -> Versions \union {None}] \union {None}
  /\ pc \in {"idle", "ops", "report"} /\ (pc # "idle" => record # None)
  /\ run \in Runs
  /\ result \in [status : {"ok", "failed"}, written : SUBSET Paths,
                 preserved : SUBSET Paths, regenerated : SUBSET Paths]
  /\ world \in Nat /\ settled \in Refs \union {None}

-----------------------------------------------------------------------------
(* The consumer's: a file of their own, or one they edited. *)
Touched(p) == before[p] # None /\ (before[p].text = User \/ before[p].edited)

(* It is still the same text with the same edit. *)
Kept(p) ==
  /\ files[p] # None
  /\ files[p].text = before[p].text /\ files[p].edited = before[p].edited

(* Whatever work of the consumer an apply that succeeds has replaced, its   *)
(* report names as regenerated, whichever operations touched the file.     *)
ClobberIsReported ==
  result.status = "ok" =>
    \A p \in Paths : Touched(p) /\ ~Kept(p) => p \in result.regenerated

(* An edit is only ever replaced on behalf of a recipe that is on record    *)
(* and is no template, and never when a live waiver of one of its rules or *)
(* a token that does not parse is in the file, in a run that fails or      *)
(* crashes as well.                                                        *)
EditsAccountedFor ==
  \A p \in Paths : Touched(p) /\ ~Kept(p) /\ files[p].text # Torn =>
    /\ run.adopted /\ KindOfRun # "templating"
    /\ ~Covered(before[p], Enforcement[run.ref])
    /\ ~HasMalformed(before[p], Enforcement[run.ref])

(* After an apply that succeeds, each file the recipe creates has the text  *)
(* of this version, also after an upgrade, or is reported as preserved.    *)
OutputIsCurrent ==
  result.status = "ok" =>
    \A p \in Paths : Creates(run.ref, p) # {} /\ p \notin result.preserved =>
      /\ files[p] # None
      /\ \E i \in Creates(run.ref, p) : files[p].text = Ops[run.ref][i].payload

(* "The same recipe yields byte-identical output": when the last apply      *)
(* preserved nothing and nothing happened since, applying again changes no *)
(* file, though files are regenerated and merged into anew.  Only inserts  *)
(* into a file the recipe does not write itself splice once more.          *)
ReapplyIsStable ==
  result.status = "ok" /\ run.again =>
    \A p \in Paths :
      \/ files[p] = before[p]
      \/ Inserts(run.ref, p) # {} /\ p \notin run.writtenNow

(* "USER-OWNED files are NEVER clobbered by any kind": the consumer's own   *)
(* file keeps its text.                                                    *)
UserFilesKept ==
  \A p \in Paths : before[p] # None /\ before[p].text = User =>
    files[p] # None /\ files[p].text = User
=============================================================================
