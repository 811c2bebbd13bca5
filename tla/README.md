# A TLA+ verification of backstop

backstop is a Go command-line program that gates a software project: it runs
checks that come from *packs* (versioned bundles of rules that a project
installs), compares what they find with a baseline, subtracts inline waivers,
applies the project's enforcement policy and answers with an exit code. This
directory holds TLA+ models of the parts of the program that keep state or
decide a verdict, the TLC configurations that check them on small instances,
and TLAPS proofs of what holds for every instance.

The models are translated from the Go code; paths below are relative to the
repository root, `D/` stands for `pkg/pack/distribution/`, `G/` for `pkg/gate/`,
`C/` for `cmd/backstop/` and `V/` for `pkg/validate/`. `PROJECT.json` maps each definition to its lines.

## 1. Inventory

| Component | State it keeps | Operations | What is hard about it |
|---|---|---|---|
| Pack lifecycle (`D/`) | `backstop.yml`, `backstop.lock`, `.backstop/packs/`, `pack-config-provenance.json`, tool configuration, `.gitignore` | add, install, update, upgrade, remove, relock; `VerifyLock` in the gate | several files written one after the other without a journal; rollback in some commands and not in others; overlay copies; renamed packs; moved tags; crashes |
| Gate verdict (`G/`, `pkg/waiver`) | the accumulated step results of one run | steps, waiver resolution, baseline comparison, policy | order of the passes; findings that share an identity; files outside the scope; missing baselines; expiring waivers |
| Baseline store (`C/baseline.go`, `C/gate.go`) | `.backstop/baseline.json`, the artifact CI publishes | generate, pull, refresh after a TTL | stale cache after a failed refresh, a torn write |
| Gate wiring (`C/gate.go`, `C/pack_gate*.go`) | none | step order, scope resolution, tool provisioning, exit code | a configuration error stops the run in the middle |
| Artifact id reservation (`pkg/scaffold/idresolver.go`) | git tags, local and remote | reserve, retry, fall back to a local scan | two developers at once; a push that failed and yet arrived |
| Recipe apply (`pkg/recipe`, `C/recipe_apply.go`) | project files and the adoption record `backstop-recipes.lock` | create, merge, transform, insert, step | an operation fails after others wrote; the record comes last, is per recipe and decides who owns a file; merges that lose comments |
| Initialisation (`pkg/initialize`) | project scaffold | idempotent steps | re-run after a failed step |
| Artifact validation (`V/`, `C/artifact_validate.go`) | none (reads the artifacts) | one validator per kind, resolution of `supports` references | rules that relate two files: a closed issue and its plan, a pin and a version log |
| Plan rules (`V/plan.go`) | none | dependency closure, file exclusivity, test-first and phase rules | they speak of every order in which parallel implementers may run the tasks |
| Artifact status, drift, traceability (`G/`) | none (reads artifacts and tests) | status classes, mandated tests, stale pins, gaps and remedies | a change breaks what another, untouched file promises |
| Pack engine dispatch (`C/pack_gate*.go`, `pkg/pack/engine`) | report files the tools leave on disk | provisioning, targets per scope, dispatch, reading of reports | a tool that is missing, dies, is silent or prints noise; one failing engine among others; old reports |
| Coverage, contract, substantiveness, test verification (`G/`) | none (analysis) | thresholds, verdicts and joins; the polarity of a dimension no pack measures | boundaries; evidence of one file or test taken for another; no evidence taken for good evidence |
| Pack validation (`pkg/packval`) | a scratch copy | phases, sandbox | phase order, early exit |
| Base engines (`pkg/baseengines`), manifests, checks, configuration, other commands, scripts | none | parsing, formatting | input and output |

How they interact: the pack commands write the files the gate reads.
`VerifyLock` is the first gate step; an installed pack that does not match
its lock entry stops the run as a configuration error. Pack engines turn the
rules of installed packs into findings; the built-in steps add theirs. The
waiver pass rewrites the results accumulated so far, the baseline comparison
looks at what is left, and the policy re-derives each step's status last. What a
full run on `main` finds is what CI publishes as the next baseline, which
developers' runs read through the cache. There is no shared memory
concurrency in these parts: what interleaves is processes over files, and
people, CI and the clock between them.

What makes each part correct:

* lifecycle: what is locked was validated; manifest, lock and installed trees
  agree between commands; install rebuilds exactly what is locked; a rollback
  really restores; a command that reports success has done all of its work,
  whatever an earlier crash left behind; every command ends;
* gate: a green verdict hides nothing, a red one has a reason, and merging on
  green never adds debt to main, whatever happened to the baseline cache;
* id reservation: a number claimed by a pushed tag is never given twice, however
  processes race, crash and retry; every command ends;
* recipes: the consumer's work is replaced only when nothing accounts for it, and the
  report says so; output is current after an apply, and applying again changes
  nothing;
* promises: what main calls delivered or closed has the tests, the plan and the
  current requirement behind it, although each merge looks at a diff; the remedy a
  finding names works;
* plans: a plan that validates can be carried out by several implementers without
  two of them in one file, in the order the method asks for, and to the end;
* evidence: a step that does not fail is true of the files, whatever the tools and
  packs do, and a full sweep never sees less than a diff.

`PROJECT.json` lists the hazards, each at its line, with the properties that
would notice it going wrong.

## 2. Modules

| Module | Models |
|---|---|
| `PackTrees` | trees, content hash, manifest, versions, tamper detection (`D/hash.go`, `identity.go`, `versionresolver.go`, `tamper.go`) |
| `PackLifecycle` | the six pack commands as steps over the project's files (`D/command.go`, `add.go`, `install.go`, `remove.go`, `relock.go`, `lockfile.go`, `provenance.go`, `config_merge.go`, `verify.go`) |
| `PackLifecycleProofs` | what the commands keep and what each one guarantees when it is done, proved |
| `PackStore` | the abstract promise of the pack commands: a store of validated pins. `PackLifecycle` instantiates it |
| `PackStoreProofs` | manifest, lock and trees agree between commands, and the refinement of `PackStore`, proved |
| `MCPackLifecycle`, `MCPackFaults` | two small projects for TLC |
| `GateVerdict` | what a step, the comparison, the waiver adjudication and the policy decide: operators without state (`G/gate.go`, `policy.go`, `baseline.go`, `step_waiver.go`, `scope.go`, `pkg/waiver`) |
| `GateRatchet` | gate runs step by step, the baseline cache, edits, merges, the clock (`G/gate.go`, `C/gate.go`, `C/baseline.go`) |
| `GateRatchetProofs` | the verdicts and the ratchet, proved |
| `MCGateRatchet` | a small project for TLC |
| `IdReservation` | `artifact new`: concurrent reservation of numbers by git tags (`pkg/scaffold/idresolver.go`, `git_executor_real.go`, `C/artifact_new.go`) |
| `IdReservationProofs` | the theorems about it |
| `MCIdReservation` | three processes in two clones for TLC |
| `RecipeApply` | `recipe apply`: operations on the project's files, preserve or regenerate, the adoption record (`pkg/recipe/apply.go`, `adoption.go`, `manifest.go`, `C/recipe_apply.go`) |
| `RecipeApplyProofs` | the theorems about it |
| `MCRecipeApply` | two recipes in two versions for TLC |
| `ArtifactRules` | the artifact validators and the resolution of `supports` as functions of front matter (`V/spec.go`, `issue.go`, `bundle.go`, `contracts.go`, `delivered_by.go`, `resolved_by.go`, `terminal.go`, `adr.go`, `directive.go`, `supports_resolution.go`) |
| `Delivery` | the artifact, test-verification, drift and traceability steps over a project that is edited and merged (`C/artifact_validate.go`, `C/gate.go`, `G/artifact_status.go`, `status_drift.go`, `requirement_traceability.go`, `step_testverify.go`, `test_verdict_join.go`) |
| `DeliveryProofs` | what green runs promise about any corpus, and that remedies work, proved |
| `MCDelivery` | a bundle, two specs, an issue, two plans, two tests for TLC |
| `PlanSchedule` | the plan validator and the execution of an accepted plan (`V/plan.go`) |
| `PlanScheduleProofs` | accepted plans of any size, proved |
| `MCPlanSchedule` | a plan of two phases and five tasks for TLC |
| `PackDispatch` | which engine runs on what, and what its outcome means (`C/pack_gate.go`, `pack_gate_filemode.go`, `pack_gate_provision.go`, `pkg/pack/engine/binding.go`) |
| `Evidence` | pack_engines and the coverage, contract and substantiveness steps over files, tools and packs that change (`C/gate.go`, `G/step_coverage.go`, `step_contract.go`, `contract_verdict.go`, `substantiveness_join.go`, `traceability_polarity.go`) |
| `EvidenceProofs` | what a run that does not fail says about any project, proved |
| `MCEvidence` | four packs, eight tools, two specs for TLC |

### PackLifecycle

The first eight variables are what is on disk or published: `yml`, `lock`, `prov`, `conf`,
`dirs`, `ignored` are the project's files, `source` and `remote` the local
pack directories and the tags of the repositories. `lock = None` is a missing
lock file, `prov = None` a provenance file that does not parse. `pc`, `op`,
`arg`, `cmd`, `snap` are the running process: the write it is about to make and
what it holds in memory. `out` and `report` are what it told the user.

A command starts with one action (`AddGit`, `AddLocal`, `Update`, `Upgrade`,
`Remove`, `Relock`, `Install`) that stands for everything before the first write:
reading files, cloning, the identity check, validation on a scratch copy,
tamper detection. None of that changes the project, so it is atomic; each early
return is a disjunct that answers `refused` or `noop`. The writes then happen
one action each, in the order of the code:

* add: `copy` (file by file, over what is there), hash and snapshot, `merge` of
  the tool configuration, `prov`, `yml`, `lock`, `gitignore`; from `merge` to
  `lock` a failure runs the rollback `undo_dir`, `undo_yml`, `undo_lock`,
  `undo_prov`;
* install: for each declared pack in name order, look up, check the hash, copy;
  a failure wipes the packs directory and copies the snapshot back;
* update: `wipe`, `copy`, `yml`, `lock`; upgrade: `merge`, `wipe`, `copy`,
  `prov`, `yml`, `lock`; neither has a rollback;
* remove: `wipe`, `yml`, `lock`, `prov`; relock: `lock`.

`Crash` ends the process at any write and `WriteFails` makes one return an error;
both may leave the file being written truncated (`os.WriteFile` is not
atomic): an empty manifest or lock, an unparsable provenance. `World` is what
happens between commands: an installed file or a source directory is
edited, a tag published or moved, a branch without packs checked out, the project
cloned afresh. `Env` selects which of these a run has, and
`MaxDisturbances` bounds their number, crashes and failures included.

Abstractions: one command at a time; a digest is the data it digests; the
content of `pack.yml` determines a manifest through a table; validation is
membership in a set of trees; the merge of the tool configuration is one write;
errors inside a rollback are ignored, as the code ignores them, and so do not
occur; `backstop.yml` exists; a tool-configuration file that does not parse
is not modelled; `install --cache` passes the same hash check as a clone and is
not distinguished. In production the violation scan of upgrade is not wired
(`C/pack_wiring.go`), so every upgrade is refused after validation; the rest of
the command is there, and `ScanAvailable = TRUE` checks it.

**PackStore.** What a user is promised needs none of these files: each name has a
pin, a validated release, or none; a pack is intact while the project holds the content
of its pin; pins change one at a time, a new one is intact at once, and a pin is given
up only when the pack is gone. The refinement mapping reads `pins` from the lock
(`Pins`) and `intact` from the installed trees (`IntactPacks`), and
`ImplementsPackStore` says that every single write of every command is a step of the
store or none. It is checked and proved where nothing crashes or fails: after a crash the lock
does pin what is not there.

### GateVerdict and GateRatchet

A finding is a name with a record of fields: step, rule, file, line, identity,
severity, pack, and `cause`, the file whose content makes it appear (a status
drift is reported in the artifact but caused by a deleted test). `code` is the set of
findings the working tree has now. The pipeline of a run is `StartGate` (scope and
baseline), then one action per step of `StepOrder`: `RunStep` for the ones that
inspect the project, `FailStep` for their configuration errors,
`WaiverResolution`, `BaselineComparison`, `LedgerIntegrity`. The last one, or
a configuration error, applies the policy and sets `exit`.
`EditFile`, `Tick`, `Merge`, `PublishBaseline`, `GenerateBaseline`, `PullBaseline`
happen between runs.

Abstractions: what a step finds is given, not computed; an edit happens
between runs, not during one; waivers are judged at the time the run started;
the severity tier of the non-waivable rules is not modelled; the scope of test
verification, which accepts a finding when its test or its spec is in scope,
is reduced to the finding's file; at least one toolchain pack is declared (without
one the gate adds a warning step); a diff is taken against `origin/main`.
The GitHub calls of pull and refresh are a choice between success and
failure.

### IdReservation

`remote` is the tags of origin, `tags` and `files` what each clone has. `pc`, `num`
and `attempts` are the running processes; `issued` is a history of what `ResolveID`
returned. Each git command is a step: `FetchTags`, `ListTags`,
`CreateAnnotatedTag`, `PushTag`; `LocalScan` is the fallback and `WriteArtifact` the
rest of the command. Between any two of them other processes run, in the same clone or
another. `Env` adds a git that fails (`GitFails`, and a push that does not
arrive), a push that arrives and is reported as failed (`lost`), a protected
tag, whose refusal the code takes for a conflict (`protected`), and `Crash`, which
also stands for an error that ends the command. `Pull` carries artifacts from clone to
clone.

Git itself is modelled from how the code calls it: `git fetch --tags` takes the new
tags, refuses to overwrite a different tag of the same number and then exits with an
error; `git tag -a` refuses an existing number; `git push` of a number that origin
has as another object is rejected. A tag is its number and the clone that made it.

Abstractions: one artifact type, not plan, whose file names carry no number; the
check that the file is absent and its write are one step (two processes write the
same file only if they were given the same number); numbers start at 1 in an
empty repository.

### RecipeApply

`files` maps each path to a document, `record` each recipe to the version on record.
A document is what the applier can tell apart: the text it started from (a
payload, the consumer's own, a truncated write), whether somebody edited it, the
waiver tokens in it, its settings, and the snippets and rewrites put into it. It
equals the rendered payload only if nothing at all was done to it since. `run` is the
memory of an apply (`ownership` and `ApplyResult` in the code), `result` what the
command reported. `before` and `settled` are histories for the properties.

`Begin` stands for everything up to the first operation, none of which writes.
Then one action per operation: `Create` with its preserve, keep or regenerate
decision, `Modify` for merge, insert and transform, `SkipStep`, and `OpFails` for an
operation that cannot be done. An error ends the apply with an empty report and
undoes nothing. The record is written twice, as in the code: by `Apply` when a
create left output of the recipe in place (`RecordAdoption`), and by the command
when any file was written (`RecordRecipeAdoption`). `Env` adds an operation that
fails (`OpErrs`), a file or a record left truncated (`WriteTorn`) and `Crash`; between
applies files are added, edited with any set of waiver tokens, or deleted.

Abstractions: one apply at a time, in direct mode, the only one a command
uses; an edit changes data and not only comments; a waiver token is live or expired
when it is written into the file; a merge succeeds in a truncated file, which the
json decoder would refuse; yaml stands for toml as well; in json a token can
only be part of the data and survives a merge; a transform is an external program
and leaves the tokens; a snippet does not remove the anchor. References,
parameters and manifests that do not parse are refused before anything is
written and are left out.

### ArtifactRules and Delivery

`tree` holds the artifacts by kind and the tests, `changed` the files changed since
the last merge. An artifact is a record of the fields other parts of the gate read
(status, requirements, claims, tests, pins, version logs, close pointers); what only a
pattern or the presence of text decides is a member of `malformed`, the set of the
blocks that fail. A validator returns the set of the rules it raises.

The code reads one front matter three times. The validators take it as it comes
(`pkg/artifact/parse.go`). The records of the status walk come from a small struct
(`artifactFrontmatter`, for plans and bundles their own), and `Typed` says which files it
accepts. The promises of a spec come from a larger struct, which also types
`verification`, `implementation`, `contracts` and the details of claims
(`parseSpecFrontmatter`). Both skip what they cannot decode without a word
(`G/artifact_status.go:550`, `G/step_testverify.go:145`), so a spec may have a record and
no tests (`RecordedTests`), or tests and no record. Where a validator looks at the block,
its form says so ("map" or "list", "absent", "scalar"). The values no validator looks at
are `fits`, the decoders they suit: `coverage_metric_thresholds: 80`, `kind: [absence]`,
`number: [1]`, or a blank line before the front matter, which only the validators' parser
skips.

People edit one file at a time: a status moves, with or without the pointer it needs; a
requirement gets a version, with or without its log entry; pins move; claims
disappear, stop being a list, or the file stops parsing; a block of a spec becomes a single
value (`MistypeBlock`); a value gets or loses the type a decoder expects (`EditFits`);
tests vanish or fail. `Merge`
is possible when the four steps are green on the diff. A run is a function of tree and
scope (`Green`), because the steps only read; the module keeps what each step does with the
scope: validation findings are filtered by file, drift and traceability always sweep
(`computeDriftSurfaces`), a mandated test is checked when it or its spec is in scope.

Abstractions: an artifact's id is its base name; a version is three numbers; one
installed pack decides discovery and verdicts (`toolchain`); policy, baseline and
waivers are those of `GateRatchet` and are not repeated, so every error counts.

### PlanSchedule

The state is the plan, the stage, and which tasks are started and done. In stage
`editing` an author changes types, dependencies, files, phases and ids; `Approve`
requires that the validator (`Plan`) raises nothing; then `StartTask` may start any task
whose dependencies are done, any number at once. The implementers are not in the
repository. They are modelled by what the rules of the validator are there for; phases
order nothing by themselves.

### PackDispatch and Evidence

`files`, `facts` and `covered` are the sources: a fact says what is true of a file (a
defect, a failing test, a symbol, a call, a hollow test) and which tools can see it.
`tool` is the condition of each tool: ok, absent, dead, silent, noise, or foreign (it
exits well with a document of another format). `report` is the file it left on disk. `declared` and `onDisk`
are the packs, `entries` the toolchain declarations, `due` the implemented specs.
A path is the sequence of its segments, so prefixes, suffixes and `testdata` are what
they are in the code.

`dispatchPackEngines` walks packs and engines as the code does, past failures;
`emptyPayloadExitError`, `neverStartedError` (in `Failed`) and `Readable` decide what an
outcome means; `Targets` is what the tool is pointed at in each scope; `FilterViolations`
is the scope filter. `Steps` is the sequence of the steps, and `Reached` those before and
including the first configuration error. `RunGate` changes nothing but the reports on
disk and leaves its scope and steps in `last`, which the next edit clears; the properties
speak of `last`. A second run in the same state would meet the same files and tools, so
the model makes one. `due` are the implemented specs whose promises are read; one that
`parseSpecFrontmatter` skips (`Delivery`) brings no threshold, contract or test.

Abstractions: tool reports name files by project-relative paths; a convert script refuses
what it cannot read; a file has two statements; one metric per record, or a
second one (`branch`) a spec asks for; the signature a contract compiles to is the name of
its symbol. The lock verification step is part of `PackLifecycle` and test
verification part of `Delivery`.

## 3. Runs

Bounds are in the `.cfg` files and the MC modules.

| Run | Question | Bounds | Result |
|---|---|---|---|
| `lifecycle_undisturbed` | Do lock, manifest and trees agree through any sequence of commands, and can install rebuild them? | two packs, two repositories (one of which renames its pack and uses the other's name), three versions, one local directory, three paths with `.git`; one moved or new tag, edited source or fresh clone | passes |
| `lifecycle_faults` | What survives crashes, failing writes, hand edits and checkouts? Does every command end? | one pack in two versions and a local fork of the same name, two paths, three disturbances | passes |
| `gate_verdicts` | Is every green run earned, and every red one? | all sets of six findings, nine waiver combinations, four policies, three baselines, scopes all, diff and each file, any step failing | passes |
| `gate_merges` | Can a merge on green add debt to main? | three findings (two with one identity), two waivers, two edits, one tick, all store operations | passes |
| `ids` | Can two commands be given one number by a tag? Does every command end? | two processes in one clone, one in another, one command each, one retry, all faults; numbers up to 10, which is never reached | passes |
| `ids_online` | the promise of a unique number, with nothing failing | the same processes, two commands each, the code's three retries | violated, see section 5 |
| `recipe_runs` | What may an apply replace, and does it say so? Is the output current, and stable? | a recipe of each behaviour (regenerating, template), two versions each, two files, the consumer's or absent at the start, two disturbances, three splices in a file | passes |
| `recipe_user_files` | the promise of the recipe specification about the consumer's files | the same recipes, no disturbance | violated, see section 5 |
| `delivery` | Is what main calls delivered and closed backed, and do remedies work? | one bundle with one requirement, two specs (one retired), one issue, two plans, two tests and a pack claim, three versions (a patch and a major step), a bundle that may be retired, blocks and values of a wrong type, three edits, any number of merges, a toolchain with or without a way to find the tests (one without verdicts only reports less; the proofs cover any toolchain) | passes |
| `delivery_changed` | the promise that a diff-scoped run validates the artifacts of the diff | the same project | violated, see section 5 |
| `plans` | Does an accepted plan run without conflicts, in order and to the end? | five tasks in two phases, three edits of types, dependencies, files, phases and ids, then every order of execution | passes |
| `evidence` | Is a step that does not fail true of the files? | four packs (one a rival for two dimensions), eight tools in up to six conditions, six possible faults, two specs, two edits, a run before and after each of them in scope all, diff or one file | passes |

The lifecycle bounds are the smallest with a rename, a name collision, an
overlay that leaves a file behind, a weakened release, a conflict of settings
and a major version that must not be taken. Three disturbances let a crash meet what
a checkout and an edit left. Commands are not bounded: sequences of any length
are covered because the state space is finite. In `gate_verdicts` the six findings
are one of each kind the code treats differently: an ordinary one, a warning, one
reported in another file than its cause, one without a line, one without a file,
and a project-wide one of a non-waivable rule. `gate_merges` has two findings of one
identity, which is what could hide one behind the other, and two edits, one
to fix and one to reintroduce.

In `ids` one command per process is enough for every pair of steps to interleave,
for a tag left by a crash to meet a later command, and for a conflict to be retried
and to run out.

In `recipe_runs` the number of applies is not bounded. Two disturbances let
a failed or torn apply meet an edit, in either order; three splices let a snippet be
inserted by both versions and once more. The first version of `svc` creates and merges
one file, creates and inserts into the other; the second creates, merges and
rewrites one and inserts into a file it does not create; the second version of `doc`
ends in an operation the applier does not know.

In `delivery` three edits are what it takes to retire or drop a test, move a
requirement and answer for it in another file; the versions have a step that makes a
pin stale and one that does not. In `plans` three edits build a cycle across phases, or
move a task to another phase, retype it and give it a file of another one. In `evidence`
two edits let a fault meet a broken tool, a lost pack, a second pack for one
dimension or a changed spec, before and after runs that left a report behind.

Deadlock is checked in the lifecycle, gate and recipe runs: the system can always
start a command or a gate run. In the id runs the number of commands is bounded, in
`delivery`, `plans` and `evidence` the number of edits, and when they are used up and
all is done nothing is left to do. That a plan itself cannot get stuck is `NeverStuck`.

Fairness: `FairSpec` asks for weak fairness of `Step`, the writes of a running
command: a started process keeps running. Commands need not be started, nothing
in the environment is fair, and crashes stay possible. `CommandTerminates` needs no
more because a command waits for nobody. In `IdReservation` each process
has its own weak fairness, for the same reason: no process holds anything
another one waits for.

The properties:

* `LockedIsValidated`: what a git entry pins passed validation and carries the
  locked name and version. install never validates and depends on it.
* `ManifestLockAgree`, `NoDrift`: between commands the manifest, the lock and the
  installed trees agree, although each command writes them one by one.
* `InstallRestores`: after a successful install the gate's lock verification is
  green and every declared pack is there with its locked content.
* `AddIsReproducible`: the hash add records is the one install will compute.
* `RollbackRestores`, `RemoveIsComplete`, `ReplaceHeals`: after a rollback, a
  successful remove, a successful update or upgrade, in whatever state crashes
  had left the project.
* `ImplementsPackStore`: the refinement of `PackStore` described in section 2.
* `CommandTerminates`: every command ends.
* `GreenIsEarned`, `RedIsEarned`: the verdict, stated from findings, waivers,
  baseline and policy without the passes that compute it. Red without a policy
  includes a new warning, see section 5.
* `NoNewDebt`: the ratchet, a property of steps. It speaks of findings that sit in
  the file that causes them; for the others it is false, see section 5.
* `ReservedOnce`: a number is issued through a tag at most once.
* `TaggedFilesDiffer`: as long as nobody fell back to the scan, no clone holds two
  artifacts of one number, whichever way they got there.
* `ReservationEnds`: every `artifact new` ends, the retries included.
* `ClobberIsReported`: what a successful apply replaced of the consumer's files and
  edits is in its list of regenerated files, whichever operations touched them.
* `EditsAccountedFor`: an edit is replaced only by a recipe that is on record and is
  no template, and never against a live waiver or an unreadable token, in runs that
  fail or crash as well.
* `OutputIsCurrent`: after a successful apply, every file the recipe creates has
  this version's text or is reported as preserved, whatever earlier failures left.
* `ReapplyIsStable`: applying again changes no file, although files are regenerated
  and merged into anew. Inserts into files the recipe does not write are the
  exception: each apply splices once more.
* `MergedIsDelivered`: merges look at a diff; even so every requirement of a delivered
  bundle on main has an implemented spec whose pin was not outrun and whose mandated
  tests exist. It depends on drift and traceability sweeping in every scope. It says
  nothing of the tests of a spec whose promises are not read, nor of a bundle without a
  record. In a diff that is any spec with a mistyped block, such as `contracts: none`: it
  covers its requirement, its validation finding is dropped (`delivery_changed`), and the
  deletion of its test merges.
* `SweepIsTotal`, `ClosedIsBacked`: what a green full run adds: real and current pins,
  tests that are mandated, exist and do not fail; and a completed plan for the issue, its
  own tests, or a reference behind each closed issue. A full run sees the mistyped blocks,
  so what is left out is less: the tests of a spec, plan or issue in which a value that no
  validator looks at keeps the decoder out (`fits`).
* `StaleMeansOlder`: where the artifacts validate, a stale pin is an older one. It ties
  the order of the version log, one validator's rule, to the comparison of another step.
  It speaks of the references traceability looks at; the log of a retired bundle is no
  longer validated.
* `RemedyClosesGap`: doing what a traceability finding asks for removes it and
  raises no other finding. One thing may change: the code names one stale pin of the
  spec a plan carries out, and after that one's remedy the plan's finding may name
  another, which was a finding of its own before.
* `ParallelIsDisjoint`, `OrderIsKept`, `NeverStuck`: of every execution of an accepted
  plan. `OrderIsReachability`: the closure computed in one pass is reachability, which is
  stated without it, on every plan, the rejected ones included.
* `CleanScanIsReal`, `FailureHidesNothing`, `SweepCoversDiff`: pack_engines, with tools in
  any condition: no fault in scope goes unseen by a step that does not fail; findings
  survive the failure of other engines; a sweep has every error of a narrower run. The
  first two leave out engines that the step says it skipped. `Unread` is what no reader of
  an answer could know, and an exception to the first: the tool wrote nothing and its
  report of an earlier run is still there, or it answered in a format of its own, which an
  engine without a convert script is lax about unless it is declared strict.
* `QuietGreenIsEnforced`: a run in which every step passes without a finding was
  enforced by the declared packs, a toolchain pack among them, each dimension measured.
* `CoverageHolds`, `ContractsAreTrue`, `SubstantiveMeansCalls`: what the three dimensions
  say of the files when their step does not fail, with the joins by path, package
  and test in between. Each says where the join cannot tell: coverage where the
  record of a nested twin ends in a file's path (`Shadowed`) or a changed spec decides alone
  (section 5); contracts where the pack's engine is no pattern search; substantiveness where
  two files share a base name; coverage and the calls of a test where a tool wrote
  nothing and its last report is read again. A contract is judged by each pack that
  measures contracts, on its own.

## 4. Proofs

`PackLifecycleProofs` proves, for any sets of names, coordinates, versions,
trees and settings that satisfy the assumptions of the modules, and for any number
of disturbances:

* `TypeCorrect`: `Spec => []TypeOK`. The type invariant alone is not inductive:
  a rollback reads `snap`, and a write reads `arg`, so the proof carries
  what each value of `pc` implies about them (`TypeInv`).
* `LockSound`: `Quiet /\ Spec => []LockedIsValidated`, where `Quiet` says that
  commands do not crash, writes do not fail and no branch is checked out; moved tags,
  edited sources, hand edits and fresh clones stay possible.
  `LockedIsValidated` is about the moment the lock is written, many steps
  after validation. The inductive invariant `LockInv` follows the tree on its way:
  the tree in memory is the validated release (`Release`); the target directory
  was empty when the copy started (`ClearedFirst`, from `NoLeftovers` for
  add and from the wipe for update and upgrade); what has been copied so far is
  that tree's prefix (`CopiedSoFar`); and the hash computed from the directory is the release
  (`HashOfRelease`). `NoLeftovers`, that no directory is present without a lock
  entry between commands, is why `Quiet` is needed: after a crash, a failed copy or a
  checkout an undeclared directory can remain, the next add copies over it and
  locks the mixture. That is a hazard of the code, not of the proof:
  the copy of add has no rollback (`D/command.go:267`).

`IdReservationProofs` proves `NumbersReservedOnce`: `Spec => []ReservedOnce`, for any
number of processes, clones, retries and commands and with all faults. The
argument is that a tag is created once in its clone and accepted once by origin. The
inductive invariant `IdInv` says: every number issued through a tag is on origin
as a tag of the issuer's clone (`Backed`); origin has one tag per number
(`FirstWins`); a clone knows its own tags, those on origin included (`Known`); and
a process about to push has created its tag, is the only one to push it, and origin
does not have it yet (`Unpushed`). The last part is needed because git lets a push
of a tag that origin already has succeed.

`RecipeApplyProofs` proves, for any recipes, operations, files and number of
disturbances:

* `ReportsClobbers`: `Spec => []ClobberIsReported`. The invariant (`Ledger`) follows
  every file that was there when the apply started through the operations: it
  still holds the consumer's text and edit, or this run wrote it and lists it as
  regenerated, or it is the truncated file of a run that failed. It includes the type
  invariant.
* `EditsSafe`: `CreatesFirst /\ Spec => []EditsAccountedFor`, from `Ledger` and
  `Judged`: a file this run wrote was unaccounted for, and one it has not written has
  the tokens it had. `CreatesFirst` says that no recipe merges into a yaml file
  before it creates it: the merge would remove the tokens the create then looks for.
  It is an assumption about recipes that nothing in the code enforces.

* `Reapplies`: `TemplatesCreateOnce /\ Spec => []ReapplyIsStable`. What an operation list
  makes of a file is its history from the first create on, if the file is made anew
  (`Trace`, `Output`: `OneHistory` is the induction over the list); a file that stays
  bears the marks of the merges and rewrites already, and they do nothing to it
  (`Mark`, `Imprint`). `StableInv` says during an apply that each file is where its history
  has come to (`Progress`), that what was put on record is (`Recorded`), and after one what it
  left for the next to find (`Leavings`, `Again`). `TemplatesCreateOnce` says that a template
  creates each file once. The manifest check only refuses two operations of one id
  (`pkg/recipe/manifest.go:190`), so it is an assumption about recipes: a template that
  creates, merges and creates one path keeps the settings of its merge on the next apply.
* `OutputHolds`: `Spec => []OutputIsCurrent`. Its invariant (`CurrentInv`) says of every
  create the apply has passed that the file has a text of this version or is in the list of
  preserved files; the operations that come later keep the text.

`PackLifecycleProofs` also proves, with all disturbances and from any state they can
leave, what a command guarantees when it says it is done:

* `RollbackIsComplete`: `Spec => []RollbackRestores`. The invariant compares what is on
  disk with the project as the command found it, one clause per write and per step of
  the rollback.
* `RemovesAll`: `Spec => []RemoveIsComplete`, and `ReplaceIsExact`:
  `Spec => []ReplaceHeals`: each write is followed by the fact it establishes, until
  the last one.

`PackStoreProofs` proves what the commands keep together. Under `Quiet`: `FilesAgree`
(`ManifestLockAgree`) and `AddReproduces` (`AddIsReproducible`). Under `Undisturbed`, which is
`Quiet` and no hand edit of an installed file: `ContentIsLocked` (`NoDrift`),
`InstallIsComplete` (`InstallRestores`) and `CommandsImplementStore`, the refinement of
`PackStore`: the initial states map to initial states and every write to a step of the
store or a stutter. The invariant `StoreInv` carries, for each value of `pc`, which pack is
between two writes and what is on disk of it; all other packs are locked as installed.
The conditions are needed: `lifecycle_faults` shows what a crash leaves, and install
copies over an edited directory without clearing it.

`IdReservationProofs` proves `FilesDiffer`: `Spec => []TaggedFilesDiffer`, from `IdInv` and two
more facts: a process about to write holds a number it was issued (`Holds`), and every
file of every clone is the one the holder of its number writes (`Traced`), since files only
travel between clones.

`GateRatchetProofs` proves, for any findings, files, waivers, policies, worlds and
number of edits:

* `GateTypeCorrect`: `Spec => []TypeOK`;
* `GreenHidesNothing` and `RedHasAReason`: `Spec => []GreenIsEarned`,
  `Spec => []RedIsEarned`. The invariant `RunInv` says what each result of a running gate
  holds: before waiver resolution the findings its step reports (`Raw`), after it what
  waivers leave of them (`Settled`), and what the waiver and the baseline
  results stand for (`WaiversSettled`, `BaselineSettled`); the exit code follows from these.
* `RatchetHolds`: `Spec => NoNewDebt`, an action property. `BranchInv` says that what
  differs between the working tree and main sits in touched files, so that the
  diff-scoped run looked at it.

The assumptions are typing and that `None` and `Corrupt` are no sets of identities; a
finding belongs to a step that reports findings of the project (`FindingSteps`).

`DeliveryProofs` proves, for any corpus that the parsers decode
(`DeliveryAssumption`), any toolchain and any history of edits:

* `SweepMissesNothing` (`SweepIsTotal`), `ClosedIssuesAreBacked` (`ClosedIsBacked`) and
  `StalePinsAreOlder` (`StaleMeansOlder`). The first part of the module says, rule by
  rule, what a validator that raises nothing excludes, the second what the steps of a
  green run exclude together. The last theorem is an induction over the version log: each
  entry is newer than the one before, so the last is the newest. The only fact about
  histories is `ProjectKeepsShape`, that edits keep the decoded shape.
* `MainIsDelivered`: `Answered /\ SpecD => []MergedIsDelivered`. `Answered` is the
  promise itself at the start, since `InitTree` is any project; a green run of any scope
  implies it (`GreenAnswers`). That the scope does not matter is the point: drift and
  traceability look at everything that the decoders accept. For a full run `BlockFacts`
  says which that is: a spec that validates is read if its other values suit.
* `RemediesWork`: `SpecD => []RemedyClosesGap`. A tree is repaired (`Repairs`) if bundles and
  plans are as they were, each reference stands or its pin moved to the current version, a
  new reference is a current pin of an implemented spec, and each citer keeps its class or
  is implemented now. Then no
  finding is new (`NothingNew`), whichever remedy it was. Each of the three remedies is a
  repair (`ImplementRepairs`, `RePinRepairs`, `FreshRepairs`) and takes away what its finding
  says (`ImplementCloses`, `RePinCloses`, `FreshCloses`). The spec a remedy adds has an id that
  no artifact has (`FreshSpec`). The proof is why the property speaks of a plan's finding
  that names another pin: without that it is false, in corpora larger than the run's.

`PlanScheduleProofs` proves, for plans of any size that have the decoded shape
(`PlanAssumption`):

* `ClosureIsReachability` (`OrderIsReachability`): the rounds of the closure compute
  reachability. After round k a row holds its direct members, with each of the first k
  tasks what that one has, and nothing out of reach.
* `ParallelWorkIsDisjoint` (`ParallelIsDisjoint`) and `TestsComeFirst` (`OrderIsKept`): a started
  task has all its dependencies done, those it reaches included.
* `PlansFinish` (`NeverStuck`): of the tasks left take one whose set of reachable tasks is
  least; one it still waits for would reach strictly less, because an accepted plan
  has no cycle, so it waits for none.

`EvidenceProofs` proves, for any packs, engines, tools, specs, files and facts, and any
number of edits between runs, all seven properties of `Evidence`: `CleanScan`, `FailureHides`,
`SweepCovers`, `QuietGreen`, `CoverageIsTrue`, `ContractsTrue` and `SubstantiveCalls`. An edit
clears `last`, so each is a fact about one run (`RunOrEdit`), and the inductive part is only
that the state a run starts from has its shape (`EvidenceInvariant`). The argument
goes the way the code goes: what one engine answers for each condition of its tool; the walk
over packs and engines, which goes past failures; the step; the sequence of steps, of which
the later ones are not reached after a configuration error. A run writes reports while it
reads them, so the lemmas also say which reports it replaces. The joins
come last: keys that collide keep the better record, so the one that counts is a record
of the file unless another file shadows it. The assumptions, and why the code grants them:

* `PacksAssumption`: the pack order names each pack, and rules are lists; the installed
  packs are walked in the order of `backstop.yml`.
* `BindingsAssumption`: exit code 0 is a success of every binding
  (`ValidateSuccessExitCodes`) and 2 stands for one it does not declare; an engine in the
  manner of grep accepts 1 and answers on its standard output; an engine without a tool
  is the sandbox validator (`C/pack_gate.go:352`). The code refuses to run another one
  (`pkg/packval/executor.go:79`), and that is left out.
* `FilesAssumption`: no path of a file is below another file's.
* `WorldAssumption`, `SpecsAssumption`: facts are about files of the project or about none;
  thresholds are percentages.

Inductions over data (rounds, paths, version logs, operation lists) are carried out with the
least-number principle (`LeastNatural`, `LeastNumber`): take the least counterexample.

Model-checked only: termination (`CommandTerminates`, `ReservationEnds`). Liveness under
fairness is out of the prover's reach. Every other property of a passing run is a theorem,
under the hypotheses named above.

## 5. Where the repository says one thing and the code does another

* `ids_online`: `artifact new` promises "reserving a unique ID via git annotated tags
  (with offline fallback)" (`specs/SPEC-007-artifact-new.spec.md:829-830`). The tag of
  a lost race stays in the clone; from then on `git fetch --tags` exits 1 there, the code
  takes that for being offline (`pkg/scaffold/git_executor_real.go:44`), and the
  local scan returns a number someone else has reserved.
* `recipe_user_files`: "USER-OWNED files (files the recipe does not own) are NEVER
  clobbered by any kind" (`specs/SPEC-054-recipe-apply-and-manifest.spec.md:1234`). The record
  is per recipe and the command writes it as soon as any file was written, also a
  merge into the consumer's file (`C/recipe_apply.go:431`); the next apply takes a
  file the first one preserved for recipe output and regenerates over it.
* `delivery_changed`: under a diff scope "artifact validation checks only changed artifact
  files" (`specs/SPEC-018-gate-diff-scope.spec.md:71-73`). The findings carry the base name
  of the artifact (`pkg/artifact/parse.go:25`) and the scope compares project-relative
  paths (`G/scope.go:170-177`, `302-326`), so no validation finding is ever in a diff.

What follows was met while modelling; no run asks about it, because it is outside
what a run can show in a few steps or follows from a single line.

Pack lifecycle and recipes:

* A hash mismatch is answered with "run pack install to restore" (`D/verify.go:74`), but
  install copies over the directory and deletes nothing (`D/command.go:554`): a file added
  by hand survives, and the mismatch with it.
* install tells the user to clean a stale lock entry with `backstop pack remove`
  (`D/command.go:453`), which refuses a pack that `backstop.yml` does not declare
  (`D/remove.go:33`); upgrade says relock refreshes a local pack "from its source"
  (`D/command.go:792`), and relock hashes the installed copy (`D/relock.go:54`); remove
  "Reverts pack-contributed config settings" (`C/pack_remove.go:12`) and writes no
  configuration file (`D/remove.go:66`).
* "the consumer adds the waiver FIRST and re-apply then preserves" (`SPEC-054:144-145`).
  If the recipe also merges into the file, the merge encodes the yaml or toml tree anew and
  drops the comments (`pkg/recipe/apply.go:1022`), the waiver too, and the apply after
  that regenerates over the edit.

Verdict:

* Of a status drift under a blocking new-code policy, "net-new ones block"
  (`C/gate.go:1270-1271`), out of the diff too (`:1277-1279`). The comparison that decides it
  drops findings whose file is outside the diff (`G/baseline.go:121`), so the run is
  green.
* A warning "is NON-BLOCKING BY CONTRACT" (`G/policy.go:56-57`), with no policy too
  (`:112-113`). Without a policy the aggregate baseline comparison fails on any new
  finding, whatever its severity (`G/gate.go:211`).

Artifacts:

* "Success-terminal status (issue `closed`; spec `implemented`; directive `done`) + any
  mandated test absent or failing → block"
  (`issues/ISSUE-042-gate-flags-artifact-status-reality-drift.issue.md:100-102`), and "every
  mandated test name from every spec claim exists" (`specs/SPEC-010-gate.spec.md:68-69`). A
  spec that validates, is implemented and covers its requirement, but has
  `coverage_metric_thresholds: 80`, is skipped where its promises are read
  (`G/step_testverify.go:145`); its tests can be deleted and the full run is green. The
  same skip drops its coverage thresholds (`705`) and contracts (`750`). This is the
  exception `MergedIsDelivered` and `SweepIsTotal` name; without it TLC refutes both, in two
  edits (`EditFits`, `SetTest`).
* A requirement whose only citers were retired should be reported as lapsed
  (`G/requirement_traceability.go:87-98`, `205`); the references of retired artifacts are
  dropped before that (`V/supports_resolution.go:138`), so it is reported as uncovered.
* A plan reopened in a change that does not touch the closed issue it backs breaks
  `delivered_by` unnoticed until a full sweep. test_verification ignores the pack claims
  that drift accepts (`G/pack_claims.go:53`, `G/step_testverify.go:524`).
* A verification task needs one implementation task, not those of its phase
  (`V/plan.go:879`); a chain of stale references names only the last of them.

Evidence:

* Findings of the sandbox validator have no file and are not project-wide
  (`C/pack_gate.go:1303`), so diff and file runs drop them, against REQ-006 and REQ-009 of
  SPEC-018 (`:83-85`, `:109-113`).
* A report file left by an earlier run is read as this run's when the tool writes none
  (`C/pack_gate.go:632-640`, `1007-1015`).
* A spec changed in the diff decides the coverage thresholds alone
  (`G/step_coverage.go:556-564`, against the comment at `545-547`); in a full run there is no
  floor and no records pass; a record of a nested twin can vouch for a file by its suffix
  (`364-376`).
* An absence contract in a diff is selected by the file of its entry, not by its scope
  (`G/step_contract.go:54`), and a scope under `testdata` counts as scanned although its
  files are left out (`C/pack_gate.go:918`, `C/gate.go:2025`).
* A coverage engine that no rule names counts as the capability but is never run.
  `waivedDimension` cannot be reached (`G/traceability_polarity.go:182-192`, `275`).

## 6. Not modelled

The reasons are in `PROJECT.json`. In short: parsing and formatting (front matter, JSON
schemas, manifests, SARIF, configuration) and read-only commands have no state to
explore, and what other parts need of them is a record in a module. The external tools
are modelled by their outcomes, the sandbox not at all. `backstop init` is a list of
create-if-absent steps around the add command; the packval phases are read-only checks
of one tree that end in the answer `PackTrees` keeps.

Two pack commands at once are left out: the code takes no lock, the second write of
`backstop.lock` drops the first one's entry, and a model would only restate it. An edit
during a gate run is left out too: waiver lines are read after the findings were
computed (`C/gate.go:2130`), so it can move a token away from its finding.

## 7. Plan

1. Done: `PackTrees`, `PackLifecycle` and its first proofs; `GateVerdict`, `GateRatchet`;
   `IdReservation`, `RecipeApply` and the proofs about them.
2. Done: `ArtifactRules` and `Delivery`, `PlanSchedule`, `PackDispatch` and `Evidence`;
   `PackStore` and the refinement, model-checked.
3. Done: the refinement of `PackStore` and the other lifecycle invariants; the gate's
   verdicts and the ratchet; files of reserved numbers; recipe output; plans of any size;
   deliveries of any corpus.
4. Done: what a run says (`Evidence`), that applying again is stable, that remedies work.
5. The findings of `Evidence` and `Delivery` as the input of `GateRatchet`, with baseline,
   waivers and policy on top; edits during a run.
