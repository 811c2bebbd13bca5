------------------------------- MODULE Evidence ------------------------------
(***************************************************************************)
(* What a green gate proves about the code: the pack_engines step and the  *)
(* three traceability dimensions, coverage, contracts and substantiveness, *)
(* each measured by whatever packs the project has installed.              *)
(*                                                                         *)
(* The state is the world the tools run in, the packs, the declarations of *)
(* backstop.yml, the specs that are implemented and the files changed      *)
(* since the last merge.  People edit and tools break; a gate run changes  *)
(* nothing but the report files its tools leave on disk, and says what it  *)
(* found.                                                                  *)
(***************************************************************************)
EXTENDS PackDispatch

CONSTANTS
  Packs,            \* name -> manifest
  PackOrder,        \* the names in order
  Specs,            \* name -> [file, threshold, metrics, pkg, contracts, tests]
  Floor,            \* enforcement.coverage_floor
  Facts,            \* what may become true of the sources
  SourceFiles,      \* paths that exist at the start
  FirstPacks, FirstFacts, FirstDue,   \* the project at the start
  Breakages,        \* what may happen to a tool: [tool, to]
  Entries,          \* entries enforcement.toolchain may get: [gate, waived]
  MaxEdits          \* bound: edits in a behaviour

Dims == {"substantiveness", "coverage", "contracts"}

Bindings == (UNION {{Packs[p].engines[e] : e \in DOMAIN Packs[p].engines} : p \in DOMAIN Packs})
            \cup {BaseEngines[e] : e \in DOMAIN BaseEngines}
Tools == {b.tool : b \in Bindings} \ {NoName}
Conditions == {"ok", "absent", "dead", "silent", "noise", "foreign"}

\* The packs are the ones PackOrder lists.
ASSUME PacksAssumption ==
  /\ PackOrder \in Seq(DOMAIN Packs)
  /\ \A p \in DOMAIN Packs : \E i \in DOMAIN PackOrder : PackOrder[i] = p
  /\ FirstPacks \subseteq DOMAIN Packs
  /\ \A p \in DOMAIN Packs :
       /\ DOMAIN Packs[p] = {"name", "engines", "rules", "source", "test", "excluded", "compiler"}
       /\ Packs[p].rules \in Seq([engine : STRING, path : STRING, pattern : Seq(STRING)])

\* Every binding accepts status 0 (ValidateSuccessExitCodes); 2 stands for a
\* status it does not declare.  A tool whose empty answer is an exit 1 is bound
\* with 1 as a success and answers on its standard output.  Only a sandbox
\* engine, whose executables are the validators of the pack, has no tool.
ASSUME BindingsAssumption ==
  \A b \in Bindings : /\ 0 \in b.success /\ 2 \notin b.success
                      /\ b.tool \in GrepLike => 1 \in b.success /\ ~b.artifact
                      /\ b.tool = NoName => b.input = "none" /\ b.gate # "coverage"

\* The paths of files; a file has no file below it.
FilePaths ==
  SourceFiles \cup {Specs[s].file : s \in DOMAIN Specs}
  \cup (UNION {{c.file : c \in Specs[s].contracts} : s \in DOMAIN Specs})

ASSUME FilesAssumption ==
  /\ FilePaths \subseteq Seq(STRING) \ {NoFile}
  /\ \A f, g \in FilePaths : Under(f, g) => f = g

ASSUME WorldAssumption ==
  /\ \A d \in FirstFacts : d.file \in SourceFiles \cup {NoFile}
  /\ \A x \in Breakages : x.tool \in Tools /\ x.to \in Conditions

\* Thresholds are percentages.
ASSUME SpecsAssumption ==
  /\ FirstDue \subseteq DOMAIN Specs
  /\ Floor \in 0 .. 100
  /\ \A s \in DOMAIN Specs : Specs[s].threshold \in 0 .. 100 /\ Specs[s].pkg \in Seq(STRING)

VARIABLES
  files, facts, covered, tool, report,   \* the world of PackDispatch
  declared,         \* packs backstop.yml declares
  onDisk,           \* packs installed under .backstop/packs
  entries,          \* enforcement.toolchain of backstop.yml
  due,              \* implemented specs that parseSpecFrontmatter decodes
  changed,          \* paths changed since the last merge
  last,             \* the run made in this state: its scope and its steps
  edits

vars == <<files, facts, covered, tool, report, declared, onDisk, entries, due, changed, last, edits>>

World == [files |-> files, facts |-> facts, covered |-> covered, tool |-> tool, report |-> report]

------------------------------------------------------------------------------
(* Installed packs and the capabilities they bring.                         *)

\* The manifests of the declared packs, by name.
Manifests ==
  [k \in {i \in DOMAIN PackOrder : PackOrder[i] \in declared} |-> Packs[PackOrder[k]]]

\* A declared pack that is not on disk is an error of the whole run.
loadInstalledPacks == declared \subseteq onDisk

packsDeclaringGateType(ms, dim) ==
  {k \in DOMAIN ms :
     \E e \in DOMAIN ms[k].engines : ms[k].engines[e].gate = dim}

\* Mutation: the first pack wins.
resolveFirstPack(ms, dim) ==
  [err |-> FALSE,
   packs |-> LET ks == packsDeclaringGateType(ms, dim)
             IN IF ks = {} THEN <<>>
                ELSE <<ms[CHOOSE k \in ks : \A j \in ks : k <= j]>>]

\* One pack at most may provide a dimension.
resolveCapabilityPack(ms, dim) ==
  LET ks == packsDeclaringGateType(ms, dim)
  IN [err   |-> Cardinality(ks) > 1,
      packs |-> IF Cardinality(ks) = 1 THEN <<ms[CHOOSE k \in ks : TRUE]>> ELSE <<>>]

declaresToolchainMechanism(m) ==
  \E e \in DOMAIN m.engines : m.engines[e].gate \in {"lint", "build", "test", "coverage"}

toolchainEnforcementStatus(ms) ==
  IF \E k \in DOMAIN ms : declaresToolchainMechanism(ms[k]) THEN <<>>
  ELSE <<Step("toolchain_enforcement", "warning", {}, {})>>

declaredDimension(dim) == \E t \in entries : t.gate = dim
waivedDimension(dim) == \E t \in entries : t.gate = dim /\ t.waived
hasUnknownGateType == \E t \in entries : t.gate \notin Dims \cup {NoName}

ClassifyDimension(ms, dim) ==
  LET present == packsDeclaringGateType(ms, dim) # {}
  IN IF hasUnknownGateType THEN "broken-declared"
     ELSE IF present THEN "none"
     ELSE IF declaredDimension(dim) THEN "declared-intent-unmet" ELSE "capability-absent"

Finding(step, file, role, severity) ==
  [pack |-> NoName, engine |-> step, file |-> file, role |-> role, wide |-> FALSE,
   severity |-> severity]

\* The dimension's own step runs only when some pack can measure it.
wrapTraceabilityStep(ms, dim, result) ==
  LET class == ClassifyDimension(ms, dim)
  IN CASE class \in {"broken-declared", "declared-intent-unmet"} -> ConfigError(dim)
       [] class = "capability-absent" ->
            IF waivedDimension(dim) THEN Step(dim, "pass", {}, {})
            ELSE Step(dim, "warning", {Finding(dim, NoFile, <<"capability_absent">>, "warning")}, {})
       [] class = "none" -> result

------------------------------------------------------------------------------
(* Coverage.                                                                *)

AllSource(ms) == UNION {ms[k].source : k \in DOMAIN ms}
AllTest(ms) == UNION {ms[k].test : k \in DOMAIN ms}
IsMeasurableSource(ms, path) == path \in AllSource(ms) /\ path \notin AllTest(ms)

\* The implemented specs that state a threshold.
ExtractSpecVerifications ==
  {Specs[s] : s \in {x \in due : Specs[x].threshold > 0 \/ DOMAIN Specs[x].metrics # {}}}

\* Mutation: only the package itself, none below it.
packagePathEquals(dir, pkg) == dir = pkg

packagePathMatches(dir, pkg) ==
  IF dir = <<>> \/ pkg = <<>> THEN dir = pkg ELSE IsPrefix(pkg, dir) \/ IsPrefix(dir, pkg)

Strictest(thresholds) ==
  IF thresholds = {} THEN 0 ELSE CHOOSE n \in thresholds : \A k \in thresholds : k <= n

\* Specs in the diff decide alone; else the strictest spec of a package the
\* diff touches, else the strictest spec without a package, else the floor.
coverageThresholdsForScope(specs, scope) ==
  LET touched  == {s \in specs : s.file \in scope.files}
      specific == {s \in specs : /\ s.pkg # <<>>
                                 /\ \E f \in scope.files : packagePathMatches(Dir(f), s.pkg)}
      general  == IF scope.files = {} THEN {} ELSE {s \in specs : s.pkg = <<>>}
      most     == Strictest({s.threshold : s \in IF specific # {} THEN specific ELSE general})
  IN IF scope.mode = "all" THEN [collapsed |-> FALSE, specs |-> specs, most |-> 0]
     ELSE IF touched # {} THEN [collapsed |-> FALSE, specs |-> touched, most |-> 0]
     ELSE [collapsed |-> TRUE, specs |-> {}, most |-> IF most = 0 THEN Floor ELSE most]

coverageThresholdForMetric(sel, metric) ==
  IF sel.collapsed THEN sel.most
  ELSE Strictest({IF metric \in DOMAIN s.metrics THEN s.metrics[metric] ELSE s.threshold :
                    s \in sel.specs} \cup {0})

declaredCoverageMetrics(sel) == UNION {DOMAIN s.metrics : s \in sel.specs}

coverageBelowThreshold(n, threshold) == n * 100 < Total * threshold

Earlier(r, s) ==
  \E i, j \in DOMAIN PackOrder : PackOrder[i] = r.pack /\ PackOrder[j] = s.pack /\ i < j

SameKey(r, s) == r.path = s.path /\ r.metric = s.metric

\* The first record of a file and metric is kept, later ones are collisions.
Collisions(records) == {r \in records : \E s \in records : SameKey(r, s) /\ Earlier(s, r)}
indexCoverageByPathMetric(records) == records \ Collisions(records)

\* The records of the path itself, else of the only longer path it ends, which
\* a path without a directory may not claim.
resolveCoverageRecordsForPath(index, path) ==
  LET longer == {r.path : r \in {s \in index : Len(s.path) > Len(path) /\ IsSuffix(path, s.path)}}
      exact  == {r \in index : r.path = path}
  IN IF exact # {} THEN exact
     ELSE IF Len(path) > 1 /\ Cardinality(longer) = 1 THEN {r \in index : r.path \in longer}
     ELSE {}

coveragePathsInScope(ms, records, scope) ==
  IF scope.mode = "all" THEN {r.path : r \in records}
  ELSE {f \in scope.files : IsMeasurableSource(ms, f) /\ f \in files}

StepCoverageThreshold(ms, records, scope) ==
  LET sel     == coverageThresholdsForScope(ExtractSpecVerifications, scope)
      index   == indexCoverageByPathMetric(records)
      paths   == coveragePathsInScope(ms, records, scope)
      scoped  == scope.mode # "all"
      of(p)   == resolveCoverageRecordsForPath(index, p)
      V(p, role) == Finding("coverage", p, role, "error")
      missing == {V(p, <<"coverage_unmeasured">>) : p \in {q \in paths : of(q) = {}}}
      metric  == UNION {{V(p, <<"coverage_metric_missing", m>>) :
                           m \in declaredCoverageMetrics(sel) \ {r.metric : r \in of(p)}}
                        : p \in {q \in paths : scoped /\ of(q) # {}}}
      quiet   == UNION {{Finding("coverage", p, <<"coverage_exclusion", r.metric>>, "warning") :
                           r \in {s \in of(p) : scoped /\ s.excluded}} : p \in paths}
      below   == UNION {{V(p, <<"coverage_threshold", r.metric>>) :
                           r \in {s \in of(p) :
                             LET t == coverageThresholdForMetric(sel, s.metric)
                             IN ~s.excluded /\ t > 0 /\ coverageBelowThreshold(s.covered, t)}}
                        : p \in paths}
      doubled == {V(r.path, <<"coverage_metric_collision", r.metric>>) : r \in Collisions(records)}
  IN IF AllSource(ms) = {} /\ scoped /\ scope.files # {}
     THEN Step("coverage", "warning",
               {Finding("coverage", NoFile, <<"capability_absent">>, "warning")}, {})
     ELSE IF paths = {} THEN Step("coverage", "pass", {}, {})
     ELSE LET vs == missing \cup metric \cup quiet \cup below \cup doubled
          IN Step("coverage", IF \E v \in vs : blocksVerdict(v) THEN "fail" ELSE "pass", vs, {})

buildCoverageStep(ms, scope) ==
  LET d == dispatchPackCoverage(World, ms)
  IN [IF d.err THEN ConfigError("coverage") ELSE StepCoverageThreshold(ms, d.records, scope)
        EXCEPT !.wrote = d.wrote]

------------------------------------------------------------------------------
(* Contracts.                                                               *)

ExtractContractEntries == UNION {Specs[s].contracts : s \in due}

contractSignatureEngine(m) ==
  IF "ast-grep-contracts" \in DOMAIN m.engines THEN "ast-grep-contracts" ELSE "ast-grep"

\* One engine run per entry: the forbidden name in its scope, or the compiled
\* signature in its file.
dispatchContractEntry(m, c) ==
  LET target == IF c.absent /\ c.scope # NoFile THEN c.scope ELSE c.file
      exists == \E f \in files : Under(target, f)
      rule   == [engine  |-> IF c.absent THEN "grep" ELSE contractSignatureEngine(m),
                 path    |-> "none", pattern |-> c.name]
      single == [m EXCEPT !.rules = <<rule>>, !.source = {}, !.test = {}]
      d      == dispatchPackEngines(World, <<single>>, Scope("file", {target}))
  IN IF ~exists THEN [entry |-> c, err |-> FALSE, scanned |-> FALSE, at |-> {}]
     ELSE [entry |-> c, err |-> d.err \/ (~c.absent /\ ~m.compiler), scanned |-> TRUE,
           at |-> {v.file : v \in d.violations}]

\* Mutation: a scope that was not scanned holds nothing.
VerdictOfUnscanned(r) ==
  IF r.entry.absent
  THEN IF r.at = {} THEN {} ELSE {Finding("contracts", CHOOSE f \in r.at : TRUE, <<"present">>, "error")}
  ELSE IF r.at # {} THEN {} ELSE {Finding("contracts", r.entry.file, <<"mismatch">>, "error")}

VerifyContractVerdict(r) ==
  IF r.entry.absent
  THEN IF ~r.scanned THEN {Finding("contracts", r.entry.file, <<"unscanned">>, "error")}
       ELSE IF r.at = {} THEN {}
       ELSE {Finding("contracts", CHOOSE f \in r.at : TRUE, <<"present">>, "error")}
  ELSE IF r.at # {} THEN {} ELSE {Finding("contracts", r.entry.file, <<"mismatch">>, "error")}

StepContractSignature(results, scope) ==
  LET vs == UNION {VerifyContractVerdict(r) : r \in {x \in results : InScope(scope, x.entry.file)}}
  IN Step("contracts", StepVerdict(vs), vs, {})

\* Every entry is dispatched whatever the scope; one that fails fails them all.
buildContractStep(ms, scope) ==
  LET cap     == resolveCapabilityPack(ms, "contracts")
      results == IF cap.packs = <<>> THEN {}
                 ELSE {dispatchContractEntry(cap.packs[1], c) : c \in ExtractContractEntries}
  IN IF cap.err \/ \E r \in results : r.err THEN ConfigError("contracts")
     ELSE StepContractSignature(results, scope)

------------------------------------------------------------------------------
(* Substantiveness.                                                         *)

\* The mandated tests of the implemented specs that some file holds.
Mandated == UNION {Specs[s].tests : s \in due}
Holders(t) == {d \in facts : d.role = <<"test", t.func>>}
FilePath(t) == (CHOOSE d \in Holders(t) : TRUE).file

testFileColocatedWithTarget(path, target) == Len(path) > 1 /\ Last(Dir(path)) = target

sameFile(a, b) == a # NoFile /\ b # NoFile /\ Last(a) = Last(b)

\* Mutation: what any test of the file calls counts for each of them.
ReferencedSetForFile(extraction, t) ==
  {v.role[3] : v \in {x \in extraction : sameFile(x.file, FilePath(t))}}

ReferencedSetForTest(extraction, t) ==
  {v.role[3] : v \in {x \in extraction : sameFile(x.file, FilePath(t)) /\ x.role[2] = t.func}}

NoTargetViolation(t, referenced) ==
  /\ ~t.absence
  /\ t.target # NoName
  /\ ~testFileColocatedWithTarget(FilePath(t), t.target)
  /\ t.target \notin referenced

JoinEligibleForNoTarget(t) == NoTargetViolation(t, {})

\* The pack found nothing of any kind while tests wait for its evidence.
SubstantivenessEvidenceRefusal(eligible, extraction, hollow) ==
  eligible # {} /\ extraction = {} /\ hollow = {}

buildTestSubstantivenessStep(ms, scope) ==
  LET cap        == resolveCapabilityPack(ms, "substantiveness")
      d          == dispatchPackEngines(World, cap.packs, scope)
      hollow     == {v \in d.violations : v.role[1] = "hollow"}
      extraction == {v \in d.violations : v.role[1] = "calls"}
      eligible   == {t \in Mandated : /\ Holders(t) # {}
                                      /\ InScope(scope, FilePath(t))
                                      /\ JoinEligibleForNoTarget(t)}
      vs == {Finding("substantiveness", v.file, v.role, v.severity) :
               v \in {h \in hollow : h.file = NoFile \/ InScope(scope, h.file)}}
            \cup {Finding("substantiveness", FilePath(t), <<"no_target", t.func>>, "error") :
               t \in {u \in eligible : NoTargetViolation(u, ReferencedSetForTest(extraction, u))}}
  IN IF cap.err THEN ConfigError("substantiveness")
     ELSE IF cap.packs = <<>> THEN Step("substantiveness", "pass", {}, {})
     ELSE IF d.err \/ SubstantivenessEvidenceRefusal(eligible, extraction, hollow)
     THEN [ConfigError("substantiveness") EXCEPT !.wrote = d.wrote]
     ELSE Step("substantiveness", StepVerdict(vs), vs, d.wrote)

------------------------------------------------------------------------------
(* The gate.                                                                *)

\* The steps of a run, in order.
Steps(ms, scope) ==
  IF ~loadInstalledPacks THEN <<ConfigError("pack_loading")>>
  ELSE (IF DOMAIN ms = {} THEN <<>> ELSE <<packValidatorStep(World, ms, scope)>>)
       \o <<wrapTraceabilityStep(ms, "substantiveness", buildTestSubstantivenessStep(ms, scope)),
            wrapTraceabilityStep(ms, "coverage", buildCoverageStep(ms, scope)),
            wrapTraceabilityStep(ms, "contracts", buildContractStep(ms, scope))>>
       \o toolchainEnforcementStatus(ms)

\* A configuration error ends the run.
Reached(steps) == {i \in DOMAIN steps : \A j \in 1 .. i - 1 : ~steps[j].config}

Whole == Scope("all", files)
Scopes == {Whole, Scope("diff", changed)} \cup {Scope("file", {f}) : f \in files}

NoRun == [scope |-> Scope("none", {}), steps |-> <<>>]

\* A run of the gate: its tools leave their report files behind.  Bound: one
\* run per state, because a second one meets the same files and the same
\* tools; it comes after the next edit.
RunGate(scope) ==
  /\ last = NoRun
  /\ last' = [scope |-> scope, steps |-> Steps(Manifests, scope)]
  /\ report' = [t \in Tools |->
       LET written == {w \in UNION {last'.steps[i].wrote : i \in Reached(last'.steps)} : w.tool = t}
       IN IF written = {} THEN report[t] ELSE (CHOOSE w \in written : TRUE).out]
  /\ UNCHANGED <<files, facts, covered, tool, declared, onDisk, entries, due, changed, edits>>

------------------------------------------------------------------------------
(* People and tools.                                                        *)

Init ==
  /\ files = SourceFiles
  /\ facts = FirstFacts
  /\ covered = [f \in SourceFiles |-> Total]
  /\ tool = [t \in Tools |-> "ok"]
  /\ report = [t \in Tools |-> [kind |-> "none", sees |-> {}]]
  /\ declared = FirstPacks /\ onDisk = FirstPacks
  /\ entries = {}
  /\ due = FirstDue
  /\ changed = {}
  /\ last = NoRun
  /\ edits = 0

Edit == edits < MaxEdits /\ edits' = edits + 1 /\ last' = NoRun

Introduce(d) ==
  /\ Edit
  /\ d \notin facts /\ (d.file = NoFile \/ d.file \in files)
  /\ facts' = facts \cup {d}
  /\ changed' = changed \cup ({d.file} \ {NoFile})
  /\ UNCHANGED <<files, covered, tool, report, declared, onDisk, entries, due>>

Repair(d) ==
  /\ Edit
  /\ d \in facts
  /\ facts' = facts \ {d}
  /\ changed' = changed \cup ({d.file} \ {NoFile})
  /\ UNCHANGED <<files, covered, tool, report, declared, onDisk, entries, due>>

\* A change of the file or of its tests, in the same commit.
SetCovered(f, n) ==
  /\ Edit
  /\ f \in files /\ covered[f] # n
  /\ covered' = [covered EXCEPT ![f] = n]
  /\ changed' = changed \cup {f}
  /\ UNCHANGED <<files, facts, tool, report, declared, onDisk, entries, due>>

DeleteFile(f) ==
  /\ Edit
  /\ f \in files
  /\ files' = files \ {f}
  /\ facts' = {d \in facts : d.file # f}
  /\ changed' = changed \cup {f}
  /\ UNCHANGED <<covered, tool, report, declared, onDisk, entries, due>>

BreakTool(t, c) ==
  /\ Edit
  /\ tool[t] # c
  /\ tool' = [tool EXCEPT ![t] = c]
  /\ UNCHANGED <<files, facts, covered, report, declared, onDisk, entries, due, changed>>

AddPack(p) ==
  /\ Edit
  /\ p \notin declared \cap onDisk
  /\ declared' = declared \cup {p} /\ onDisk' = onDisk \cup {p}
  /\ UNCHANGED <<files, facts, covered, tool, report, entries, due, changed>>

RemovePack(p) ==
  /\ Edit
  /\ p \in declared
  /\ declared' = declared \ {p} /\ onDisk' = onDisk \ {p}
  /\ UNCHANGED <<files, facts, covered, tool, report, entries, due, changed>>

\* A fresh checkout: packs are declared and not installed.
LosePack(p) ==
  /\ Edit
  /\ p \in onDisk
  /\ onDisk' = onDisk \ {p}
  /\ UNCHANGED <<files, facts, covered, tool, report, declared, entries, due, changed>>

DeclareEntry(t) ==
  /\ Edit
  /\ t \notin entries
  /\ entries' = entries \cup {t}
  /\ UNCHANGED <<files, facts, covered, tool, report, declared, onDisk, due, changed>>

Promise(s) ==
  /\ Edit
  /\ due' = IF s \in due THEN due \ {s} ELSE due \cup {s}
  /\ changed' = changed \cup {Specs[s].file}
  /\ UNCHANGED <<files, facts, covered, tool, report, declared, onDisk, entries>>

Next ==
  \/ \E scope \in Scopes : RunGate(scope)
  \/ \E d \in Facts : Introduce(d) \/ Repair(d)
  \/ \E f \in SourceFiles : DeleteFile(f) \/ \E n \in -1 .. Total : SetCovered(f, n)
  \/ \E x \in Breakages : BreakTool(x.tool, x.to)
  \/ \E p \in DOMAIN Packs : AddPack(p) \/ RemovePack(p) \/ LosePack(p)
  \/ \E t \in Entries : DeclareEntry(t)
  \/ \E s \in DOMAIN Specs : Promise(s)

SpecE == Init /\ [][Next]_vars

------------------------------------------------------------------------------
(* Properties.                                                              *)

\* What the last run said about a step it reached.
Answers(name) == {last.steps[i] : i \in {j \in Reached(last.steps) : last.steps[j].step = name}}

\* The engines that rules of the declared packs name, the generic findings
\* engines among them, and the faults in scope that an engine has a tool and,
\* if it is given patterns, a pattern to see.
Named ==
  UNION {{[m |-> m, e |-> e, b |-> resolveEngineRegistry(m)[e]] :
            e \in {m.rules[i].engine : i \in DOMAIN m.rules}} : m \in {Packs[p] : p \in declared}}

Looking == {l \in Named : l.b.tool # NoName /\ ~gateTypeHasDedicatedStep(l.b.gate)}

Visible(l) ==
  {d \in facts : /\ l.b.tool \in d.by
                 /\ d.severity = "error"
                 /\ d.file \in files /\ InScope(last.scope, d.file)
                 /\ ~hasTestdataSegment(d.file)
                 /\ LET patterns == Patterns(l.b, RulesOf(l.m, l.e))
                    IN patterns = {} \/ d.role \in patterns}

Skipped(l, step) ==
  dispatchAdvisory(l.m, l.e, <<"skipped-unclaimed-scope">>) \in step.violations

\* What no reader of the tool's answer could know: the tool wrote nothing and
\* its report of an earlier run is still there, or it answered in a format of
\* its own, which an engine without a convert is lax about unless it is strict.
Unread(l, d) ==
  \/ l.b.artifact /\ tool[l.b.tool] = "silent" /\ d \notin report[l.b.tool].sees
  \/ tool[l.b.tool] = "foreign" /\ l.b.convert = "none" /\ ~l.b.strict

\* pack_engines does not fail only if no file in scope holds a fault that an
\* engine of an installed pack is there to see, whatever its tool did: a
\* crash, a silent exit, an unreadable or a foreign report must not read as a
\* clean scan.  The exceptions are an engine the step says it skipped, and a
\* fault that Unread names.
CleanScanIsReal ==
  \A step \in Answers("pack_engines") : step.status # "fail" =>
    \A l \in Looking : \A d \in Visible(l) : Skipped(l, step) \/ Unread(l, d)

\* An engine whose tool, scripts and inputs are all there.
Working(l) ==
  /\ tool[l.b.tool] = "ok"
  /\ gatherEngineInputs(l.b, RulesOf(l.m, l.e))
  /\ l.b.producer # "missing" /\ l.b.convert # "missing"

\* An engine that fails hides nothing that another engine found: once the
\* tools are provisioned, every fault in scope that a working engine sees is
\* among the findings of the step, and a tool that does not start fails the
\* step besides.
FailureHidesNothing ==
  \A step \in Answers("pack_engines") : provisionEngines(World, Manifests) =>
    \A l \in Looking :
      \/ Skipped(l, step)
      \/ /\ Working(l) => \A d \in Visible(l) : Violation(l.m, l.b, l.e, d) \in step.violations
         /\ tool[l.b.tool] = "dead" => step.config

\* A full sweep is a superset of a narrower run over the same project: an
\* error of pack_engines in the diff or in one file is an error of the sweep.
SweepCoversDiff ==
  \A step \in Answers("pack_engines") :
    \A v \in step.violations : v.severity = "error" /\ last.scope.mode # "all" =>
      v \in packValidatorStep(World, Manifests, Whole).violations

\* A run in which every step passes without a single finding was enforced:
\* the declared packs are there, a toolchain pack among them, each dimension
\* is measured, contracts and substantiveness by one pack alone, and no tool
\* of an engine that a rule names failed to start.
QuietGreenIsEnforced ==
  ( /\ last # NoRun
    /\ \A i \in DOMAIN last.steps : last.steps[i].status = "pass" /\ last.steps[i].violations = {} )
  => /\ declared \subseteq onDisk
     /\ \E p \in declared : declaresToolchainMechanism(Packs[p])
     /\ \A dim \in Dims : packsDeclaringGateType(Manifests, dim) # {}
     /\ \A dim \in Dims \ {"coverage"} : Cardinality(packsDeclaringGateType(Manifests, dim)) = 1
     /\ \A l \in Looking : tool[l.b.tool] \notin {"absent", "dead"}

\* What a step says about a dimension that some pack measures, if it does not
\* fail.
Holds(dim) ==
  {step \in Answers(dim) : step.status # "fail" /\ packsDeclaringGateType(Manifests, dim) # {}}

\* A record of another file ends in the path of this one: the two share their
\* records.
Shadowed(f) ==
  \E g \in SourceFiles \ {f}, b \in Bindings :
    f = b.prefix \o g \/ IsSuffix(f, b.prefix \o g)

\* A coverage step that does not fail a diff or a file: every changed source
\* file that is still there, no pack excludes and no other file shadows was
\* measured and meets the threshold of each implemented spec of its package,
\* and the floor if no spec has a say.  A changed spec decides alone, so
\* nothing is said then; nor when the tool wrote nothing and its last profile
\* is read again.
CoverageHolds ==
  ( /\ Holds("coverage") # {}
    /\ last.scope.mode # "all"
    /\ \A b \in Bindings : b.gate = "coverage" => tool[b.tool] # "silent"
    /\ \A s \in ExtractSpecVerifications : s.file \notin last.scope.files )
  => \A f \in {g \in last.scope.files \cap files :
                 /\ IsMeasurableSource(Manifests, g) /\ ~Shadowed(g)
                 /\ \A p \in declared : g \notin Packs[p].excluded} :
       /\ covered[f] >= 0
       /\ \A s \in ExtractSpecVerifications :
            s.pkg # <<>> /\ Under(s.pkg, Dir(f)) => covered[f] * 100 >= Total * s.threshold
       /\ ExtractSpecVerifications = {} => covered[f] * 100 >= Total * Floor

\* An engine that looks for a pattern in the files it is given.
PatternSearch(b) ==
  /\ b.input = "pattern-arg" /\ b.tool # NoName
  /\ ~b.wide /\ ~b.artifact
  /\ b.convert = "none" => b.strict

\* A contract step that does not fail tells the truth about every contract of
\* an implemented spec whose file is in scope: a promised symbol is in its
\* file, a forbidden one nowhere in its scope, which exists, whichever tools
\* work, as long as the pack's engines are pattern searches.  A scope inside
\* testdata is never searched.
ContractsAreTrue ==
  Holds("contracts") # {} =>
    \A k \in packsDeclaringGateType(Manifests, "contracts") :
      \A c \in {x \in ExtractContractEntries : InScope(last.scope, x.file)} :
        LET m     == Manifests[k]
            b     == resolveEngineRegistry(m)[IF c.absent THEN "grep" ELSE contractSignatureEngine(m)]
            where == IF c.scope # NoFile THEN c.scope ELSE c.file
        IN PatternSearch(b) =>
             IF c.absent
             THEN /\ \E f \in files : Under(where, f)
                  /\ \A d \in facts : d.role = c.name /\ b.tool \in d.by /\ ~hasTestdataSegment(where)
                                      => ~Under(where, d.file)
             ELSE \E d \in facts : d.role = c.name /\ d.file = c.file

\* The engines of the pack that measures substantiveness.
Examining ==
  {l \in Named : /\ l.e \in DOMAIN l.m.engines /\ l.b.tool # NoName
                 /\ l.b.gate = "substantiveness" /\ ~l.b.packageScoped}

\* A substantiveness step that does not fail: no test in scope is hollow as
\* far as the pack's engines can see and Unread does not except it, and every
\* mandated test in scope that lives outside the package it is about calls
\* that package, whether or not other tests of its file do.  A file is known
\* by its base name, so nothing is said where two files share theirs; nor
\* when a tool wrote nothing and its last report is read again.
SubstantiveMeansCalls ==
  Holds("substantiveness") # {} =>
    /\ \A l \in Examining : \A d \in Visible(l) : d.role[1] = "hollow" => Unread(l, d)
    /\ (\A l \in Named : l.b.tool # NoName /\ l.b.artifact => tool[l.b.tool] # "silent")
       => \A t \in Mandated :
            ( /\ Holders(t) # {} /\ InScope(last.scope, FilePath(t)) /\ JoinEligibleForNoTarget(t)
              /\ \A f \in files : sameFile(f, FilePath(t)) => f = FilePath(t) )
            => \E d \in facts : /\ d.file = FilePath(t) /\ d.role[1] = "calls"
                                /\ d.role[2] = t.func /\ d.role[3] = t.target
==============================================================================
