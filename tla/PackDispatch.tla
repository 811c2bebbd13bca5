----------------------------- MODULE PackDispatch ----------------------------
(***************************************************************************)
(* How the gate runs the engines of the installed packs.  A dispatch is a  *)
(* function of the manifests, of the scope and of the world W the tools    *)
(* run in:                                                                 *)
(*   W.files    the paths of the project                                   *)
(*   W.facts    what is true of the sources, and which tools can see it    *)
(*   W.covered  statements of a file the tests cover, -1: not measured     *)
(*   W.tool     the condition each tool is in                              *)
(*   W.report   the report file each tool left on disk                     *)
(* A path is the sequence of its segments; a finding without a file has    *)
(* the empty path.  Lists of manifests and of rules that were filtered keep*)
(* the positions of their elements: only their order matters.              *)
(***************************************************************************)
EXTENDS SequencesExt, Integers, FiniteSets, TLC

CONSTANTS
  BaseEngines,      \* the embedded base pack: engine name -> binding
  GrepLike          \* tools that say nothing and exit 1 when nothing matches

Total == 2          \* bound: statements of a source file

NoName == ""        \* a field that is left out
NoFile == <<>>
Dir(path) == SubSeq(path, 1, Len(path) - 1)
Under(dir, path) == IsPrefix(dir, path)

hasTestdataSegment(path) == \E i \in DOMAIN path : path[i] = "testdata"
excludeTestdataPaths(files) == {f \in files : ~hasTestdataSegment(f)}

------------------------------------------------------------------------------
(* Scope.                                                                   *)

\* Every scope carries its file list, the one of a full sweep included.
Scope(mode, files) == [mode |-> mode, files |-> files]

InScope(scope, file) == scope.mode = "all" \/ file \in scope.files

\* Mutation: a full sweep needs no exemption from the scope and grants none.
FilterViolationsOfFiles(scope, vs) ==
  {v \in vs : (v.wide /\ scope.mode # "all") \/ (v.file # NoFile /\ InScope(scope, v.file))}

\* Outside a full sweep a finding without a file stays only if it is
\* project-wide.
FilterViolations(scope, vs) ==
  IF scope.mode = "all" THEN vs
  ELSE {v \in vs : v.wide \/ (v.file # NoFile /\ InScope(scope, v.file))}

\* A step with findings none of which blocks warns, and does not fail the run.
blocksVerdict(v) == v.severity # "warning"
StepVerdict(vs) ==
  IF vs = {} THEN "pass" ELSE IF \E v \in vs : blocksVerdict(v) THEN "fail" ELSE "warning"

------------------------------------------------------------------------------
(* Tools.                                                                   *)

Empty == [kind |-> "empty", sees |-> {}]

\* What a tool in working order has to say about the files below its targets;
\* a tool that is given patterns looks for those alone.
Seen(W, tool, patterns, targets) ==
  {d \in W.facts : /\ tool \in d.by
                   /\ \E t \in targets : Under(t, d.file)
                   /\ patterns = {} \/ d.role \in patterns}

Outcome(W, tool, sees) ==
  CASE W.tool[tool] \in {"absent", "dead"} ->
         [started |-> FALSE, status |-> -1, out |-> Empty]
    [] W.tool[tool] = "ok" ->
         [started |-> TRUE,
          status  |-> IF (sees = {}) = (tool \in GrepLike) THEN 1 ELSE 0,
          out     |-> IF sees = {} /\ tool \in GrepLike THEN Empty
                      ELSE [kind |-> "report", sees |-> sees]]
    [] W.tool[tool] = "silent" -> [started |-> TRUE, status |-> 2, out |-> Empty]
    [] W.tool[tool] = "noise"  ->
         [started |-> TRUE, status |-> 2, out |-> [kind |-> "noise", sees |-> {}]]
    [] W.tool[tool] = "foreign" ->
         [started |-> TRUE, status |-> 0, out |-> [kind |-> "foreign", sees |-> {}]]

\* The report file a run leaves behind: its own, or the one that was there.
Left(W, b, run) == IF run.out = Empty THEN W.report[b.tool] ELSE run.out

Wrote(b, run) ==
  IF b.artifact /\ run.out # Empty THEN {[tool |-> b.tool, out |-> run.out]} ELSE {}

------------------------------------------------------------------------------
(* Engines of a pack.                                                       *)

\* A binding of the pack hides the built-in of the same name.
resolveEngineRegistry(m) ==
  [e \in DOMAIN m.engines \cup DOMAIN BaseEngines |->
     IF e \in DOMAIN m.engines THEN m.engines[e] ELSE BaseEngines[e]]

RulesOf(m, e) == [i \in {j \in DOMAIN m.rules : m.rules[j].engine = e} |-> m.rules[i]]

\* An engine's place in the dispatch is that of the first rule that names it.
FirstRules(m) ==
  {i \in DOMAIN m.rules : \A j \in DOMAIN m.rules : j < i => m.rules[j].engine # m.rules[i].engine}

\* The dispatches of a list of packs, as <<pack, rule>>, and their order.
Dispatches(ms) == UNION {{<<k, i>> : i \in FirstRules(ms[k])} : k \in DOMAIN ms}
Engine(ms, x) == ms[x[1]].rules[x[2]].engine
Before(x, y) == x[1] < y[1] \/ (x[1] = y[1] /\ x[2] < y[2])

gateTypeHasDedicatedStep(gt) == gt \in {"substantiveness", "contracts", "coverage"}

excludeDedicatedStepRules(m) ==
  LET reg  == resolveEngineRegistry(m)
      kept == {i \in DOMAIN m.rules :
                 ~(/\ m.rules[i].engine \in DOMAIN reg
                   /\ gateTypeHasDedicatedStep(reg[m.rules[i].engine].gate))}
  IN [m EXCEPT !.rules = [i \in kept |-> m.rules[i]]]

\* Whether the inputs of the rules can be gathered: rule files that are there,
\* patterns that are given.
gatherEngineInputs(b, rules) ==
  CASE b.input = "config-file" ->
         LET with == {i \in DOMAIN rules : rules[i].path # "none"}
         IN \A i \in with : (\A j \in with : i <= j) => rules[i].path = "present"
    [] b.input = "rule-flags" -> \A i \in DOMAIN rules : rules[i].path = "present"
    [] b.input = "pattern-arg" -> \A i \in DOMAIN rules : rules[i].pattern # <<>>
    [] b.input = "none" -> TRUE
    [] OTHER -> FALSE

Patterns(b, rules) ==
  IF b.input = "pattern-arg" THEN {rules[i].pattern : i \in DOMAIN rules} ELSE {}

exitAccepted(b, status) == status \in b.success

\* A package-scoped engine under --file runs in the packages of the files its
\* pack claims; a pack that declares no globs claims them all.
fileModeTestTargets(m, b, scope) ==
  IF ~(scope.mode = "file" /\ scope.files # {} /\ b.packageScoped)
  THEN [state |-> "notApplicable", targets |-> {}]
  ELSE LET globs   == m.source \cup m.test
           claimed == IF globs = {} THEN scope.files
                      ELSE excludeTestdataPaths(scope.files) \cap globs
       IN [state   |-> IF claimed = {} THEN "claimsNothing" ELSE "derived",
           targets |-> {Dir(f) : f \in claimed}]

\* What the engine is pointed at; the whole project is the empty prefix.
Targets(m, b, scope) ==
  IF ~b.wide THEN excludeTestdataPaths(scope.files)
  ELSE LET d == fileModeTestTargets(m, b, scope)
       IN IF b.target /\ d.state = "derived" THEN d.targets ELSE {<<>>}

Violation(m, b, e, d) ==
  [pack |-> m.name, engine |-> e, file |-> d.file, role |-> d.role,
   wide |-> b.exempt, severity |-> d.severity]

dispatchAdvisory(m, e, role) ==
  [pack |-> m.name, engine |-> e, file |-> NoFile, role |-> role,
   wide |-> TRUE, severity |-> "warning"]

engineErrorViolation(m, e) ==
  [pack |-> m.name, engine |-> e, file |-> NoFile, role |-> <<"pack_engines">>,
   wide |-> TRUE, severity |-> "error"]

Failed(wrote) == [err |-> TRUE, out |-> {}, wrote |-> wrote]

\* Mutation: an empty payload is a clean one, whatever the exit status.
emptyPayloadIsClean(b, payload, status) == FALSE

\* An empty payload with a status the engine did not declare clean.
emptyPayloadExitError(b, payload, status) ==
  ~b.guard /\ payload.kind = "empty" /\ ~exitAccepted(b, status)

\* The payload as findings: a convert refuses what it cannot read, a strict
\* engine what is not SARIF; otherwise a foreign document has no findings.
Readable(b, payload) ==
  /\ payload.kind # "noise"
  /\ payload.kind = "foreign" => b.convert = "none" /\ ~b.strict

runFindingsEngine(W, m, e, b, rules, scope) ==
  LET mode    == fileModeTestTargets(m, b, scope)
      run     == Outcome(W, b.tool, Seen(W, b.tool, Patterns(b, rules), Targets(m, b, scope)))
      wrote   == Wrote(b, run)
      payload == IF b.artifact THEN Left(W, b, run) ELSE run.out
      absent  == IF b.wide /\ b.target /\ mode.state = "derived" /\ m.source \cup m.test = {}
                 THEN {dispatchAdvisory(m, e, <<"classification-absent">>)} ELSE {}
  IN IF ~gatherEngineInputs(b, rules) \/ ~b.trusted THEN Failed({})
     ELSE IF b.wide /\ b.target /\ mode.state = "claimsNothing"
     THEN [err |-> FALSE, wrote |-> {},
           out |-> {dispatchAdvisory(m, e, <<"skipped-unclaimed-scope">>)}]
     ELSE IF b.producer = "missing" \/ ~run.started THEN Failed({})
     ELSE IF \/ b.artifact /\ payload.kind = "none"
             \/ emptyPayloadExitError(b, payload, run.status)
             \/ b.convert = "missing"
             \/ ~Readable(b, payload)
             \/ b.guard /\ ~exitAccepted(b, run.status) /\ payload.sees = {}
     THEN Failed(wrote)
     ELSE [err |-> FALSE, wrote |-> wrote,
           out |-> {Violation(m, b, e, d) : d \in payload.sees} \cup absent]

\* The validators of a pack: each is run in the sandbox over the project, or
\* over every file; what it objects to has no file.
runSandboxEngine(W, m, e, rules) ==
  IF \E i \in DOMAIN rules : rules[i].path = "missing" THEN Failed({})
  ELSE [err |-> FALSE, wrote |-> {},
        out |-> {[pack |-> m.name, engine |-> e, file |-> NoFile, role |-> rules[i].pattern,
                  wide |-> FALSE, severity |-> "error"] :
                   i \in {j \in DOMAIN rules :
                            \E d \in W.facts : "sandbox" \in d.by /\ d.role = rules[j].pattern}}]

dispatchEngine(W, m, e, scope) ==
  LET reg == resolveEngineRegistry(m)
  IN IF e \notin DOMAIN reg THEN Failed({})
     ELSE IF reg[e].input = "none" /\ reg[e].tool = NoName THEN runSandboxEngine(W, m, e, RulesOf(m, e))
     ELSE runFindingsEngine(W, m, e, reg[e], RulesOf(m, e), scope)

\* Mutation: the dispatch ends with the first engine that fails.
dispatchUntilError(W, ms, scope) ==
  LET all == Dispatches(ms)
      res == [x \in all |-> dispatchEngine(W, ms[x[1]], Engine(ms, x), scope)]
      ran == {x \in all : \A y \in all : Before(y, x) => ~res[y].err}
      err == {x \in ran : res[x].err}
  IN [err |-> err # {}, wrote |-> UNION {res[x].wrote : x \in ran},
      violations |-> (UNION {res[x].out : x \in ran})
                     \cup {engineErrorViolation(ms[x[1]], Engine(ms, x)) : x \in err}]

\* Every engine of every pack, past the ones that fail: each failure is a
\* finding of its own and the error of the whole dispatch.
dispatchPackEngines(W, ms, scope) ==
  LET all == Dispatches(ms)
      res == [x \in all |-> dispatchEngine(W, ms[x[1]], Engine(ms, x), scope)]
      err == {x \in all : res[x].err}
  IN [err |-> err # {}, wrote |-> UNION {res[x].wrote : x \in all},
      violations |-> (UNION {res[x].out : x \in all})
                     \cup {engineErrorViolation(ms[x[1]], Engine(ms, x)) : x \in err}]

------------------------------------------------------------------------------
(* Coverage records: a channel of its own, of the coverage engines alone.   *)

Measure(W, m, b) ==
  {[pack |-> m.name, path |-> b.prefix \o f, metric |-> metric,
    covered |-> W.covered[f], excluded |-> f \in m.excluded] :
     f \in {g \in W.files \cap m.source : W.covered[g] >= 0}, metric \in b.metrics}

runCoverageEngine(W, m, b, rules) ==
  LET run     == Outcome(W, b.tool, Measure(W, m, b))
      wrote   == Wrote(b, run)
      payload == IF b.artifact THEN Left(W, b, run) ELSE run.out
  IN IF \/ ~gatherEngineInputs(b, rules) \/ ~b.trusted
        \/ b.producer = "missing" \/ ~run.started
     THEN Failed({})
     ELSE IF \/ b.artifact /\ payload.kind = "none"
             \/ b.convert # "present"
             \/ payload.kind \in {"noise", "foreign"}
     THEN Failed(wrote)
     ELSE [err |-> FALSE, out |-> payload.sees, wrote |-> wrote]

\* The first failure, an unknown engine included, ends this dispatch without
\* records.
dispatchPackCoverage(W, ms) ==
  LET Known(x) == Engine(ms, x) \in DOMAIN resolveEngineRegistry(ms[x[1]])
      B(x)     == resolveEngineRegistry(ms[x[1]])[Engine(ms, x)]
      counted  == {x \in Dispatches(ms) : Known(x) => B(x).gate = "coverage"}
      res      == [x \in counted |->
                     IF ~Known(x) THEN Failed({})
                     ELSE runCoverageEngine(W, ms[x[1]], B(x), RulesOf(ms[x[1]], Engine(ms, x)))]
      ran      == {x \in counted : \A y \in counted : Before(y, x) => ~res[y].err}
      err      == \E x \in ran : res[x].err
  IN [err |-> err, wrote |-> UNION {res[x].wrote : x \in ran},
      records |-> IF err THEN {} ELSE UNION {res[x].out : x \in ran}]

------------------------------------------------------------------------------
(* Provisioning and the pack_engines step.                                  *)

\* The tools of every engine some rule names, looked up before anything runs.
provisionEngines(W, ms) ==
  \A k \in DOMAIN ms :
    \A i \in DOMAIN ms[k].rules :
      LET reg == resolveEngineRegistry(ms[k])
          e   == ms[k].rules[i].engine
      IN /\ e \in DOMAIN reg
         /\ reg[e].trusted
         /\ reg[e].tool # NoName => W.tool[reg[e].tool] # "absent"

ConfigError(step) ==
  [step |-> step, status |-> "fail", config |-> TRUE, violations |-> {}, wrote |-> {}]

Step(step, status, vs, wrote) ==
  [step |-> step, status |-> status, config |-> FALSE, violations |-> vs, wrote |-> wrote]

packValidatorStep(W, ms, scope) ==
  IF ~provisionEngines(W, ms) THEN ConfigError("pack_engines")
  ELSE LET d  == dispatchPackEngines(W, [k \in DOMAIN ms |-> excludeDedicatedStepRules(ms[k])], scope)
           vs == FilterViolations(scope, d.violations)
       IN IF d.err THEN [ConfigError("pack_engines") EXCEPT !.violations = vs, !.wrote = d.wrote]
          ELSE Step("pack_engines", StepVerdict(vs), vs, d.wrote)
==============================================================================
