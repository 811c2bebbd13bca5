---------------------------- MODULE EvidenceProofs ---------------------------
(***************************************************************************)
(* What a gate run shows about the project, for any packs, engines, tools, *)
(* specs and files.                                                        *)
(***************************************************************************)
EXTENDS Evidence, WellFoundedInduction, FiniteSetTheorems, TLAPS

------------------------------------------------------------------------------
(* Paths and numbers.                                                       *)

(* A path is under itself, under the root and under its directory. *)
LEMMA UnderItself == ASSUME NEW S, NEW p \in Seq(S) PROVE Under(p, p)
BY DEF Under, IsPrefix

(* Every path is under the root of the project. *)
LEMMA UnderRoot == ASSUME NEW S, NEW p \in Seq(S) PROVE Under(<<>>, p)
BY DEF Under, IsPrefix

(* A file is under its directory. *)
LEMMA UnderDir == ASSUME NEW S, NEW p \in Seq(S), p # <<>> PROVE Under(Dir(p), p)
BY DEF Under, IsPrefix, Dir

(* A set of natural numbers that is not empty has a least element. *)
LEMMA LeastOf ==
  ASSUME NEW S, S \subseteq Nat, S # {}
  PROVE  \E m \in S : \A k \in S : m <= k
<1>1. IsWellFoundedOn(OpToRel(<, Nat), Nat)
  BY NatLessThanWellFounded
<1>2. PICK x \in S : \A y \in S : ~(<<y, x>> \in OpToRel(<, Nat))
  BY <1>1, WFMin
<1>3. \A y \in S : ~(y < x)
  BY <1>2 DEF OpToRel
<1> QED
  BY <1>3

------------------------------------------------------------------------------
(* Worlds, packs and scopes a run can meet.                                 *)

ReportKinds == {"none", "report", "noise", "foreign"}

IsWorld(W) ==
  /\ W.files \subseteq SourceFiles
  /\ \A d \in W.facts : d.file \in W.files \cup {NoFile}
  /\ \A t \in Tools : W.tool[t] \in Conditions /\ W.report[t].kind \in ReportKinds

IsPack(m) ==
  /\ DOMAIN m.rules \subseteq Nat
  /\ \A e \in DOMAIN m.engines : m.engines[e] \in Bindings

IsPacks(ms) == DOMAIN ms \subseteq Nat /\ \A k \in DOMAIN ms : IsPack(ms[k])

IsScope(W, scope) ==
  /\ scope.mode = "all" => scope.files = W.files
  /\ scope.mode = "file" => \E f : scope.files = {f}

(* What a registry holds is a binding. *)
LEMMA RegistryBindings ==
  ASSUME NEW m, IsPack(m), NEW e \in DOMAIN resolveEngineRegistry(m)
  PROVE  resolveEngineRegistry(m)[e] \in Bindings
BY DEF IsPack, resolveEngineRegistry, Bindings

(* The tool of a binding is in one of the conditions. *)
LEMMA ToolOfBinding ==
  ASSUME NEW b \in Bindings, b.tool # NoName
  PROVE  b.tool \in Tools
BY DEF Tools

------------------------------------------------------------------------------
(* One engine.                                                              *)

(* What running a tool yields, by the condition the tool is in. *)
LEMMA OutcomeOf ==
  ASSUME NEW W, NEW t, NEW sees
  PROVE  /\ W.tool[t] \in {"absent", "dead"}
            => Outcome(W, t, sees) = [started |-> FALSE, status |-> -1, out |-> Empty]
         /\ W.tool[t] = "ok" =>
              Outcome(W, t, sees) =
                [started |-> TRUE,
                 status  |-> IF (sees = {}) = (t \in GrepLike) THEN 1 ELSE 0,
                 out     |-> IF sees = {} /\ t \in GrepLike THEN Empty
                             ELSE [kind |-> "report", sees |-> sees]]
         /\ W.tool[t] = "silent"
            => Outcome(W, t, sees) = [started |-> TRUE, status |-> 2, out |-> Empty]
         /\ W.tool[t] = "noise"
            => Outcome(W, t, sees) = [started |-> TRUE, status |-> 2,
                                      out |-> [kind |-> "noise", sees |-> {}]]
         /\ W.tool[t] = "foreign"
            => Outcome(W, t, sees) = [started |-> TRUE, status |-> 0,
                                      out |-> [kind |-> "foreign", sees |-> {}]]
BY DEF Outcome

(* An engine that does not skip the scope is pointed at every file in it. *)
LEMMA TargetsCover ==
  ASSUME NEW W, IsWorld(W), NEW m, NEW b, NEW scope, IsScope(W, scope),
         NEW f \in W.files, InScope(scope, f), ~hasTestdataSegment(f)
  PROVE  \/ b.wide /\ b.target /\ fileModeTestTargets(m, b, scope).state = "claimsNothing"
         \/ \E t \in Targets(m, b, scope) : Under(t, f)
<1>1. f \in Seq(STRING) /\ f # NoFile
  BY FilesAssumption DEF IsWorld, FilePaths
<1>2. f \in scope.files
  BY DEF IsScope, InScope
<1>3. CASE ~b.wide
  <2>1. f \in Targets(m, b, scope)
    BY <1>2, <1>3 DEF Targets, excludeTestdataPaths
  <2> QED
    BY <1>1, <2>1, UnderItself
<1>4. CASE b.wide /\ ~(b.target /\ fileModeTestTargets(m, b, scope).state = "derived")
  <2>1. <<>> \in Targets(m, b, scope)
    BY <1>4 DEF Targets
  <2> QED
    BY <1>1, <2>1, UnderRoot
<1>5. CASE b.wide /\ b.target /\ fileModeTestTargets(m, b, scope).state = "derived"
  <2> DEFINE globs   == m.source \cup m.test
             claimed == IF globs = {} THEN scope.files
                        ELSE excludeTestdataPaths(scope.files) \cap globs
  <2>1. /\ scope.mode = "file"
        /\ claimed # {}
        /\ fileModeTestTargets(m, b, scope).targets = {Dir(g) : g \in claimed}
    BY <1>5 DEF fileModeTestTargets
  <2>2. claimed \subseteq scope.files
    BY DEF excludeTestdataPaths
  <2>3. scope.files = {f}
    BY <1>2, <2>1 DEF IsScope
  <2>4. f \in claimed
    BY <2>1, <2>2, <2>3
  <2>5. Dir(f) \in Targets(m, b, scope)
    BY <1>5, <2>1, <2>4 DEF Targets
  <2> QED
    BY <1>1, <2>5, UnderDir DEF NoFile
<1> QED
  BY <1>3, <1>4, <1>5

Equipped(b, rules) ==
  gatherEngineInputs(b, rules) /\ b.trusted /\ b.producer # "missing" /\ b.convert # "missing"

Skips(m, b, scope) ==
  b.wide /\ b.target /\ fileModeTestTargets(m, b, scope).state = "claimsNothing"

Ran(W, m, b, rules, scope) ==
  Outcome(W, b.tool, Seen(W, b.tool, Patterns(b, rules), Targets(m, b, scope)))

Payload(W, b, run) == IF b.artifact THEN Left(W, b, run) ELSE run.out

(* An engine whose tool answered cannot use the answer. *)
Refused(b, run, payload) ==
  \/ b.artifact /\ payload.kind = "none"
  \/ emptyPayloadExitError(b, payload, run.status)
  \/ b.convert = "missing"
  \/ ~Readable(b, payload)
  \/ b.guard /\ ~exitAccepted(b, run.status) /\ payload.sees = {}

(* The findings engine, taken apart: when it fails, when it skips the scope,
   and what it finds otherwise. *)
LEMMA EngineUnfed ==
  ASSUME NEW W, NEW m, NEW e, NEW b, NEW rules, NEW scope,
         ~gatherEngineInputs(b, rules) \/ ~b.trusted
  PROVE  runFindingsEngine(W, m, e, b, rules, scope) = Failed({})
BY DEF runFindingsEngine

(* One whose pack claims no file of the scope is skipped, and says so. *)
LEMMA EngineSkips ==
  ASSUME NEW W, NEW m, NEW e, NEW b, NEW rules, NEW scope,
         gatherEngineInputs(b, rules), b.trusted, Skips(m, b, scope)
  PROVE  runFindingsEngine(W, m, e, b, rules, scope) =
           [err |-> FALSE, wrote |-> {},
            out |-> {dispatchAdvisory(m, e, <<"skipped-unclaimed-scope">>)}]
BY DEF runFindingsEngine, Skips

(* One without its producer, or whose tool does not start, fails. *)
LEMMA EngineStuck ==
  ASSUME NEW W, NEW m, NEW e, NEW b, NEW rules, NEW scope,
         gatherEngineInputs(b, rules), b.trusted, ~Skips(m, b, scope),
         b.producer = "missing" \/ ~Ran(W, m, b, rules, scope).started
  PROVE  runFindingsEngine(W, m, e, b, rules, scope) = Failed({})
BY DEF runFindingsEngine, Skips, Ran

(* One whose answer cannot be used fails. *)
LEMMA EngineRefuses ==
  ASSUME NEW W, NEW m, NEW e, NEW b, NEW rules, NEW scope, NEW run, NEW payload,
         gatherEngineInputs(b, rules), b.trusted, ~Skips(m, b, scope),
         run = Ran(W, m, b, rules, scope), payload = Payload(W, b, run),
         b.producer # "missing", run.started, Refused(b, run, payload)
  PROVE  runFindingsEngine(W, m, e, b, rules, scope) = Failed(Wrote(b, run))
BY DEF runFindingsEngine, Skips, Ran, Payload, Refused

Absent(m, b, e, scope) ==
  IF /\ b.wide /\ b.target /\ fileModeTestTargets(m, b, scope).state = "derived"
     /\ m.source \cup m.test = {}
  THEN {dispatchAdvisory(m, e, <<"classification-absent">>)} ELSE {}

(* One whose answer is read finds what the tool saw. *)
LEMMA EngineAnswers ==
  ASSUME NEW W, NEW m, NEW e, NEW b, NEW rules, NEW scope, NEW run, NEW payload,
         gatherEngineInputs(b, rules), b.trusted, ~Skips(m, b, scope),
         run = Ran(W, m, b, rules, scope), payload = Payload(W, b, run),
         b.producer # "missing", run.started, ~Refused(b, run, payload)
  PROVE  runFindingsEngine(W, m, e, b, rules, scope) =
           [err |-> FALSE, wrote |-> Wrote(b, run),
            out |-> {Violation(m, b, e, d) : d \in payload.sees} \cup Absent(m, b, e, scope)]
<1>1. /\ ~(~gatherEngineInputs(b, rules) \/ ~b.trusted)
      /\ ~(b.wide /\ b.target /\ fileModeTestTargets(m, b, scope).state = "claimsNothing")
      /\ ~(b.producer = "missing" \/ ~run.started)
  BY DEF Skips
<1>2. /\ run = Outcome(W, b.tool, Seen(W, b.tool, Patterns(b, rules), Targets(m, b, scope)))
      /\ payload = IF b.artifact THEN Left(W, b, run) ELSE run.out
  BY DEF Ran, Payload
<1> QED
  BY <1>1, <1>2 DEF runFindingsEngine, Refused, Absent

(* The engine has a tool and a pattern to see a fault of a file in scope. *)
Sees(W, b, rules, scope, d) ==
  /\ d \in W.facts /\ b.tool \in d.by
  /\ d.file \in W.files /\ InScope(scope, d.file) /\ ~hasTestdataSegment(d.file)
  /\ Patterns(b, rules) = {} \/ d.role \in Patterns(b, rules)

Blind(W, b, d) ==
  \/ b.artifact /\ W.tool[b.tool] = "silent" /\ d \notin W.report[b.tool].sees
  \/ W.tool[b.tool] = "foreign" /\ b.convert = "none" /\ ~b.strict

Accounted(W, m, e, b, rules, scope, d, r) ==
  /\ \/ r.err
     \/ dispatchAdvisory(m, e, <<"skipped-unclaimed-scope">>) \in r.out /\ Skips(m, b, scope)
     \/ Violation(m, b, e, d) \in r.out
     \/ Blind(W, b, d)
  /\ W.tool[b.tool] = "ok" /\ Equipped(b, rules) =>
     \/ dispatchAdvisory(m, e, <<"skipped-unclaimed-scope">>) \in r.out
     \/ Violation(m, b, e, d) \in r.out

(* Such a fault is found, unless the engine fails, skips the scope or cannot
   know of it; one that works finds it or skips the scope. *)
LEMMA EngineFinds ==
  ASSUME NEW W, IsWorld(W), NEW m, NEW e, NEW b \in Bindings, b.tool # NoName,
         NEW rules, NEW scope, IsScope(W, scope),
         NEW d, Sees(W, b, rules, scope, d)
  PROVE  Accounted(W, m, e, b, rules, scope, d, runFindingsEngine(W, m, e, b, rules, scope))
<1> SUFFICES ASSUME d \in W.facts, b.tool \in d.by, d.file \in W.files,
                    InScope(scope, d.file), ~hasTestdataSegment(d.file),
                    Patterns(b, rules) = {} \/ d.role \in Patterns(b, rules),
                    NEW r, r = runFindingsEngine(W, m, e, b, rules, scope)
             PROVE  /\ \/ r.err
                       \/ dispatchAdvisory(m, e, <<"skipped-unclaimed-scope">>) \in r.out /\ Skips(m, b, scope)
                       \/ Violation(m, b, e, d) \in r.out
                       \/ b.artifact /\ W.tool[b.tool] = "silent" /\ d \notin W.report[b.tool].sees
                       \/ W.tool[b.tool] = "foreign" /\ b.convert = "none" /\ ~b.strict
                    /\ W.tool[b.tool] = "ok" /\ Equipped(b, rules) =>
                       \/ dispatchAdvisory(m, e, <<"skipped-unclaimed-scope">>) \in r.out
                       \/ Violation(m, b, e, d) \in r.out
  BY DEF Sees, Accounted, Blind
<1> DEFINE sees == Seen(W, b.tool, Patterns(b, rules), Targets(m, b, scope))
<1>0. PICK run : run = Ran(W, m, b, rules, scope)
  OBVIOUS
<1>1. PICK payload : payload = Payload(W, b, run)
  OBVIOUS
<1>2. W.tool[b.tool] \in Conditions /\ 2 \notin b.success
  <2>1. b.tool \in Tools
    BY ToolOfBinding
  <2>2. 2 \notin b.success
    BY BindingsAssumption
  <2> QED
    BY <2>1, <2>2 DEF IsWorld
<1>3. Skips(m, b, scope) \/ d \in sees
  BY TargetsCover DEF Skips, Seen
<1>4. CASE ~gatherEngineInputs(b, rules) \/ ~b.trusted
  <2>1. r = Failed({})
    BY <1>0, <1>1, <1>4, EngineUnfed
  <2> QED
    BY <1>4, <2>1 DEF Failed, Equipped
<1>5. CASE gatherEngineInputs(b, rules) /\ b.trusted /\ Skips(m, b, scope)
  BY <1>0, <1>1, <1>5, EngineSkips
<1>6. CASE gatherEngineInputs(b, rules) /\ b.trusted /\ ~Skips(m, b, scope)
  <2>1. d \in sees
    BY <1>3, <1>6
  <2>2. CASE b.producer = "missing" \/ ~run.started
    <3>1. r = Failed({})
      BY <1>0, <1>1, <1>6, <2>2, EngineStuck
    <3>2. W.tool[b.tool] = "ok" => run.started
      BY <1>0, OutcomeOf DEF Ran
    <3> QED
      BY <2>2, <3>1, <3>2 DEF Failed, Equipped
  <2>3. CASE ~(b.producer = "missing" \/ ~run.started) /\ Refused(b, run, payload)
    <3>1. r = Failed(Wrote(b, run))
      BY <1>0, <1>1, <1>6, <2>3, EngineRefuses
    <3>2. ASSUME W.tool[b.tool] = "ok", b.convert # "missing" PROVE FALSE
      <4>1. run.out = [kind |-> "report", sees |-> sees]
        BY <1>0, <2>1, <3>2, OutcomeOf DEF Ran
      <4>2. payload = [kind |-> "report", sees |-> sees]
        BY <1>1, <4>1 DEF Payload, Left, Empty
      <4> QED
        BY <2>1, <2>3, <3>2, <4>2 DEF Refused, emptyPayloadExitError, Readable
    <3> QED
      BY <3>1, <3>2 DEF Failed, Equipped
  <2>4. CASE ~(b.producer = "missing" \/ ~run.started) /\ ~Refused(b, run, payload)
    <3>1. \A x \in payload.sees : Violation(m, b, e, x) \in r.out
      BY <1>0, <1>1, <1>6, <2>4, EngineAnswers
    <3>2. W.tool[b.tool] \notin {"absent", "dead"}
      BY <1>0, <2>4, OutcomeOf DEF Ran
    <3>3. CASE W.tool[b.tool] = "ok"
      <4>1. run.out = [kind |-> "report", sees |-> sees]
        BY <1>0, <2>1, <3>3, OutcomeOf DEF Ran
      <4>2. payload = [kind |-> "report", sees |-> sees]
        BY <1>1, <4>1 DEF Payload, Left, Empty
      <4> QED
        BY <2>1, <3>1, <4>2
    <3>4. CASE W.tool[b.tool] = "silent"
      <4>1. run.status = 2 /\ run.out = Empty
        BY <1>0, <3>4, OutcomeOf DEF Ran
      <4>2. CASE b.artifact
        <5>1. payload = W.report[b.tool]
          BY <1>1, <4>1, <4>2 DEF Payload, Left
        <5> QED
          BY <3>1, <3>4, <4>2, <5>1
      <4>3. CASE ~b.artifact
        <5>1. payload = Empty
          BY <1>1, <4>1, <4>3 DEF Payload
        <5> QED
          BY <1>2, <2>4, <4>1, <5>1 DEF Refused, emptyPayloadExitError, exitAccepted, Empty
      <4> QED
        BY <4>2, <4>3
    <3>5. CASE W.tool[b.tool] \in {"noise", "foreign"}
      <4>1. run.out = [kind |-> W.tool[b.tool], sees |-> {}]
        BY <1>0, <3>5, OutcomeOf DEF Ran
      <4>2. payload.kind = W.tool[b.tool]
        BY <1>1, <3>5, <4>1 DEF Payload, Left, Empty
      <4> QED
        BY <2>4, <3>5, <4>2 DEF Refused, Readable
    <3> QED
      BY <1>2, <3>2, <3>3, <3>4, <3>5 DEF Conditions
  <2> QED
    BY <2>2, <2>3, <2>4
<1> QED
  BY <1>4, <1>5, <1>6

(* An engine whose tool does not start fails or skips the scope. *)
LEMMA DeadEngine ==
  ASSUME NEW W, NEW m, NEW e, NEW b, NEW rules, NEW scope,
         W.tool[b.tool] \in {"absent", "dead"},
         NEW r, r = runFindingsEngine(W, m, e, b, rules, scope)
  PROVE  r.err \/ dispatchAdvisory(m, e, <<"skipped-unclaimed-scope">>) \in r.out
<1>1. PICK run : run = Ran(W, m, b, rules, scope)
  OBVIOUS
<1>2. PICK payload : payload = Payload(W, b, run)
  OBVIOUS
<1>3. ~run.started
  BY <1>1, OutcomeOf DEF Ran
<1> QED
  BY <1>1, <1>2, <1>3, EngineUnfed, EngineSkips, EngineStuck DEF Failed

------------------------------------------------------------------------------
(* A dispatch.                                                              *)

(* The engine of a rule has a place in the dispatch. *)
LEMMA FirstRuleOf ==
  ASSUME NEW m, IsPack(m), NEW i \in DOMAIN m.rules
  PROVE  \E j \in FirstRules(m) : m.rules[j].engine = m.rules[i].engine
<1> DEFINE S == {j \in DOMAIN m.rules : m.rules[j].engine = m.rules[i].engine}
<1>1. S \subseteq Nat /\ S # {}
  BY DEF IsPack
<1>2. PICK j \in S : \A k \in S : j <= k
  BY <1>1, LeastOf
<1>3. \A k \in DOMAIN m.rules : k < j => k \notin S
  <2>1. j \in Nat /\ \A k \in DOMAIN m.rules : k \in Nat
    BY <1>1 DEF IsPack
  <2> QED
    BY <1>2, <2>1
<1>4. j \in FirstRules(m)
  BY <1>2, <1>3 DEF FirstRules
<1> QED
  BY <1>2, <1>4

(* The result of the engine a rule of a pack names. *)
ResultOf(W, ms, scope, k, i) == dispatchEngine(W, ms[k], ms[k].rules[i].engine, scope)

(* A dispatch is the sum of the engines that the rules of its packs name. *)
LEMMA DispatchHas ==
  ASSUME NEW W, NEW ms, IsPacks(ms), NEW scope,
         NEW k \in DOMAIN ms, NEW i \in DOMAIN ms[k].rules,
         NEW r, r = ResultOf(W, ms, scope, k, i)
  PROVE  /\ r.err => dispatchPackEngines(W, ms, scope).err
         /\ r.err => engineErrorViolation(ms[k], ms[k].rules[i].engine)
                       \in dispatchPackEngines(W, ms, scope).violations
         /\ r.out \subseteq dispatchPackEngines(W, ms, scope).violations
<1>1. PICK j \in FirstRules(ms[k]) : ms[k].rules[j].engine = ms[k].rules[i].engine
  BY FirstRuleOf DEF IsPacks
<1>2. <<k, j>> \in Dispatches(ms)
  BY <1>1 DEF Dispatches
<1>3. Engine(ms, <<k, j>>) = ms[k].rules[i].engine
  BY <1>1 DEF Engine
<1>4. dispatchEngine(W, ms[<<k, j>>[1]], Engine(ms, <<k, j>>), scope) = r
  BY <1>3 DEF ResultOf
<1> HIDE DEF Dispatches, Engine
<1> QED
  BY <1>2, <1>3, <1>4 DEF dispatchPackEngines

(* Whatever a dispatch says comes from the engine of some rule. *)
LEMMA DispatchFrom ==
  ASSUME NEW W, NEW ms, NEW scope
  PROVE  /\ dispatchPackEngines(W, ms, scope).err =>
            \E k \in DOMAIN ms : \E i \in DOMAIN ms[k].rules : ResultOf(W, ms, scope, k, i).err
         /\ \A v \in dispatchPackEngines(W, ms, scope).violations :
              \E k \in DOMAIN ms : \E i \in DOMAIN ms[k].rules :
                \/ v \in ResultOf(W, ms, scope, k, i).out
                \/ /\ ResultOf(W, ms, scope, k, i).err
                   /\ v = engineErrorViolation(ms[k], ms[k].rules[i].engine)
         /\ \A w \in dispatchPackEngines(W, ms, scope).wrote :
              \E k \in DOMAIN ms : \E i \in DOMAIN ms[k].rules : w \in ResultOf(W, ms, scope, k, i).wrote
<1> DEFINE all == Dispatches(ms)
           res(x) == dispatchEngine(W, ms[x[1]], Engine(ms, x), scope)
<1>1. \A x \in all : /\ x[1] \in DOMAIN ms /\ x[2] \in DOMAIN ms[x[1]].rules
                     /\ Engine(ms, x) = ms[x[1]].rules[x[2]].engine
  BY DEF Dispatches, Engine, FirstRules
<1>2. \A x \in all : res(x) = ResultOf(W, ms, scope, x[1], x[2])
  BY <1>1 DEF ResultOf
<1> HIDE DEF all
<1>3. /\ dispatchPackEngines(W, ms, scope).err => \E x \in all : res(x).err
      /\ dispatchPackEngines(W, ms, scope).wrote = UNION {res(x).wrote : x \in all}
      /\ dispatchPackEngines(W, ms, scope).violations =
           (UNION {res(x).out : x \in all})
           \cup {engineErrorViolation(ms[x[1]], Engine(ms, x)) : x \in {y \in all : res(y).err}}
  BY DEF dispatchPackEngines, all
<1> HIDE DEF res
<1>4. dispatchPackEngines(W, ms, scope).err =>
            \E k \in DOMAIN ms : \E i \in DOMAIN ms[k].rules : ResultOf(W, ms, scope, k, i).err
  BY <1>1, <1>2, <1>3
<1>5. \A v \in dispatchPackEngines(W, ms, scope).violations :
              \E k \in DOMAIN ms : \E i \in DOMAIN ms[k].rules :
                \/ v \in ResultOf(W, ms, scope, k, i).out
                \/ /\ ResultOf(W, ms, scope, k, i).err
                   /\ v = engineErrorViolation(ms[k], ms[k].rules[i].engine)
  <2> SUFFICES ASSUME NEW v \in dispatchPackEngines(W, ms, scope).violations
               PROVE  \E k \in DOMAIN ms : \E i \in DOMAIN ms[k].rules :
                \/ v \in ResultOf(W, ms, scope, k, i).out
                \/ /\ ResultOf(W, ms, scope, k, i).err
                   /\ v = engineErrorViolation(ms[k], ms[k].rules[i].engine)
    OBVIOUS
  <2>1. \E x \in all : \/ v \in res(x).out
                       \/ res(x).err /\ v = engineErrorViolation(ms[x[1]], Engine(ms, x))
    BY <1>3
  <2>2. PICK x \in all : \/ v \in res(x).out
                         \/ res(x).err /\ v = engineErrorViolation(ms[x[1]], Engine(ms, x))
    BY <2>1
  <2> QED
    BY <1>1, <1>2, <2>2
<1>6. \A w \in dispatchPackEngines(W, ms, scope).wrote :
              \E k \in DOMAIN ms : \E i \in DOMAIN ms[k].rules : w \in ResultOf(W, ms, scope, k, i).wrote
  BY <1>1, <1>2, <1>3
<1> QED
  BY <1>4, <1>5, <1>6

(* Every engine with a tool is run as a findings engine. *)
LEMMA FindingsDispatch ==
  ASSUME NEW W, NEW m, NEW e \in DOMAIN resolveEngineRegistry(m), NEW scope,
         resolveEngineRegistry(m)[e].tool # NoName
  PROVE  dispatchEngine(W, m, e, scope) =
           runFindingsEngine(W, m, e, resolveEngineRegistry(m)[e], RulesOf(m, e), scope)
BY DEF dispatchEngine

(* Dropping the rules of the dimensions keeps the rest of a manifest. *)
LEMMA ExcludeKeeps ==
  ASSUME NEW p \in DOMAIN Packs, NEW m, m = Packs[p], NEW x, x = excludeDedicatedStepRules(m)
  PROVE  /\ IsPack(m) /\ IsPack(x)
         /\ x.name = m.name /\ x.source = m.source /\ x.test = m.test /\ x.engines = m.engines
         /\ resolveEngineRegistry(x) = resolveEngineRegistry(m)
         /\ \A i \in DOMAIN m.rules :
              LET e == m.rules[i].engine
              IN /\ e \in DOMAIN resolveEngineRegistry(m)
                 /\ ~gateTypeHasDedicatedStep(resolveEngineRegistry(m)[e].gate)
                 => i \in DOMAIN x.rules /\ RulesOf(x, e) = RulesOf(m, e)
         /\ DOMAIN x.rules \subseteq DOMAIN m.rules
         /\ \A i \in DOMAIN x.rules : x.rules[i] = m.rules[i]
<1> DEFINE reg == resolveEngineRegistry(m)
           kept == {i \in DOMAIN m.rules :
                      ~(/\ m.rules[i].engine \in DOMAIN reg
                        /\ gateTypeHasDedicatedStep(reg[m.rules[i].engine].gate))}
           f == [i \in kept |-> m.rules[i]]
<1>1. DOMAIN m = {"name", "engines", "rules", "source", "test", "excluded", "compiler"}
  BY PacksAssumption
<1>2. DOMAIN m.rules \subseteq Nat
  BY PacksAssumption
<1>3. x = [m EXCEPT !.rules = f]
  BY DEF excludeDedicatedStepRules
<1>4. x.name = m.name /\ x.source = m.source /\ x.test = m.test /\ x.engines = m.engines /\ x.rules = f
  BY <1>1, <1>3
<1>5. resolveEngineRegistry(x) = resolveEngineRegistry(m)
  BY <1>4 DEF resolveEngineRegistry
<1>6. \A e \in DOMAIN m.engines : m.engines[e] \in Bindings
  BY DEF Bindings
<1>7. IsPack(m) /\ IsPack(x)
  BY <1>2, <1>4, <1>6 DEF IsPack
<1>8. /\ DOMAIN x.rules = kept
      /\ \A i \in kept : x.rules[i] = m.rules[i]
  BY <1>4
<1>9. ASSUME NEW i \in DOMAIN m.rules, NEW e, e = m.rules[i].engine,
             e \in DOMAIN reg, ~gateTypeHasDedicatedStep(reg[e].gate)
      PROVE  i \in DOMAIN x.rules /\ RulesOf(x, e) = RulesOf(m, e)
  <2>1. {j \in DOMAIN x.rules : x.rules[j].engine = e} = {j \in DOMAIN m.rules : m.rules[j].engine = e}
    BY <1>8, <1>9
  <2>2. \A j \in {q \in DOMAIN m.rules : m.rules[q].engine = e} : x.rules[j] = m.rules[j]
    BY <1>8, <2>1
  <2> QED
    BY <1>8, <1>9, <2>1, <2>2 DEF RulesOf
<1> QED
  BY <1>4, <1>5, <1>7, <1>8, <1>9

------------------------------------------------------------------------------
(* The pack_engines step.                                                   *)

FromPacks(ms) == DOMAIN ms \subseteq Nat /\ \A k \in DOMAIN ms : \E p \in DOMAIN Packs : ms[k] = Packs[p]

Kept(ms) == [k \in DOMAIN ms |-> excludeDedicatedStepRules(ms[k])]

(* Manifests of packs are well formed, also without the rules of the dimensions. *)
LEMMA KeptPacks ==
  ASSUME NEW ms, FromPacks(ms)
  PROVE  IsPacks(ms) /\ IsPacks(Kept(ms))
<1>1. ASSUME NEW k \in DOMAIN ms PROVE IsPack(ms[k]) /\ IsPack(excludeDedicatedStepRules(ms[k]))
  <2>1. PICK p \in DOMAIN Packs : ms[k] = Packs[p]
    BY DEF FromPacks
  <2> QED
    BY <2>1, ExcludeKeeps
<1> QED
  BY <1>1 DEF FromPacks, IsPacks, Kept

(* The step is the dispatch, filtered by the scope and judged. *)
LEMMA ValidatorStep ==
  ASSUME NEW W, NEW ms, NEW scope,
         NEW D, D = dispatchPackEngines(W, Kept(ms), scope),
         NEW step, step = packValidatorStep(W, ms, scope)
  PROVE  /\ step.step = "pack_engines"
         /\ ~provisionEngines(W, ms) => /\ step.config /\ step.status = "fail"
                                        /\ step.violations = {} /\ step.wrote = {}
         /\ provisionEngines(W, ms) =>
              /\ step.violations = FilterViolations(scope, D.violations)
              /\ step.wrote = D.wrote
              /\ D.err => step.config /\ step.status = "fail"
              /\ ~D.err => /\ ~step.config
                           /\ step.status = StepVerdict(FilterViolations(scope, D.violations))
<1> DEFINE vs == FilterViolations(scope, D.violations)
<1>1. CASE ~provisionEngines(W, ms)
  <2>1. step = ConfigError("pack_engines")
    BY <1>1 DEF packValidatorStep
  <2> QED
    BY <1>1, <2>1 DEF ConfigError
<1>2. CASE provisionEngines(W, ms) /\ D.err
  <2>1. step = [ConfigError("pack_engines") EXCEPT !.violations = vs, !.wrote = D.wrote]
    BY <1>2 DEF packValidatorStep, Kept
  <2> HIDE DEF vs
  <2>2. /\ step.step = "pack_engines" /\ step.config /\ step.status = "fail"
        /\ step.violations = vs /\ step.wrote = D.wrote
    BY <2>1 DEF ConfigError
  <2> QED
    BY <1>2, <2>2 DEF vs
<1>3. CASE provisionEngines(W, ms) /\ ~D.err
  <2>1. step = Step("pack_engines", StepVerdict(vs), vs, D.wrote)
    BY <1>3 DEF packValidatorStep, Kept
  <2> HIDE DEF vs
  <2>2. /\ step.step = "pack_engines" /\ ~step.config /\ step.status = StepVerdict(vs)
        /\ step.violations = vs /\ step.wrote = D.wrote
    BY <2>1 DEF Step
  <2> QED
    BY <1>3, <2>2 DEF vs
<1> QED
  BY <1>1, <1>2, <1>3

(* What the scope lets through. *)
LEMMA FilterKeeps ==
  ASSUME NEW scope, NEW vs, NEW v \in vs,
         v.wide \/ (v.file # NoFile /\ InScope(scope, v.file))
  PROVE  v \in FilterViolations(scope, vs)
BY DEF FilterViolations

(* The engine of the i-th rule of the k-th pack. *)
At(ms, k, i, l) ==
  /\ l.m = ms[k] /\ l.e = ms[k].rules[i].engine
  /\ l.e \in DOMAIN resolveEngineRegistry(ms[k])
  /\ l.b = resolveEngineRegistry(ms[k])[l.e]

(* A step accounts for the faults that an engine sees. *)
StepFinds(W, l, scope, step) ==
  /\ W.tool[l.b.tool] \in {"absent", "dead"} => step.config /\ step.status = "fail"
  /\ \A d : Sees(W, l.b, RulesOf(l.m, l.e), scope, d)
       => /\ \/ step.status = "fail" /\ step.config
             \/ Violation(l.m, l.b, l.e, d) \in step.violations
             \/ Blind(W, l.b, d)
          /\ W.tool[l.b.tool] = "ok" /\ Equipped(l.b, RulesOf(l.m, l.e)) =>
             Violation(l.m, l.b, l.e, d) \in step.violations

(* pack_engines accounts for every fault that an engine of it sees. *)
LEMMA ValidatorFinds ==
  ASSUME NEW W, IsWorld(W), NEW ms, FromPacks(ms), NEW scope, IsScope(W, scope),
         NEW k \in DOMAIN ms, NEW i \in DOMAIN ms[k].rules, NEW l, At(ms, k, i, l),
         l.b.tool # NoName, ~gateTypeHasDedicatedStep(l.b.gate),
         provisionEngines(W, ms),
         dispatchAdvisory(l.m, l.e, <<"skipped-unclaimed-scope">>)
           \notin packValidatorStep(W, ms, scope).violations
  PROVE  StepFinds(W, l, scope, packValidatorStep(W, ms, scope))
<1>0. PICK step : step = packValidatorStep(W, ms, scope)
  OBVIOUS
<1>e0. PICK e : e = l.e
  OBVIOUS
<1>b0. PICK b : b = l.b
  OBVIOUS
<1>00. /\ e = ms[k].rules[i].engine /\ e \in DOMAIN resolveEngineRegistry(ms[k])
       /\ b = resolveEngineRegistry(ms[k])[e]
       /\ b.tool # NoName /\ ~gateTypeHasDedicatedStep(b.gate)
       /\ dispatchAdvisory(ms[k], e, <<"skipped-unclaimed-scope">>) \notin step.violations
  BY <1>0, <1>e0, <1>b0 DEF At
<1>1. PICK D : D = dispatchPackEngines(W, Kept(ms), scope)
  OBVIOUS
<1>2. PICK x : x = excludeDedicatedStepRules(ms[k])
  OBVIOUS
<1>3. PICK r : r = runFindingsEngine(W, x, e, b, RulesOf(ms[k], e), scope)
  OBVIOUS
<1>a. PICK p \in DOMAIN Packs : ms[k] = Packs[p]
  BY DEF FromPacks
<1>b. /\ IsPack(ms[k]) /\ IsPack(x) /\ x.name = ms[k].name
      /\ resolveEngineRegistry(x) = resolveEngineRegistry(ms[k])
      /\ i \in DOMAIN x.rules /\ RulesOf(x, e) = RulesOf(ms[k], e)
      /\ x.rules[i] = ms[k].rules[i]
  BY <1>00, <1>2, <1>a, ExcludeKeeps
<1>c. b \in Bindings
  BY <1>00, <1>b, RegistryBindings
<1>d. Kept(ms)[k] = x /\ k \in DOMAIN Kept(ms)
  BY <1>2 DEF Kept
<1>e. dispatchEngine(W, x, e, scope) = r
  BY <1>00, <1>3, <1>b, FindingsDispatch
<1>f. ResultOf(W, Kept(ms), scope, k, i) = r
  BY <1>00, <1>b, <1>d, <1>e DEF ResultOf
<1>g. (r.err => D.err) /\ r.out \subseteq D.violations
  BY <1>1, <1>b, <1>d, <1>f, KeptPacks, DispatchHas
<1>h. /\ \A role : dispatchAdvisory(x, e, role) = dispatchAdvisory(ms[k], e, role)
      /\ \A d : Violation(x, b, e, d) = Violation(ms[k], b, e, d)
  BY <1>b DEF dispatchAdvisory, Violation
<1>5. /\ step.violations = FilterViolations(scope, D.violations)
      /\ D.err => step.config /\ step.status = "fail"
  BY <1>0, <1>1, ValidatorStep
<1>6. dispatchAdvisory(x, e, <<"skipped-unclaimed-scope">>) \notin r.out
  <2>1. dispatchAdvisory(ms[k], e, <<"skipped-unclaimed-scope">>).wide = TRUE
    BY DEF dispatchAdvisory
  <2>2. dispatchAdvisory(ms[k], e, <<"skipped-unclaimed-scope">>) \in D.violations
        => dispatchAdvisory(ms[k], e, <<"skipped-unclaimed-scope">>) \in step.violations
    BY <1>5, <2>1, FilterKeeps
  <2> QED
    BY <1>00, <1>g, <1>h, <2>2
<1>7. W.tool[b.tool] \in {"absent", "dead"} => step.config /\ step.status = "fail"
  BY <1>00, <1>3, <1>g, <1>5, <1>6, DeadEngine
<1>8. ASSUME NEW d, Sees(W, b, RulesOf(ms[k], e), scope, d)
      PROVE  /\ \/ step.status = "fail" /\ step.config
                \/ Violation(ms[k], b, e, d) \in step.violations
                \/ Blind(W, b, d)
             /\ W.tool[b.tool] = "ok" /\ Equipped(b, RulesOf(ms[k], e)) =>
                Violation(ms[k], b, e, d) \in step.violations
  <2>0. Accounted(W, x, e, b, RulesOf(ms[k], e), scope, d, r)
    BY <1>00, <1>3, <1>c, <1>8, EngineFinds
  <2>1. /\ \/ r.err
           \/ Violation(x, b, e, d) \in r.out
           \/ Blind(W, b, d)
        /\ W.tool[b.tool] = "ok" /\ Equipped(b, RulesOf(ms[k], e)) => Violation(x, b, e, d) \in r.out
    BY <1>6, <2>0 DEF Accounted
  <2>2. d.file # NoFile /\ InScope(scope, d.file)
    BY <1>8, FilesAssumption DEF IsWorld, FilePaths, Sees
  <2>3. Violation(ms[k], b, e, d).file = d.file
    BY DEF Violation
  <2>4. Violation(ms[k], b, e, d) \in D.violations => Violation(ms[k], b, e, d) \in step.violations
    BY <1>5, <2>2, <2>3, FilterKeeps
  <2> QED
    BY <1>g, <1>h, <1>5, <2>1, <2>4
<1> QED
  BY <1>0, <1>e0, <1>b0, <1>7, <1>8 DEF StepFinds, At

------------------------------------------------------------------------------
(* The steps of a run.                                                      *)

(* x is an element of a list. *)
Has(S, x) == \E i \in DOMAIN S : S[i] = x

(* The elements of two lists joined. *)
LEMMA HasConcat ==
  ASSUME NEW T, NEW s \in Seq(T), NEW t \in Seq(T), NEW x
  PROVE  /\ s \o t \in Seq(T)
         /\ Has(s \o t, x) <=> Has(s, x) \/ Has(t, x)
<1>1. s \o t \in Seq(T) /\ Len(s \o t) = Len(s) + Len(t)
  OBVIOUS
<1>2. Has(s \o t, x) => Has(s, x) \/ Has(t, x)
  BY <1>1 DEF Has
<1>3. Has(s, x) => Has(s \o t, x)
  BY <1>1 DEF Has
<1>4. ASSUME NEW i \in DOMAIN t, t[i] = x PROVE Has(s \o t, x)
  <2>1. Len(s) + i \in DOMAIN (s \o t) /\ (s \o t)[Len(s) + i] = t[i]
    BY <1>1
  <2> QED
    BY <1>4, <2>1 DEF Has
<1> QED
  BY <1>1, <1>2, <1>3, <1>4 DEF Has

(* The elements of a list of three. *)
LEMMA HasThree == ASSUME NEW a, NEW b, NEW c, NEW x
  PROVE Has(<<a, b, c>>, x) <=> x \in {a, b, c}
<1> DEFINE S == <<a, b, c>>
<1>1. DOMAIN S = 1 .. 3 /\ S[1] = a /\ S[2] = b /\ S[3] = c
  OBVIOUS
<1> QED
  BY <1>1 DEF Has

(* The element of a list of one. *)
LEMMA HasOne == ASSUME NEW p, NEW x PROVE /\ Has(<<p>>, x) <=> x = p
                                          /\ ~Has(<<>>, x)
BY DEF Has

(* A list that holds p at most. *)
Maybe(h, p) == h = <<>> \/ h = <<p>>

(* The elements of three steps between two that may be left out. *)
LEMMA StepList ==
  ASSUME NEW p, NEW a, NEW b, NEW c, NEW w, NEW h, NEW t, Maybe(h, p), Maybe(t, w), NEW x
  PROVE  Has((h \o <<a, b, c>>) \o t, x)
           <=> x \in {a, b, c} \/ (h # <<>> /\ x = p) \/ (t # <<>> /\ x = w)
<1> USE DEF Maybe
<1> DEFINE T == {p, a, b, c, w}
<1>1. h \in Seq(T) /\ t \in Seq(T) /\ <<a, b, c>> \in Seq(T)
  <2>1. p \in T /\ a \in T /\ b \in T /\ c \in T /\ w \in T
    OBVIOUS
  <2> HIDE DEF T
  <2>2. <<>> \in Seq(T) /\ <<p>> \in Seq(T) /\ <<w>> \in Seq(T)
    BY <2>1
  <2>3. <<a, b, c>> \in Seq(T)
    BY <2>1
  <2> QED
    BY <2>2, <2>3
<1>2. Has((h \o <<a, b, c>>) \o t, x) <=> Has(h, x) \/ Has(<<a, b, c>>, x) \/ Has(t, x)
  <2> DEFINE u == <<a, b, c>>
  <2>0. u \in Seq(T)
    BY <1>1
  <2> HIDE DEF T, u
  <2>1. h \o u \in Seq(T) /\ (Has(h \o u, x) <=> Has(h, x) \/ Has(u, x))
    BY <1>1, <2>0, HasConcat
  <2>2. Has((h \o u) \o t, x) <=> Has(h \o u, x) \/ Has(t, x)
    BY <1>1, <2>1, HasConcat
  <2> QED
    BY <2>1, <2>2 DEF u
<1>3. <<p>> # <<>> /\ <<w>> # <<>>
  OBVIOUS
<1>4. Has(h, x) <=> h # <<>> /\ x = p
  <2>1. CASE h = <<>>
    BY <2>1, HasOne
  <2>2. CASE h = <<p>>
    BY <2>2, <1>3, HasOne
  <2> QED
    BY <2>1, <2>2
<1>5. Has(t, x) <=> t # <<>> /\ x = w
  <2>1. CASE t = <<>>
    BY <2>1, HasOne
  <2>2. CASE t = <<w>>
    BY <2>2, <1>3, HasOne
  <2> QED
    BY <2>1, <2>2
<1>6. Has(<<a, b, c>>, x) <=> x \in {a, b, c}
  BY HasThree
<1> QED
  BY <1>2, <1>4, <1>5, <1>6

Toolchain == Step("toolchain_enforcement", "warning", {}, {})
SubStep(ms, scope) ==
  wrapTraceabilityStep(ms, "substantiveness", buildTestSubstantivenessStep(ms, scope))
CovStep(ms, scope) == wrapTraceabilityStep(ms, "coverage", buildCoverageStep(ms, scope))
ConStep(ms, scope) == wrapTraceabilityStep(ms, "contracts", buildContractStep(ms, scope))

(* The steps of a run whose packs are all installed. *)
LEMMA StepsOf ==
  ASSUME NEW ms, NEW scope, loadInstalledPacks, NEW x
  PROVE  Has(Steps(ms, scope), x) <=>
           \/ x \in {SubStep(ms, scope), CovStep(ms, scope), ConStep(ms, scope)}
           \/ DOMAIN ms # {} /\ x = packValidatorStep(World, ms, scope)
           \/ ~(\E k \in DOMAIN ms : declaresToolchainMechanism(ms[k])) /\ x = Toolchain
<1> DEFINE p == packValidatorStep(World, ms, scope)
           h == IF DOMAIN ms = {} THEN <<>> ELSE <<p>>
           t == toolchainEnforcementStatus(ms)
           a == SubStep(ms, scope)
           b == CovStep(ms, scope)
           c == ConStep(ms, scope)
<1>1. Steps(ms, scope) = (h \o <<a, b, c>>) \o t
  BY DEF Steps, SubStep, CovStep, ConStep
<1>2. <<p>> # <<>> /\ <<Toolchain>> # <<>>
  OBVIOUS
<1>3. h \in {<<>>, <<p>>} /\ (h # <<>> <=> DOMAIN ms # {})
  BY <1>2
<1>4. /\ t \in {<<>>, <<Toolchain>>}
      /\ t # <<>> <=> ~(\E k \in DOMAIN ms : declaresToolchainMechanism(ms[k]))
  BY <1>2 DEF toolchainEnforcementStatus, Toolchain
<1> HIDE DEF p, h, t, a, b, c
<1>5. Has(Steps(ms, scope), x) <=> x \in {a, b, c} \/ (h # <<>> /\ x = p) \/ (t # <<>> /\ x = Toolchain)
  <2>1. Maybe(h, p) /\ Maybe(t, Toolchain)
    BY <1>3, <1>4 DEF Maybe
  <2> QED
    BY <1>1, <2>1, StepList
<1> QED
  BY <1>3, <1>4, <1>5 DEF p, a, b, c

(* The polarity of a dimension: its own step runs only where a pack measures
   it and every declaration names a dimension. *)
Lacking(dim) == Step(dim, "warning", {Finding(dim, NoFile, <<"capability_absent">>, "warning")}, {})

(* No other outcome: a configuration error, the dimension's own step, or a warning. *)
LEMMA Polarity ==
  ASSUME NEW ms, NEW dim, NEW result
  PROVE  \/ wrapTraceabilityStep(ms, dim, result) = ConfigError(dim)
         \/ /\ ~hasUnknownGateType /\ packsDeclaringGateType(ms, dim) # {}
            /\ wrapTraceabilityStep(ms, dim, result) = result
         \/ /\ packsDeclaringGateType(ms, dim) = {}
            /\ wrapTraceabilityStep(ms, dim, result) = Lacking(dim)
<1>1. waivedDimension(dim) => declaredDimension(dim)
  BY DEF waivedDimension, declaredDimension
<1>2. CASE hasUnknownGateType
  <2>1. ClassifyDimension(ms, dim) = "broken-declared"
    BY <1>2 DEF ClassifyDimension
  <2> QED
    BY <1>2, <2>1 DEF wrapTraceabilityStep
<1>3. CASE ~hasUnknownGateType /\ packsDeclaringGateType(ms, dim) # {}
  <2>1. ClassifyDimension(ms, dim) = "none"
    BY <1>3 DEF ClassifyDimension
  <2> QED
    BY <1>3, <2>1 DEF wrapTraceabilityStep
<1>4. CASE ~hasUnknownGateType /\ packsDeclaringGateType(ms, dim) = {} /\ declaredDimension(dim)
  <2>1. ClassifyDimension(ms, dim) = "declared-intent-unmet"
    BY <1>4 DEF ClassifyDimension
  <2> QED
    BY <1>4, <2>1 DEF wrapTraceabilityStep
<1>5. CASE ~hasUnknownGateType /\ packsDeclaringGateType(ms, dim) = {} /\ ~declaredDimension(dim)
  <2>1. ClassifyDimension(ms, dim) = "capability-absent" /\ ~waivedDimension(dim)
    BY <1>1, <1>5 DEF ClassifyDimension
  <2> QED
    BY <1>5, <2>1 DEF wrapTraceabilityStep, Lacking
<1> QED
  BY <1>2, <1>3, <1>4, <1>5

------------------------------------------------------------------------------
(* What a run leaves on disk.                                               *)

WroteFine(W, w) ==
  w.tool \in Tools => w.out.kind \in ReportKinds /\ W.tool[w.tool] \in {"ok", "noise", "foreign"}

(* A report file is written by a tool that answers. *)
LEMMA WroteBy ==
  ASSUME NEW W, IsWorld(W), NEW b, NEW sees, NEW w \in Wrote(b, Outcome(W, b.tool, sees))
  PROVE  WroteFine(W, w)
<1>1. PICK run : run = Outcome(W, b.tool, sees)
  OBVIOUS
<1>2. w = [tool |-> b.tool, out |-> run.out] /\ run.out # Empty
  BY <1>1 DEF Wrote
<1> SUFFICES ASSUME b.tool \in Tools
             PROVE  run.out.kind \in ReportKinds /\ W.tool[b.tool] \in {"ok", "noise", "foreign"}
  BY <1>2 DEF WroteFine
<1>3. W.tool[b.tool] \in Conditions
  BY DEF IsWorld
<1>4. W.tool[b.tool] \notin {"absent", "dead", "silent"}
  BY <1>1, <1>2, OutcomeOf
<1>5. W.tool[b.tool] \in {"ok", "noise", "foreign"}
  BY <1>3, <1>4 DEF Conditions
<1>6. W.tool[b.tool] = "ok" => run.out.kind = "report"
  BY <1>1, <1>2, OutcomeOf
<1>7. W.tool[b.tool] \in {"noise", "foreign"} => run.out.kind = W.tool[b.tool]
  BY <1>1, OutcomeOf
<1> QED
  BY <1>5, <1>6, <1>7 DEF ReportKinds

(* A findings engine leaves a report file only if its tool answered. *)
LEMMA EngineWrote ==
  ASSUME NEW W, IsWorld(W), NEW m, NEW e, NEW scope, NEW w \in dispatchEngine(W, m, e, scope).wrote
  PROVE  WroteFine(W, w)
<1> DEFINE reg == resolveEngineRegistry(m)
           b == reg[e]
           rules == RulesOf(m, e)
<1>1. CASE e \notin DOMAIN reg
  BY <1>1 DEF dispatchEngine, Failed
<1>2. CASE e \in DOMAIN reg /\ b.input = "none" /\ b.tool = NoName
  <2>1. dispatchEngine(W, m, e, scope) = runSandboxEngine(W, m, e, rules)
    BY <1>2 DEF dispatchEngine
  <2>2. runSandboxEngine(W, m, e, rules).wrote = {}
    BY DEF runSandboxEngine, Failed
  <2> QED
    BY <2>1, <2>2
<1>3. CASE e \in DOMAIN reg /\ ~(b.input = "none" /\ b.tool = NoName)
  <2>1. dispatchEngine(W, m, e, scope) = runFindingsEngine(W, m, e, b, rules, scope)
    BY <1>3 DEF dispatchEngine
  <2> HIDE DEF b, rules
  <2>2. runFindingsEngine(W, m, e, b, rules, scope).wrote \in {{}, Wrote(b, Ran(W, m, b, rules, scope))}
    BY EngineUnfed, EngineSkips, EngineStuck, EngineRefuses, EngineAnswers DEF Failed
  <2>3. w \in Wrote(b, Ran(W, m, b, rules, scope))
    BY <2>1, <2>2
  <2> QED
    BY <2>3, WroteBy DEF Ran
<1> QED
  BY <1>1, <1>2, <1>3

(* So does a dispatch. *)
LEMMA DispatchWrote ==
  ASSUME NEW W, IsWorld(W), NEW ms, NEW scope, NEW w \in dispatchPackEngines(W, ms, scope).wrote
  PROVE  WroteFine(W, w)
<1>1. PICK k \in DOMAIN ms : \E i \in DOMAIN ms[k].rules : w \in ResultOf(W, ms, scope, k, i).wrote
  BY DispatchFrom
<1> QED
  BY <1>1, EngineWrote DEF ResultOf

(* The coverage dispatch, taken apart: what it wrote and recorded comes from a
   coverage engine of a pack. *)
CoverageOf(W, ms, x) ==
  LET reg == resolveEngineRegistry(ms[x[1]])
      e   == Engine(ms, x)
  IN runCoverageEngine(W, ms[x[1]], reg[e], RulesOf(ms[x[1]], e))

(* Its records and its reports are those of the engines it ran. *)
LEMMA CoverageFrom ==
  ASSUME NEW W, NEW ms, NEW D, D = dispatchPackCoverage(W, ms)
  PROVE  /\ \A w \in D.wrote : \E x \in Dispatches(ms) : w \in CoverageOf(W, ms, x).wrote
         /\ ~D.err => \A r \in D.records : \E x \in Dispatches(ms) :
              /\ Engine(ms, x) \in DOMAIN resolveEngineRegistry(ms[x[1]])
              /\ resolveEngineRegistry(ms[x[1]])[Engine(ms, x)].gate = "coverage"
              /\ ~CoverageOf(W, ms, x).err
              /\ r \in CoverageOf(W, ms, x).out
<1> DEFINE Known(x) == Engine(ms, x) \in DOMAIN resolveEngineRegistry(ms[x[1]])
           B(x)     == resolveEngineRegistry(ms[x[1]])[Engine(ms, x)]
           counted  == {x \in Dispatches(ms) : Known(x) => B(x).gate = "coverage"}
           res      == [x \in counted |-> IF ~Known(x) THEN Failed({}) ELSE CoverageOf(W, ms, x)]
           ran      == {x \in counted : \A y \in counted : Before(y, x) => ~res[y].err}
           err      == \E x \in ran : res[x].err
<1>1. D = [err |-> err, wrote |-> UNION {res[x].wrote : x \in ran},
           records |-> IF err THEN {} ELSE UNION {res[x].out : x \in ran}]
  BY DEF dispatchPackCoverage, CoverageOf
<1>2. ran \subseteq counted
  OBVIOUS
<1>3. \A x \in counted : /\ x \in Dispatches(ms)
                         /\ ~Known(x) => res[x].err /\ res[x].wrote = {}
                         /\ Known(x) => B(x).gate = "coverage" /\ res[x] = CoverageOf(W, ms, x)
  BY DEF Failed
<1> HIDE DEF counted, res, ran
<1>4. ASSUME NEW w \in D.wrote PROVE \E x \in Dispatches(ms) : w \in CoverageOf(W, ms, x).wrote
  <2>1. PICK x \in ran : w \in res[x].wrote
    BY <1>1
  <2> QED
    BY <1>2, <1>3, <2>1
<1>5. ASSUME ~D.err, NEW r \in D.records
      PROVE  \E x \in Dispatches(ms) :
              Known(x) /\ B(x).gate = "coverage" /\ ~CoverageOf(W, ms, x).err /\ r \in CoverageOf(W, ms, x).out
  <2>0. ~err
    BY <1>1, <1>5
  <2>1. PICK x \in ran : r \in res[x].out
    BY <1>1, <1>5, <2>0
  <2>2. ~res[x].err
    BY <2>0
  <2> QED
    BY <1>2, <1>3, <2>1, <2>2
<1> QED
  BY <1>4, <1>5

(* The coverage dispatch leaves a report file only if its tool answered. *)
LEMMA CoverageWrote ==
  ASSUME NEW W, IsWorld(W), NEW ms, NEW w \in dispatchPackCoverage(W, ms).wrote
  PROVE  WroteFine(W, w)
<1>1. PICK x \in Dispatches(ms) : w \in CoverageOf(W, ms, x).wrote
  BY CoverageFrom
<1>2. ASSUME NEW m, NEW b, NEW rules, w \in runCoverageEngine(W, m, b, rules).wrote
      PROVE  w \in Wrote(b, Outcome(W, b.tool, Measure(W, m, b)))
  BY <1>2 DEF runCoverageEngine, Failed
<1> QED
  BY <1>1, <1>2, WroteBy DEF CoverageOf

(* The built steps: their names and what they wrote. *)
LEMMA SubShape ==
  ASSUME NEW ms, NEW scope, NEW step, step = buildTestSubstantivenessStep(ms, scope)
  PROVE  /\ step.step = "substantiveness"
         /\ \E packs : \A w \in step.wrote : w \in dispatchPackEngines(World, packs, scope).wrote
<1> DEFINE cap == resolveCapabilityPack(ms, "substantiveness")
           d   == dispatchPackEngines(World, cap.packs, scope)
<1>1. \/ step = ConfigError("substantiveness")
      \/ step = Step("substantiveness", "pass", {}, {})
      \/ step = [ConfigError("substantiveness") EXCEPT !.wrote = d.wrote]
      \/ \E status, vs : step = Step("substantiveness", status, vs, d.wrote)
  BY DEF buildTestSubstantivenessStep
<1> HIDE DEF d
<1>2. step.step = "substantiveness" /\ (step.wrote = {} \/ step.wrote = d.wrote)
  BY <1>1 DEF ConfigError, Step
<1> QED
  BY <1>2 DEF d

(* The threshold check is a coverage step that writes nothing. *)
LEMMA CovThresholdShape ==
  ASSUME NEW ms, NEW records, NEW scope
  PROVE  \E status, vs : StepCoverageThreshold(ms, records, scope) = Step("coverage", status, vs, {})
BY DEF StepCoverageThreshold

(* The coverage step is the threshold check, unless the dispatch fails. *)
LEMMA CovShape ==
  ASSUME NEW ms, NEW scope, NEW step, step = buildCoverageStep(ms, scope)
  PROVE  /\ step.step = "coverage"
         /\ step.wrote = dispatchPackCoverage(World, ms).wrote
         /\ dispatchPackCoverage(World, ms).err => step.status = "fail"
         /\ ~dispatchPackCoverage(World, ms).err =>
              LET s == StepCoverageThreshold(ms, dispatchPackCoverage(World, ms).records, scope)
              IN step.status = s.status /\ step.violations = s.violations
<1> DEFINE d == dispatchPackCoverage(World, ms)
           s == StepCoverageThreshold(ms, d.records, scope)
<1>1. step = [IF d.err THEN ConfigError("coverage") ELSE s EXCEPT !.wrote = d.wrote]
  BY DEF buildCoverageStep
<1>2. PICK status, vs : s = Step("coverage", status, vs, {})
  BY CovThresholdShape
<1> HIDE DEF d, s
<1>3. CASE d.err
  <2>1. step = [ConfigError("coverage") EXCEPT !.wrote = d.wrote]
    BY <1>1, <1>3
  <2>2. step.step = "coverage" /\ step.wrote = d.wrote /\ step.status = "fail"
    BY <2>1 DEF ConfigError
  <2> QED
    BY <1>3, <2>2 DEF d
<1>4. CASE ~d.err
  <2>1. step = [Step("coverage", status, vs, {}) EXCEPT !.wrote = d.wrote]
    BY <1>1, <1>2, <1>4
  <2>2. /\ step.step = "coverage" /\ step.wrote = d.wrote
        /\ step.status = status /\ step.violations = vs
    BY <2>1 DEF Step
  <2>3. s.status = status /\ s.violations = vs
    BY <1>2 DEF Step
  <2> QED
    BY <1>4, <2>2, <2>3 DEF d, s
<1> QED
  BY <1>3, <1>4

(* The contract step writes nothing. *)
LEMMA ConShape ==
  ASSUME NEW ms, NEW scope, NEW step, step = buildContractStep(ms, scope)
  PROVE  step.step = "contracts" /\ step.wrote = {}
BY DEF buildContractStep, StepContractSignature, ConfigError, Step

(* A dimension's step has the dimension's name, and writes what its own step
   wrote or nothing. *)
LEMMA DimensionShape ==
  ASSUME NEW ms, NEW dim, NEW result, result.step = dim
  PROVE  /\ wrapTraceabilityStep(ms, dim, result).step = dim
         /\ \A w \in wrapTraceabilityStep(ms, dim, result).wrote : w \in result.wrote
<1>1. PICK step : step = wrapTraceabilityStep(ms, dim, result)
  OBVIOUS
<1>2. step = result \/ step = ConfigError(dim) \/ step = Lacking(dim)
  BY <1>1, Polarity
<1>3. step.step = dim /\ \A w \in step.wrote : w \in result.wrote
  BY <1>2 DEF ConfigError, Lacking, Step
<1> QED
  BY <1>1, <1>3

(* Every step goes by its own name. *)
LEMMA StepNames ==
  ASSUME NEW ms, NEW scope
  PROVE  /\ SubStep(ms, scope).step = "substantiveness"
         /\ CovStep(ms, scope).step = "coverage"
         /\ ConStep(ms, scope).step = "contracts"
         /\ packValidatorStep(World, ms, scope).step = "pack_engines"
         /\ Toolchain.step = "toolchain_enforcement"
<1>1. SubStep(ms, scope).step = "substantiveness"
  <2>1. buildTestSubstantivenessStep(ms, scope).step = "substantiveness"
    BY SubShape
  <2> QED
    BY <2>1, DimensionShape DEF SubStep
<1>2. CovStep(ms, scope).step = "coverage"
  BY CovShape, DimensionShape DEF CovStep
<1>3. ConStep(ms, scope).step = "contracts"
  <2>1. buildContractStep(ms, scope).step = "contracts"
    BY ConShape
  <2> QED
    BY <2>1, DimensionShape DEF ConStep
<1>4. packValidatorStep(World, ms, scope).step = "pack_engines"
  BY ValidatorStep
<1> QED
  BY <1>1, <1>2, <1>3, <1>4 DEF Toolchain, Step

(* Every report file of a run was written by a tool that answered. *)
LEMMA RunWrote ==
  ASSUME IsWorld(World), NEW ms, NEW scope, NEW x, Has(Steps(ms, scope), x), NEW w \in x.wrote
  PROVE  WroteFine(World, w)
<1>1. CASE ~loadInstalledPacks
  <2>1. Steps(ms, scope) = <<ConfigError("pack_loading")>>
    BY <1>1 DEF Steps
  <2>2. x = ConfigError("pack_loading")
    BY <2>1, HasOne
  <2> QED
    BY <2>2 DEF ConfigError
<1>2. CASE loadInstalledPacks
  <2>1. CASE x = SubStep(ms, scope)
    <3>1. PICK packs : \A v \in buildTestSubstantivenessStep(ms, scope).wrote :
                         v \in dispatchPackEngines(World, packs, scope).wrote
      BY SubShape
    <3>2. w \in buildTestSubstantivenessStep(ms, scope).wrote
      <4>1. buildTestSubstantivenessStep(ms, scope).step = "substantiveness"
        BY SubShape
      <4> QED
        BY <2>1, <4>1, DimensionShape DEF SubStep
    <3> QED
      BY <3>1, <3>2, DispatchWrote
  <2>2. CASE x = CovStep(ms, scope)
    <3>1. w \in dispatchPackCoverage(World, ms).wrote
      BY <2>2, CovShape, DimensionShape DEF CovStep
    <3> QED
      BY <3>1, CoverageWrote
  <2>3. CASE x = ConStep(ms, scope)
    BY <2>3, ConShape, DimensionShape DEF ConStep
  <2>4. CASE x = packValidatorStep(World, ms, scope)
    <3>1. x.wrote = {} \/ x.wrote = dispatchPackEngines(World, Kept(ms), scope).wrote
      BY <2>4, ValidatorStep
    <3> QED
      BY <3>1, DispatchWrote
  <2>5. CASE x = Toolchain
    BY <2>5 DEF Toolchain, Step
  <2> QED
    BY <1>2, <2>1, <2>2, <2>3, <2>4, <2>5, StepsOf
<1> QED
  BY <1>1, <1>2

------------------------------------------------------------------------------
(* The world of a run.                                                      *)

(* The shapes that the runs rely on: facts are about files that are there,
   changed paths are paths of files, tools are in known conditions and leave
   known kinds of reports, and the packs and specs in use exist. *)
EvidenceInv ==
  /\ files \subseteq SourceFiles
  /\ \A d \in facts : d.file \in files \cup {NoFile}
  /\ covered \in [SourceFiles -> -1 .. Total]
  /\ tool \in [Tools -> Conditions]
  /\ \A t \in Tools : report[t].kind \in ReportKinds
  /\ declared \subseteq DOMAIN Packs
  /\ due \subseteq DOMAIN Specs
  /\ changed \subseteq FilePaths

(* The invariant gives the shapes that the lemmas above ask for. *)
LEMMA WorldOfInv ==
  ASSUME EvidenceInv
  PROVE  IsWorld(World) /\ FromPacks(Manifests)
<1>1. IsWorld(World)
  BY DEF EvidenceInv, IsWorld, World
<1>2. DOMAIN Manifests \subseteq Nat
  BY PacksAssumption DEF Manifests
<1>3. \A k \in DOMAIN Manifests : \E p \in DOMAIN Packs : Manifests[k] = Packs[p]
  BY DEF Manifests, EvidenceInv
<1> QED
  BY <1>1, <1>2, <1>3 DEF FromPacks

(* A declared pack is in the list of manifests. *)
LEMMA DeclaredListed ==
  ASSUME EvidenceInv, NEW p \in declared
  PROVE  \E k \in DOMAIN Manifests : Manifests[k] = Packs[p]
<1>1. PICK i \in DOMAIN PackOrder : PackOrder[i] = p
  BY PacksAssumption DEF EvidenceInv
<1> QED
  BY <1>1 DEF Manifests

(* A scope lists paths of files; a full sweep lists the files, --file one of them. *)
LEMMA ScopesOfInv ==
  ASSUME EvidenceInv, NEW scope \in Scopes
  PROVE  /\ IsScope(World, scope)
         /\ scope.mode \in {"all", "diff", "file"}
         /\ scope.files \subseteq FilePaths
<1>1. files \subseteq FilePaths /\ changed \subseteq FilePaths
  BY DEF EvidenceInv, FilePaths
<1>2. World.files = files
  BY DEF World
<1>3. \/ scope = Scope("all", files)
      \/ scope = Scope("diff", changed)
      \/ \E f \in files : scope = Scope("file", {f})
  BY DEF Scopes, Whole
<1> QED
  BY <1>1, <1>2, <1>3 DEF IsScope, Scope

(* A run leaves the reports of the tools that did not answer as they were. *)
LEMMA RunReports ==
  ASSUME EvidenceInv, NEW scope \in Scopes, RunGate(scope)
  PROVE  \A t \in Tools : /\ report'[t].kind \in ReportKinds
                          /\ tool[t] \notin {"ok", "noise", "foreign"} => report'[t] = report[t]
<1>1. PICK S : S = Steps(Manifests, scope)
  OBVIOUS
<1>2. last'.steps = S
  BY <1>1 DEF RunGate
<1> SUFFICES ASSUME NEW t \in Tools
             PROVE  /\ report'[t].kind \in ReportKinds
                    /\ tool[t] \notin {"ok", "noise", "foreign"} => report'[t] = report[t]
  OBVIOUS
<1> DEFINE written == {w \in UNION {S[i].wrote : i \in Reached(S)} : w.tool = t}
<1>3. report'[t] = IF written = {} THEN report[t] ELSE (CHOOSE w \in written : TRUE).out
  BY <1>2 DEF RunGate
<1>4. ASSUME NEW w \in written
      PROVE  w.out.kind \in ReportKinds /\ tool[t] \in {"ok", "noise", "foreign"}
  <2>1. PICK i \in Reached(S) : w \in S[i].wrote
    OBVIOUS
  <2>2. Has(S, S[i])
    BY DEF Reached, Has
  <2>3. WroteFine(World, w)
    BY <1>1, <2>1, <2>2, WorldOfInv, RunWrote
  <2> QED
    BY <2>3 DEF WroteFine, World
<1> HIDE DEF written
<1>5. CASE written = {}
  BY <1>3, <1>5 DEF EvidenceInv
<1>6. CASE written # {}
  <2>1. (CHOOSE w \in written : TRUE) \in written
    BY <1>6
  <2> QED
    BY <1>3, <1>4, <1>6, <2>1
<1> QED
  BY <1>5, <1>6

(* A step is a run or an edit, and an edit forgets the last run. *)
LEMMA RunOrEdit ==
  ASSUME Next
  PROVE  (\E scope \in Scopes : RunGate(scope)) \/ last' = NoRun
BY DEF Next, Edit, Introduce, Repair, SetCovered, DeleteFile, BreakTool, AddPack, RemovePack,
       LosePack, DeclareEntry, Promise

(* The invariant holds at the start. *)
LEMMA InvInit == Init => EvidenceInv
<1> SUFFICES ASSUME Init PROVE EvidenceInv
  OBVIOUS
<1>1. files \subseteq SourceFiles /\ \A d \in facts : d.file \in files \cup {NoFile}
  BY WorldAssumption DEF Init
<1>2. covered \in [SourceFiles -> -1 .. Total] /\ tool \in [Tools -> Conditions]
  BY DEF Init, Total, Conditions
<1>3. \A t \in Tools : report[t].kind \in ReportKinds
  BY DEF Init, ReportKinds
<1>4. declared \subseteq DOMAIN Packs /\ due \subseteq DOMAIN Specs /\ changed \subseteq FilePaths
  BY PacksAssumption, SpecsAssumption DEF Init
<1> QED
  BY <1>1, <1>2, <1>3, <1>4 DEF EvidenceInv

(* Runs and edits keep the invariant. *)
LEMMA InvStep == EvidenceInv /\ [Next]_vars => EvidenceInv'
<1> SUFFICES ASSUME EvidenceInv, [Next]_vars PROVE EvidenceInv'
  OBVIOUS
<1> USE DEF EvidenceInv
<1>1. ASSUME NEW scope \in Scopes, RunGate(scope) PROVE EvidenceInv'
  <2>1. \A t \in Tools : report'[t].kind \in ReportKinds
    BY <1>1, RunReports
  <2> QED
    BY <1>1, <2>1 DEF RunGate
<1>2. ASSUME NEW d \in Facts, Introduce(d) PROVE EvidenceInv'
  BY <1>2 DEF Introduce, FilePaths
<1>3. ASSUME NEW d \in Facts, Repair(d) PROVE EvidenceInv'
  BY <1>3 DEF Repair, FilePaths
<1>4. ASSUME NEW f \in SourceFiles, DeleteFile(f) PROVE EvidenceInv'
  BY <1>4 DEF DeleteFile, FilePaths
<1>5. ASSUME NEW f \in SourceFiles, NEW n \in -1 .. Total, SetCovered(f, n) PROVE EvidenceInv'
  BY <1>5 DEF SetCovered, FilePaths
<1>6. ASSUME NEW x \in Breakages, BreakTool(x.tool, x.to) PROVE EvidenceInv'
  BY <1>6, WorldAssumption DEF BreakTool
<1>7. ASSUME NEW p \in DOMAIN Packs, AddPack(p) \/ RemovePack(p) \/ LosePack(p) PROVE EvidenceInv'
  BY <1>7 DEF AddPack, RemovePack, LosePack
<1>8. ASSUME NEW t \in Entries, DeclareEntry(t) PROVE EvidenceInv'
  BY <1>8 DEF DeclareEntry
<1>9. ASSUME NEW s \in DOMAIN Specs, Promise(s) PROVE EvidenceInv'
  BY <1>9 DEF Promise, FilePaths
<1>10. CASE UNCHANGED vars
  BY <1>10 DEF vars
<1> QED
  BY <1>1, <1>2, <1>3, <1>4, <1>5, <1>6, <1>7, <1>8, <1>9, <1>10 DEF Next

(* In every state facts are about files that are there, changed paths name
   files, and tools, reports, packs and specs are ones that exist. *)
THEOREM EvidenceInvariant == SpecE => []EvidenceInv
BY InvInit, InvStep, PTL DEF SpecE

------------------------------------------------------------------------------
(* What the steps of a run say.                                             *)

(* The answers of a run, by the name of the step. *)
LEMMA AnswersOf ==
  ASSUME EvidenceInv, NEW scope \in Scopes, RunGate(scope), NEW name, name # "pack_loading",
         NEW step \in {last'.steps[i] : i \in {j \in Reached(last'.steps) : last'.steps[j].step = name}}
  PROVE  /\ loadInstalledPacks
         /\ name = "pack_engines" => step = packValidatorStep(World, Manifests, scope)
         /\ name = "substantiveness" => step = SubStep(Manifests, scope)
         /\ name = "coverage" => step = CovStep(Manifests, scope)
         /\ name = "contracts" => step = ConStep(Manifests, scope)
<1>1. last'.steps = Steps(Manifests, scope)
  BY DEF RunGate
<1>2. Has(Steps(Manifests, scope), step) /\ step.step = name
  BY <1>1 DEF Has, Reached
<1>3. loadInstalledPacks
  <2> SUFFICES ASSUME ~loadInstalledPacks PROVE FALSE
    OBVIOUS
  <2>1. Steps(Manifests, scope) = <<ConfigError("pack_loading")>>
    BY DEF Steps
  <2>2. step = ConfigError("pack_loading")
    BY <1>2, <2>1, HasOne
  <2> QED
    BY <1>2, <2>2 DEF ConfigError
<1>4. \/ step \in {SubStep(Manifests, scope), CovStep(Manifests, scope), ConStep(Manifests, scope)}
      \/ step = packValidatorStep(World, Manifests, scope)
      \/ step = Toolchain
  BY <1>2, <1>3, StepsOf
<1> QED
  BY <1>2, <1>3, <1>4, StepNames

(* An engine that a rule names, as a place in the dispatch. *)
LEMMA NamedListed ==
  ASSUME EvidenceInv, NEW l \in Named
  PROVE  \E k \in DOMAIN Manifests : \E i \in DOMAIN Manifests[k].rules :
           /\ l.m = Manifests[k] /\ l.e = Manifests[k].rules[i].engine
           /\ l.b = resolveEngineRegistry(Manifests[k])[l.e]
<1>0. PICK p \in declared : \E e \in {Packs[p].rules[i].engine : i \in DOMAIN Packs[p].rules} :
        l = [m |-> Packs[p], e |-> e, b |-> resolveEngineRegistry(Packs[p])[e]]
  BY DEF Named
<1>1. PICK e \in {Packs[p].rules[i].engine : i \in DOMAIN Packs[p].rules} :
        l = [m |-> Packs[p], e |-> e, b |-> resolveEngineRegistry(Packs[p])[e]]
  BY <1>0
<1>2. PICK k \in DOMAIN Manifests : Manifests[k] = Packs[p]
  BY DeclaredListed
<1>3. PICK i \in DOMAIN Manifests[k].rules : e = Manifests[k].rules[i].engine
  BY <1>1, <1>2
<1> QED
  BY <1>1, <1>2, <1>3

(* Provisioning knows the engine of every rule. *)
LEMMA Provisioned ==
  ASSUME NEW W, NEW ms, provisionEngines(W, ms), NEW k \in DOMAIN ms, NEW i \in DOMAIN ms[k].rules,
         NEW e, e = ms[k].rules[i].engine
  PROVE  /\ e \in DOMAIN resolveEngineRegistry(ms[k])
         /\ resolveEngineRegistry(ms[k])[e].trusted
         /\ resolveEngineRegistry(ms[k])[e].tool # NoName =>
              W.tool[resolveEngineRegistry(ms[k])[e].tool] # "absent"
BY DEF provisionEngines

(* What pack_engines says about the engines that look for faults. *)
LEMMA LookingFinds ==
  ASSUME EvidenceInv, NEW scope \in Scopes, NEW l \in Looking,
         provisionEngines(World, Manifests),
         ~Skipped(l, packValidatorStep(World, Manifests, scope))
  PROVE  /\ l.b.trusted /\ l.b.tool \in Tools
         /\ StepFinds(World, l, scope, packValidatorStep(World, Manifests, scope))
<1>1. l \in Named /\ l.b.tool # NoName /\ ~gateTypeHasDedicatedStep(l.b.gate)
  BY DEF Looking
<1>2. PICK k \in DOMAIN Manifests :
        \E i \in DOMAIN Manifests[k].rules :
           /\ l.m = Manifests[k] /\ l.e = Manifests[k].rules[i].engine
           /\ l.b = resolveEngineRegistry(Manifests[k])[l.e]
  BY <1>1, NamedListed
<1>3. PICK i \in DOMAIN Manifests[k].rules :
           /\ l.m = Manifests[k] /\ l.e = Manifests[k].rules[i].engine
           /\ l.b = resolveEngineRegistry(Manifests[k])[l.e]
  BY <1>2
<1>4. l.e \in DOMAIN resolveEngineRegistry(Manifests[k]) /\ l.b.trusted
  BY <1>3, Provisioned
<1>5. IsWorld(World) /\ FromPacks(Manifests) /\ IsScope(World, scope)
  BY WorldOfInv, ScopesOfInv
<1>6. dispatchAdvisory(l.m, l.e, <<"skipped-unclaimed-scope">>)
        \notin packValidatorStep(World, Manifests, scope).violations
  BY DEF Skipped
<1>7. At(Manifests, k, i, l)
  BY <1>3, <1>4 DEF At
<1>8. l.b.tool \in Tools
  <2>1. IsPack(Manifests[k])
    BY <1>5, KeptPacks DEF IsPacks
  <2>2. l.b \in Bindings
    BY <1>3, <1>4, <2>1, RegistryBindings
  <2> QED
    BY <1>1, <2>2 DEF Tools
<1> QED
  BY <1>1, <1>4, <1>5, <1>6, <1>7, <1>8, ValidatorFinds

(* An error among its findings fails pack_engines. *)
LEMMA ErrorFails ==
  ASSUME NEW W, NEW ms, NEW scope, NEW v \in packValidatorStep(W, ms, scope).violations,
         v.severity = "error"
  PROVE  packValidatorStep(W, ms, scope).status = "fail"
<1>1. PICK vs : vs = FilterViolations(scope, dispatchPackEngines(W, Kept(ms), scope).violations)
  OBVIOUS
<1>2. v \in vs => StepVerdict(vs) = "fail"
  BY DEF StepVerdict, blocksVerdict
<1> QED
  BY <1>1, <1>2, ValidatorStep

(* What a run leaves alone. *)
LEMMA RunKeeps ==
  ASSUME NEW scope \in Scopes, RunGate(scope)
  PROVE  /\ last'.scope = scope
         /\ Named' = Named /\ Looking' = Looking /\ Manifests' = Manifests
         /\ files' = files /\ facts' = facts /\ tool' = tool /\ covered' = covered
<1>1. last'.scope = scope
  BY DEF RunGate
<1>2. Named' = Named
  BY DEF RunGate, Named
<1>3. Looking' = Looking
  BY <1>2 DEF Looking
<1>4. Manifests' = Manifests
  BY DEF RunGate, Manifests
<1> QED
  BY <1>1, <1>2, <1>3, <1>4 DEF RunGate

(* A fault that counts is one that the engine sees. *)
LEMMA VisibleSeen ==
  ASSUME NEW scope \in Scopes, RunGate(scope), NEW l, NEW d \in Visible(l)'
  PROVE  Sees(World, l.b, RulesOf(l.m, l.e), scope, d) /\ d.severity = "error"
<1>1. World.files = files /\ World.facts = facts
  BY DEF World
<1> QED
  BY <1>1, RunKeeps DEF Visible, Sees

(* A run satisfies CleanScanIsReal. *)
LEMMA CleanRun ==
  ASSUME EvidenceInv, NEW scope \in Scopes, RunGate(scope)
  PROVE  CleanScanIsReal'
<1> SUFFICES ASSUME NEW step \in Answers("pack_engines")', step.status # "fail",
                    NEW l \in Looking', NEW d \in Visible(l)', ~Skipped(l, step)
             PROVE  Unread(l, d)'
  BY DEF CleanScanIsReal, Skipped
<1>1. step = packValidatorStep(World, Manifests, scope)
  BY AnswersOf DEF Answers
<1>2. l \in Looking
  BY RunKeeps
<1>3. Sees(World, l.b, RulesOf(l.m, l.e), scope, d) /\ d.severity = "error"
  BY VisibleSeen
<1>4. provisionEngines(World, Manifests)
  BY <1>1, ValidatorStep
<1>5. l.b.tool \in Tools /\ StepFinds(World, l, scope, step)
  BY <1>1, <1>2, <1>4, LookingFinds
<1>6. Violation(l.m, l.b, l.e, d) \notin step.violations
  <2>1. Violation(l.m, l.b, l.e, d).severity = "error"
    BY <1>3 DEF Violation
  <2> QED
    BY <1>1, <2>1, ErrorFails
<1>7. Blind(World, l.b, d)
  BY <1>3, <1>5, <1>6 DEF StepFinds
<1>8. tool[l.b.tool] = "silent" => report'[l.b.tool] = report[l.b.tool]
  BY <1>5, RunReports
<1> QED
  BY <1>7, <1>8, RunKeeps DEF Blind, Unread, World

(* pack_engines does not pass over a fault, for every set of packs, tools and
   facts: a run that does not fail saw every fault it was there to see. *)
THEOREM CleanScan == SpecE => []CleanScanIsReal
<1>1. Init => CleanScanIsReal
  BY DEF Init, CleanScanIsReal, Answers, NoRun, Reached
<1>2. EvidenceInv /\ [Next]_vars /\ CleanScanIsReal => CleanScanIsReal'
  <2> SUFFICES ASSUME EvidenceInv, [Next]_vars, CleanScanIsReal PROVE CleanScanIsReal'
    OBVIOUS
  <2>1. CASE UNCHANGED vars
    BY <2>1 DEF CleanScanIsReal, vars, Answers, Looking, Named, Visible, Unread
  <2>2. CASE last' = NoRun
    BY <2>2 DEF CleanScanIsReal, Answers, NoRun, Reached
  <2>3. ASSUME NEW scope \in Scopes, RunGate(scope) PROVE CleanScanIsReal'
    BY <2>3, CleanRun
  <2> QED
    BY <2>1, <2>2, <2>3, RunOrEdit
<1> QED
  BY <1>1, <1>2, EvidenceInvariant, PTL DEF SpecE

(* A run satisfies FailureHidesNothing. *)
LEMMA FailureRun ==
  ASSUME EvidenceInv, NEW scope \in Scopes, RunGate(scope)
  PROVE  FailureHidesNothing'
<1>0. provisionEngines(World, Manifests)' <=> provisionEngines(World, Manifests)
  BY RunKeeps DEF provisionEngines, World
<1> SUFFICES ASSUME NEW step \in Answers("pack_engines")', provisionEngines(World, Manifests),
                    NEW l \in Looking', ~Skipped(l, step)
             PROVE  /\ Working(l)' => \A d \in Visible(l)' :
                                        Violation(l.m, l.b, l.e, d) \in step.violations
                    /\ tool'[l.b.tool] = "dead" => step.config
  BY <1>0 DEF FailureHidesNothing, Skipped
<1>1. step = packValidatorStep(World, Manifests, scope)
  BY AnswersOf DEF Answers
<1>2. l \in Looking
  BY RunKeeps
<1>3. l.b.trusted /\ StepFinds(World, l, scope, step)
  BY <1>1, <1>2, LookingFinds
<1>4. tool' = tool /\ World.tool = tool
  BY RunKeeps DEF World
<1>5. tool'[l.b.tool] = "dead" => step.config
  BY <1>3, <1>4 DEF StepFinds
<1>6. ASSUME Working(l)', NEW d \in Visible(l)'
      PROVE  Violation(l.m, l.b, l.e, d) \in step.violations
  <2>1. Sees(World, l.b, RulesOf(l.m, l.e), scope, d)
    BY VisibleSeen
  <2>2. World.tool[l.b.tool] = "ok" /\ Equipped(l.b, RulesOf(l.m, l.e))
    BY <1>3, <1>4, <1>6 DEF Working, Equipped
  <2> QED
    BY <1>3, <2>1, <2>2 DEF StepFinds
<1> QED
  BY <1>5, <1>6

(* For every set of packs, tools and facts, an engine that fails hides nothing
   that another engine finds, and fails the step. *)
THEOREM FailureHides == SpecE => []FailureHidesNothing
<1>1. Init => FailureHidesNothing
  BY DEF Init, FailureHidesNothing, Answers, NoRun, Reached
<1>2. EvidenceInv /\ [Next]_vars /\ FailureHidesNothing => FailureHidesNothing'
  <2> SUFFICES ASSUME EvidenceInv, [Next]_vars, FailureHidesNothing PROVE FailureHidesNothing'
    OBVIOUS
  <2>1. CASE UNCHANGED vars
    BY <2>1 DEF FailureHidesNothing, vars, Answers, Looking, Named, Visible, Working, World, Manifests
  <2>2. CASE last' = NoRun
    BY <2>2 DEF FailureHidesNothing, Answers, NoRun, Reached
  <2>3. ASSUME NEW scope \in Scopes, RunGate(scope) PROVE FailureHidesNothing'
    BY <2>3, FailureRun
  <2> QED
    BY <2>1, <2>2, <2>3, RunOrEdit
<1> QED
  BY <1>1, <1>2, EvidenceInvariant, PTL DEF SpecE

------------------------------------------------------------------------------
(* A green run without findings.                                            *)

(* The packs that measure a dimension: some pack does and the resolution does
   not fail, so there is one and it is the one that is used. *)
LEMMA OneMeasures ==
  ASSUME EvidenceInv, NEW dim, NEW k \in packsDeclaringGateType(Manifests, dim),
         ~resolveCapabilityPack(Manifests, dim).err
  PROVE  /\ Cardinality(packsDeclaringGateType(Manifests, dim)) = 1
         /\ resolveCapabilityPack(Manifests, dim).packs = <<Manifests[k]>>
<1>1. PICK ks : ks = packsDeclaringGateType(Manifests, dim)
  OBVIOUS
<1>2. DOMAIN PackOrder = 1 .. Len(PackOrder) /\ Len(PackOrder) \in Nat
  BY PacksAssumption
<1>3. ks \subseteq 1 .. Len(PackOrder)
  BY <1>1, <1>2 DEF packsDeclaringGateType, Manifests
<1>4. IsFiniteSet(ks)
  <2>1. IsFiniteSet(1 .. Len(PackOrder))
    BY <1>2, FS_Interval
  <2> QED
    BY <1>3, <2>1, FS_Subset
<1>5. Cardinality(ks) \in Nat /\ Cardinality(ks) # 0
  BY <1>1, <1>4, FS_CardinalityType, FS_EmptySet
<1>6. ~(Cardinality(ks) > 1)
  BY <1>1 DEF resolveCapabilityPack
<1>7. Cardinality(ks) = 1
  BY <1>5, <1>6
<1>8. ks = {k}
  BY <1>1, <1>4, <1>7, FS_Singleton
<1>9. (CHOOSE j \in ks : TRUE) = k
  BY <1>8
<1> QED
  BY <1>1, <1>7, <1>9 DEF resolveCapabilityPack

(* A dimension's step that does not fail, where a pack measures it, is the
   dimension's own. *)
LEMMA OwnStep ==
  ASSUME NEW ms, NEW dim, NEW result, packsDeclaringGateType(ms, dim) # {},
         wrapTraceabilityStep(ms, dim, result).status # "fail"
  PROVE  wrapTraceabilityStep(ms, dim, result) = result
<1>1. ConfigError(dim).status = "fail"
  BY DEF ConfigError
<1> QED
  BY <1>1, Polarity

(* A dimension's step that passes is measured. *)
LEMMA PassIsMeasured ==
  ASSUME NEW ms, NEW dim, NEW result, wrapTraceabilityStep(ms, dim, result).status = "pass"
  PROVE  packsDeclaringGateType(ms, dim) # {}
<1>1. ConfigError(dim).status = "fail" /\ Lacking(dim).status = "warning"
  BY DEF ConfigError, Lacking, Step
<1> QED
  BY <1>1, Polarity

(* A run satisfies QuietGreenIsEnforced. *)
LEMMA QuietRun ==
  ASSUME EvidenceInv, NEW scope \in Scopes, RunGate(scope)
  PROVE  QuietGreenIsEnforced'
<1> SUFFICES ASSUME \A i \in DOMAIN last'.steps :
                      last'.steps[i].status = "pass" /\ last'.steps[i].violations = {}
             PROVE  /\ declared \subseteq onDisk
                    /\ \E p \in declared : declaresToolchainMechanism(Packs[p])
                    /\ \A dim \in Dims : packsDeclaringGateType(Manifests, dim) # {}
                    /\ \A dim \in Dims \ {"coverage"} :
                         Cardinality(packsDeclaringGateType(Manifests, dim)) = 1
                    /\ \A l \in Looking : tool[l.b.tool] \notin {"absent", "dead"}
  <2>1. declared' = declared /\ onDisk' = onDisk
    BY DEF RunGate
  <2> QED
    BY <2>1, RunKeeps DEF QuietGreenIsEnforced
<1>1. last'.steps = Steps(Manifests, scope)
  BY DEF RunGate
<1>2. \A x : Has(Steps(Manifests, scope), x) => x.status = "pass" /\ x.violations = {}
  BY <1>1 DEF Has
<1>3. loadInstalledPacks
  <2> SUFFICES ASSUME ~loadInstalledPacks PROVE FALSE
    OBVIOUS
  <2>1. Steps(Manifests, scope) = <<ConfigError("pack_loading")>>
    BY DEF Steps
  <2>2. Has(Steps(Manifests, scope), ConfigError("pack_loading"))
    BY <2>1, HasOne
  <2> QED
    BY <1>2, <2>2 DEF ConfigError
<1>4. \E p \in declared : declaresToolchainMechanism(Packs[p])
  <2>1. Toolchain.status = "warning"
    BY DEF Toolchain, Step
  <2>2. PICK k \in DOMAIN Manifests : declaresToolchainMechanism(Manifests[k])
    BY <1>2, <1>3, <2>1, StepsOf
  <2> QED
    BY <2>2 DEF Manifests
<1>5. /\ SubStep(Manifests, scope).status = "pass"
      /\ CovStep(Manifests, scope).status = "pass"
      /\ ConStep(Manifests, scope).status = "pass"
  BY <1>2, <1>3, StepsOf
<1>6. \A dim \in Dims : packsDeclaringGateType(Manifests, dim) # {}
  BY <1>5, PassIsMeasured DEF SubStep, CovStep, ConStep, Dims
<1>7. Cardinality(packsDeclaringGateType(Manifests, "substantiveness")) = 1
  <2>1. buildTestSubstantivenessStep(Manifests, scope).status = "pass"
    BY <1>5, <1>6, OwnStep DEF SubStep, Dims
  <2>2. ~resolveCapabilityPack(Manifests, "substantiveness").err
    BY <2>1 DEF buildTestSubstantivenessStep, ConfigError
  <2> QED
    BY <1>6, <2>2, OneMeasures DEF Dims
<1>8. Cardinality(packsDeclaringGateType(Manifests, "contracts")) = 1
  <2>1. buildContractStep(Manifests, scope).status = "pass"
    BY <1>5, <1>6, OwnStep DEF ConStep, Dims
  <2>2. ~resolveCapabilityPack(Manifests, "contracts").err
    BY <2>1 DEF buildContractStep, ConfigError
  <2> QED
    BY <1>6, <2>2, OneMeasures DEF Dims
<1>9. ASSUME NEW l \in Looking PROVE tool[l.b.tool] \notin {"absent", "dead"}
  <2>1. DOMAIN Manifests # {}
    BY NamedListed DEF Looking
  <2>2. PICK step : step = packValidatorStep(World, Manifests, scope)
    OBVIOUS
  <2>3. step.status = "pass" /\ step.violations = {}
    BY <1>2, <1>3, <2>1, <2>2, StepsOf
  <2>4. provisionEngines(World, Manifests)
    BY <2>2, <2>3, ValidatorStep
  <2>5. ~Skipped(l, step)
    BY <2>3 DEF Skipped
  <2>6. StepFinds(World, l, scope, step)
    BY <2>2, <2>4, <2>5, LookingFinds
  <2> QED
    BY <2>3, <2>6 DEF StepFinds, World
<1> QED
  BY <1>3, <1>4, <1>6, <1>7, <1>8, <1>9 DEF loadInstalledPacks, Dims

(* For every project, a run in which every step passes without a finding was
   enforced. *)
THEOREM QuietGreen == SpecE => []QuietGreenIsEnforced
<1>1. Init => QuietGreenIsEnforced
  BY DEF Init, QuietGreenIsEnforced
<1>2. EvidenceInv /\ [Next]_vars /\ QuietGreenIsEnforced => QuietGreenIsEnforced'
  <2> SUFFICES ASSUME EvidenceInv, [Next]_vars, QuietGreenIsEnforced PROVE QuietGreenIsEnforced'
    OBVIOUS
  <2>1. CASE UNCHANGED vars
    BY <2>1 DEF QuietGreenIsEnforced, vars, Looking, Named, Manifests
  <2>2. CASE last' = NoRun
    BY <2>2 DEF QuietGreenIsEnforced
  <2>3. ASSUME NEW scope \in Scopes, RunGate(scope) PROVE QuietGreenIsEnforced'
    BY <2>3, QuietRun
  <2> QED
    BY <2>1, <2>2, <2>3, RunOrEdit
<1> QED
  BY <1>1, <1>2, EvidenceInvariant, PTL DEF SpecE

------------------------------------------------------------------------------
(* A full sweep and a narrower run.                                         *)

(* The world after a run: only the reports of tools that answer are new. *)
Later(W, V) ==
  /\ IsWorld(V) /\ V.files = W.files /\ V.facts = W.facts /\ V.tool = W.tool
  /\ \A t \in Tools : W.tool[t] \notin {"ok", "noise", "foreign"} => V.report[t] = W.report[t]

(* What one engine run says, another says too. *)
Repeats(r, s) ==
  /\ r.err => s.err
  /\ \A v \in r.out : v.severity = "error" => v \in s.out

(* A tool that answers is refused, and seen through, alike in every scope. *)
AnswerOf(W, b, sees, run, payload) ==
  /\ W.tool[b.tool] = "ok" => /\ Refused(b, run, payload) <=> b.convert = "missing"
                              /\ payload.sees = sees
  /\ W.tool[b.tool] = "silent" => /\ run.status = 2
                                  /\ payload = IF b.artifact THEN W.report[b.tool] ELSE Empty
  /\ W.tool[b.tool] = "noise" => Refused(b, run, payload)
  /\ W.tool[b.tool] = "foreign" => /\ run.status = 0
                                   /\ payload = [kind |-> "foreign", sees |-> {}]

(* What an engine makes of its tool's answer, by the condition of the tool. *)
LEMMA Answering ==
  ASSUME NEW W, NEW b \in Bindings, NEW sees,
         NEW run, run = Outcome(W, b.tool, sees), NEW payload, payload = Payload(W, b, run)
  PROVE  AnswerOf(W, b, sees, run, payload)
<1>0. /\ 0 \in b.success /\ 2 \notin b.success
      /\ b.tool \in GrepLike => 1 \in b.success /\ ~b.artifact
  BY BindingsAssumption
<1>1. ASSUME W.tool[b.tool] = "ok", sees = {}, b.tool \in GrepLike
      PROVE  (Refused(b, run, payload) <=> b.convert = "missing") /\ payload.sees = sees
  <2>1. run.status = 1 /\ payload = Empty
    BY <1>0, <1>1, OutcomeOf DEF Payload
  <2> QED
    BY <1>0, <1>1, <2>1 DEF Refused, emptyPayloadExitError, exitAccepted, Readable, Empty
<1>2. ASSUME W.tool[b.tool] = "ok", ~(sees = {} /\ b.tool \in GrepLike)
      PROVE  (Refused(b, run, payload) <=> b.convert = "missing") /\ payload.sees = sees
  <2>1. /\ run.out = [kind |-> "report", sees |-> sees]
        /\ sees = {} => run.status = 0
    BY <1>2, OutcomeOf
  <2>2. payload = [kind |-> "report", sees |-> sees]
    BY <2>1 DEF Payload, Left, Empty
  <2> QED
    BY <1>0, <2>1, <2>2 DEF Refused, emptyPayloadExitError, exitAccepted, Readable
<1>3. W.tool[b.tool] = "silent" => /\ run.status = 2
                                   /\ payload = IF b.artifact THEN W.report[b.tool] ELSE Empty
  BY OutcomeOf DEF Payload, Left
<1>4. ASSUME W.tool[b.tool] = "noise" PROVE Refused(b, run, payload)
  <2>1. run.out = [kind |-> "noise", sees |-> {}]
    BY <1>4, OutcomeOf
  <2>2. payload.kind = "noise"
    BY <2>1 DEF Payload, Left, Empty
  <2> QED
    BY <2>2 DEF Refused, Readable
<1>5. ASSUME W.tool[b.tool] = "foreign"
      PROVE  run.status = 0 /\ payload = [kind |-> "foreign", sees |-> {}]
  <2>1. run.out = [kind |-> "foreign", sees |-> {}]
    BY <1>5, OutcomeOf
  <2>2. run.status = 0
    BY <1>5, OutcomeOf
  <2> QED
    BY <2>1, <2>2 DEF Payload, Left, Empty
<1> QED
  BY <1>1, <1>2, <1>3, <1>4, <1>5 DEF AnswerOf

(* What a tool sees in a narrower scope it sees in a sweep. *)
LEMMA SweepSees ==
  ASSUME NEW W, IsWorld(W), NEW V, Later(W, V), NEW m, NEW b, NEW pats, NEW scope,
         scope.files \subseteq FilePaths
  PROVE  Seen(W, b.tool, pats, Targets(m, b, scope))
           \subseteq Seen(V, b.tool, pats, Targets(m, b, Scope("all", W.files)))
<1> SUFFICES ASSUME NEW d \in Seen(W, b.tool, pats, Targets(m, b, scope))
             PROVE  \E t \in Targets(m, b, Scope("all", W.files)) : Under(t, d.file)
  BY DEF Seen, Later
<1>1. d.file \in W.files \cup {NoFile} /\ W.files \subseteq FilePaths
  BY DEF Seen, IsWorld, FilePaths
<1>2. FilePaths \subseteq Seq(STRING) \ {NoFile}
  BY FilesAssumption
<1>3. d.file \in Seq(STRING)
  <2>1. NoFile \in Seq(STRING)
    BY DEF NoFile
  <2> QED
    BY <1>1, <1>2, <2>1
<1>4. CASE b.wide
  <2>1. <<>> \in Targets(m, b, Scope("all", W.files))
    BY <1>4 DEF Targets, fileModeTestTargets, Scope
  <2> QED
    BY <1>3, <2>1, UnderRoot
<1>5. CASE ~b.wide
  <2>1. PICK t \in excludeTestdataPaths(scope.files) : Under(t, d.file)
    BY <1>5 DEF Seen, Targets
  <2>2. t \in FilePaths /\ ~hasTestdataSegment(t)
    BY <2>1 DEF excludeTestdataPaths
  <2>3. d.file # NoFile
    <3> SUFFICES ASSUME d.file = <<>> PROVE FALSE
      BY DEF NoFile
    <3>1. t \in Seq(STRING) /\ t # <<>>
      BY <1>2, <2>2 DEF NoFile
    <3>2. Len(t) > 0
      BY <3>1
    <3> QED
      BY <2>1, <3>1, <3>2 DEF Under, IsPrefix
  <2>4. t = d.file /\ d.file \in W.files
    BY <1>1, <2>1, <2>2, <2>3, FilesAssumption
  <2>5. t \in Targets(m, b, Scope("all", W.files))
    BY <1>5, <2>2, <2>4 DEF Targets, Scope, excludeTestdataPaths
  <2> QED
    BY <2>1, <2>5
<1> QED
  BY <1>4, <1>5

(* An engine that fails in a narrower scope fails in a sweep, and what it finds
   there it finds in the sweep. *)
LEMMA SweepEngine ==
  ASSUME NEW W, IsWorld(W), NEW V, Later(W, V), NEW m, NEW e, NEW b \in Bindings, b.tool # NoName,
         NEW rules, NEW scope, scope.files \subseteq FilePaths
  PROVE  Repeats(runFindingsEngine(W, m, e, b, rules, scope),
                 runFindingsEngine(V, m, e, b, rules, Scope("all", W.files)))
<1>1. PICK whole : whole = Scope("all", W.files)
  OBVIOUS
<1>2. PICK r : r = runFindingsEngine(W, m, e, b, rules, scope)
  OBVIOUS
<1>3. PICK s : s = runFindingsEngine(V, m, e, b, rules, whole)
  OBVIOUS
<1> SUFFICES Repeats(r, s)
  BY <1>1, <1>2, <1>3
<1>4. ~Skips(m, b, whole)
  BY <1>1 DEF Skips, fileModeTestTargets, Scope
<1>5. b.tool \in Tools /\ V.tool[b.tool] = W.tool[b.tool] /\ W.tool[b.tool] \in Conditions
  BY ToolOfBinding DEF IsWorld, Later
<1>6. dispatchAdvisory(m, e, <<"skipped-unclaimed-scope">>).severity = "warning"
  BY DEF dispatchAdvisory
<1>7. CASE ~gatherEngineInputs(b, rules) \/ ~b.trusted
  <2>1. r = Failed({}) /\ s = Failed({})
    BY <1>2, <1>3, <1>7, EngineUnfed
  <2> QED
    BY <2>1 DEF Repeats, Failed
<1>8. CASE gatherEngineInputs(b, rules) /\ b.trusted /\ Skips(m, b, scope)
  <2>1. r = [err |-> FALSE, wrote |-> {},
             out |-> {dispatchAdvisory(m, e, <<"skipped-unclaimed-scope">>)}]
    BY <1>2, <1>8, EngineSkips
  <2> QED
    BY <1>6, <2>1 DEF Repeats
<1>9. CASE gatherEngineInputs(b, rules) /\ b.trusted /\ ~Skips(m, b, scope)
  <2>1. PICK run : run = Ran(W, m, b, rules, scope)
    OBVIOUS
  <2>2. PICK pay : pay = Payload(W, b, run)
    OBVIOUS
  <2>3. PICK run2 : run2 = Ran(V, m, b, rules, whole)
    OBVIOUS
  <2>4. PICK pay2 : pay2 = Payload(V, b, run2)
    OBVIOUS
  <2>5. run.started <=> run2.started
    BY <1>5, <2>1, <2>3, OutcomeOf DEF Ran, Conditions
  <2>6. PICK sees : sees = Seen(W, b.tool, Patterns(b, rules), Targets(m, b, scope))
    OBVIOUS
  <2>7. PICK sees2 : sees2 = Seen(V, b.tool, Patterns(b, rules), Targets(m, b, whole))
    OBVIOUS
  <2>8. sees \subseteq sees2
    BY <1>1, <2>6, <2>7, SweepSees
  <2>9. AnswerOf(W, b, sees, run, pay)
    BY <2>1, <2>2, <2>6, Answering DEF Ran
  <2>10. AnswerOf(V, b, sees2, run2, pay2)
    BY <2>3, <2>4, <2>7, Answering DEF Ran
  <2>11. CASE b.producer = "missing" \/ ~run.started
    <3>1. r = Failed({}) /\ s = Failed({})
      BY <1>2, <1>3, <1>4, <1>9, <2>1, <2>3, <2>5, <2>11, EngineStuck
    <3> QED
      BY <3>1 DEF Repeats, Failed
  <2>12. CASE b.producer # "missing" /\ run.started
    <3>0. W.tool[b.tool] \notin {"absent", "dead"}
      BY <2>1, <2>12, OutcomeOf DEF Ran
    <3>1. Refused(b, run, pay) <=> Refused(b, run2, pay2)
      <4>1. CASE W.tool[b.tool] = "ok" \/ W.tool[b.tool] = "noise"
        BY <1>5, <2>9, <2>10, <4>1 DEF AnswerOf
      <4>2. CASE W.tool[b.tool] = "silent" \/ W.tool[b.tool] = "foreign"
        <5>1. run.status = run2.status /\ pay = pay2
          BY <1>5, <2>9, <2>10, <4>2 DEF AnswerOf, Later
        <5> QED
          BY <5>1 DEF Refused
      <4> QED
        BY <1>5, <3>0, <4>1, <4>2 DEF Conditions
    <3>2. CASE Refused(b, run, pay)
      <4>1. s = Failed(Wrote(b, run2)) /\ r = Failed(Wrote(b, run))
        BY <1>2, <1>3, <1>4, <1>9, <2>1, <2>2, <2>3, <2>4, <2>5, <2>12, <3>1, <3>2, EngineRefuses
      <4> QED
        BY <4>1 DEF Repeats, Failed
    <3>3. CASE ~Refused(b, run, pay)
      <4>1. r = [err |-> FALSE, wrote |-> Wrote(b, run),
                 out |-> {Violation(m, b, e, d) : d \in pay.sees} \cup Absent(m, b, e, scope)]
        BY <1>2, <1>9, <2>1, <2>2, <2>12, <3>3, EngineAnswers
      <4>2. s = [err |-> FALSE, wrote |-> Wrote(b, run2),
                 out |-> {Violation(m, b, e, d) : d \in pay2.sees} \cup Absent(m, b, e, whole)]
        BY <1>3, <1>4, <1>9, <2>3, <2>4, <2>5, <2>12, <3>1, <3>3, EngineAnswers
      <4>3. \A v \in Absent(m, b, e, scope) : v.severity = "warning"
        BY DEF Absent, dispatchAdvisory
      <4>4. pay.sees \subseteq pay2.sees
        <5>1. CASE W.tool[b.tool] = "ok"
          BY <1>5, <2>8, <2>9, <2>10, <5>1 DEF AnswerOf
        <5>2. CASE W.tool[b.tool] = "silent" \/ W.tool[b.tool] = "foreign"
          BY <1>5, <2>9, <2>10, <5>2 DEF AnswerOf, Later
        <5>3. W.tool[b.tool] # "noise"
          BY <2>9, <3>3 DEF AnswerOf
        <5> QED
          BY <1>5, <3>0, <5>1, <5>2, <5>3 DEF Conditions
      <4>5. \A v \in r.out : v.severity = "error" => v \in s.out
        BY <4>1, <4>2, <4>3, <4>4
      <4> QED
        BY <4>1, <4>5 DEF Repeats
    <3> QED
      BY <3>2, <3>3
  <2> QED
    BY <2>11, <2>12
<1> QED
  BY <1>7, <1>8, <1>9

(* The same for the engine of any rule, the validators included. *)
LEMMA SweepResult ==
  ASSUME NEW W, IsWorld(W), NEW V, Later(W, V), NEW ms, IsPacks(ms),
         NEW k \in DOMAIN ms, NEW i \in DOMAIN ms[k].rules,
         NEW scope, scope.files \subseteq FilePaths
  PROVE  Repeats(ResultOf(W, ms, scope, k, i), ResultOf(V, ms, Scope("all", W.files), k, i))
<1>1. PICK m : m = ms[k]
  OBVIOUS
<1>2. PICK e : e = ms[k].rules[i].engine
  OBVIOUS
<1>3. PICK whole : whole = Scope("all", W.files)
  OBVIOUS
<1> SUFFICES Repeats(dispatchEngine(W, m, e, scope), dispatchEngine(V, m, e, whole))
  BY <1>1, <1>2, <1>3 DEF ResultOf
<1>4. IsPack(m)
  BY <1>1 DEF IsPacks
<1>5. CASE e \notin DOMAIN resolveEngineRegistry(m)
  <2>1. dispatchEngine(W, m, e, scope) = Failed({}) /\ dispatchEngine(V, m, e, whole) = Failed({})
    BY <1>5 DEF dispatchEngine
  <2> QED
    BY <2>1 DEF Repeats, Failed
<1>6. CASE e \in DOMAIN resolveEngineRegistry(m)
  <2>1. PICK b : b = resolveEngineRegistry(m)[e]
    OBVIOUS
  <2>2. b \in Bindings
    BY <1>4, <1>6, <2>1, RegistryBindings
  <2>3. CASE b.tool # NoName
    <3>1. /\ dispatchEngine(W, m, e, scope) = runFindingsEngine(W, m, e, b, RulesOf(m, e), scope)
          /\ dispatchEngine(V, m, e, whole) = runFindingsEngine(V, m, e, b, RulesOf(m, e), whole)
      BY <1>6, <2>1, <2>3, FindingsDispatch
    <3> QED
      BY <1>3, <2>2, <2>3, <3>1, SweepEngine
  <2>4. CASE b.tool = NoName
    <3>1. b.input = "none"
      BY <2>2, <2>4, BindingsAssumption
    <3>2. /\ dispatchEngine(W, m, e, scope) = runSandboxEngine(W, m, e, RulesOf(m, e))
          /\ dispatchEngine(V, m, e, whole) = runSandboxEngine(V, m, e, RulesOf(m, e))
      BY <1>6, <2>1, <2>4, <3>1 DEF dispatchEngine
    <3>3. runSandboxEngine(V, m, e, RulesOf(m, e)) = runSandboxEngine(W, m, e, RulesOf(m, e))
      BY DEF runSandboxEngine, Later
    <3> QED
      BY <3>2, <3>3 DEF Repeats
  <2> QED
    BY <2>3, <2>4
<1> QED
  BY <1>5, <1>6

(* The same for the whole step. *)
LEMMA SweepValidator ==
  ASSUME NEW W, IsWorld(W), NEW V, Later(W, V), NEW ms, FromPacks(ms),
         NEW scope, scope.files \subseteq FilePaths,
         NEW v \in packValidatorStep(W, ms, scope).violations, v.severity = "error"
  PROVE  v \in packValidatorStep(V, ms, Scope("all", W.files)).violations
<1>1. PICK whole : whole = Scope("all", W.files)
  OBVIOUS
<1>2. provisionEngines(W, ms)
  BY ValidatorStep
<1>3. provisionEngines(V, ms)
  BY <1>2 DEF provisionEngines, Later
<1>4. v \in dispatchPackEngines(W, Kept(ms), scope).violations
  <2>1. v \in FilterViolations(scope, dispatchPackEngines(W, Kept(ms), scope).violations)
    BY <1>2, ValidatorStep
  <2> QED
    BY <2>1 DEF FilterViolations
<1>5. packValidatorStep(V, ms, whole).violations = dispatchPackEngines(V, Kept(ms), whole).violations
  <2>1. packValidatorStep(V, ms, whole).violations =
          FilterViolations(whole, dispatchPackEngines(V, Kept(ms), whole).violations)
    BY <1>3, ValidatorStep
  <2> QED
    BY <1>1, <2>1 DEF FilterViolations, Scope
<1>6. IsPacks(Kept(ms))
  BY KeptPacks
<1>7. PICK k \in DOMAIN Kept(ms) : \E i \in DOMAIN Kept(ms)[k].rules :
                \/ v \in ResultOf(W, Kept(ms), scope, k, i).out
                \/ /\ ResultOf(W, Kept(ms), scope, k, i).err
                   /\ v = engineErrorViolation(Kept(ms)[k], Kept(ms)[k].rules[i].engine)
  BY <1>4, DispatchFrom
<1>8. PICK i \in DOMAIN Kept(ms)[k].rules :
                \/ v \in ResultOf(W, Kept(ms), scope, k, i).out
                \/ /\ ResultOf(W, Kept(ms), scope, k, i).err
                   /\ v = engineErrorViolation(Kept(ms)[k], Kept(ms)[k].rules[i].engine)
  BY <1>7
<1>9. PICK s : s = ResultOf(V, Kept(ms), whole, k, i)
  OBVIOUS
<1>10. Repeats(ResultOf(W, Kept(ms), scope, k, i), s)
  BY <1>1, <1>6, <1>9, SweepResult
<1>11. /\ s.err => engineErrorViolation(Kept(ms)[k], Kept(ms)[k].rules[i].engine)
                     \in dispatchPackEngines(V, Kept(ms), whole).violations
       /\ s.out \subseteq dispatchPackEngines(V, Kept(ms), whole).violations
  BY <1>6, <1>9, DispatchHas
<1>12. v \in dispatchPackEngines(V, Kept(ms), whole).violations
  BY <1>8, <1>10, <1>11 DEF Repeats
<1> QED
  BY <1>1, <1>5, <1>12

(* A run satisfies SweepCoversDiff. *)
LEMMA SweepRun ==
  ASSUME EvidenceInv, EvidenceInv', NEW scope \in Scopes, RunGate(scope)
  PROVE  SweepCoversDiff'
<1>1. PICK V : V = World'
  OBVIOUS
<1>2. Later(World, V)
  <2>1. IsWorld(V)
    BY <1>1 DEF EvidenceInv, IsWorld, World
  <2>2. V.files = World.files /\ V.facts = World.facts /\ V.tool = World.tool
    BY <1>1, RunKeeps DEF World
  <2>3. \A t \in Tools : World.tool[t] \notin {"ok", "noise", "foreign"} => V.report[t] = World.report[t]
    BY <1>1, RunReports DEF World
  <2> QED
    BY <2>1, <2>2, <2>3 DEF Later
<1>3. Whole' = Scope("all", World.files) /\ Manifests' = Manifests
  BY RunKeeps DEF Whole, World
<1>4. IsWorld(World) /\ FromPacks(Manifests) /\ scope.files \subseteq FilePaths
  BY WorldOfInv, ScopesOfInv
<1> SUFFICES ASSUME NEW step \in Answers("pack_engines")', NEW v \in step.violations,
                    v.severity = "error"
             PROVE  v \in packValidatorStep(V, Manifests, Scope("all", World.files)).violations
  BY <1>1, <1>3 DEF SweepCoversDiff
<1>5. step = packValidatorStep(World, Manifests, scope)
  BY AnswersOf DEF Answers
<1> QED
  BY <1>2, <1>4, <1>5, SweepValidator

(* For every project and every narrower scope, an error of pack_engines is an
   error of a full sweep. *)
THEOREM SweepCovers == SpecE => []SweepCoversDiff
<1>1. Init => SweepCoversDiff
  BY DEF Init, SweepCoversDiff, Answers, NoRun, Reached
<1>2. EvidenceInv /\ EvidenceInv' /\ [Next]_vars /\ SweepCoversDiff => SweepCoversDiff'
  <2> SUFFICES ASSUME EvidenceInv, EvidenceInv', [Next]_vars, SweepCoversDiff
               PROVE  SweepCoversDiff'
    OBVIOUS
  <2>1. CASE UNCHANGED vars
    BY <2>1 DEF SweepCoversDiff, vars, Answers, World, Manifests, Whole
  <2>2. CASE last' = NoRun
    BY <2>2 DEF SweepCoversDiff, Answers, NoRun, Reached
  <2>3. ASSUME NEW scope \in Scopes, RunGate(scope) PROVE SweepCoversDiff'
    BY <2>3, SweepRun
  <2> QED
    BY <2>1, <2>2, <2>3, RunOrEdit
<1> QED
  BY <1>1, <1>2, EvidenceInvariant, PTL DEF SpecE

------------------------------------------------------------------------------
(* Coverage.                                                                *)

(* The strictest of some percentages is a percentage and none exceeds it. *)
LEMMA StrictestBounds ==
  ASSUME NEW S, S \subseteq 0 .. 100
  PROVE  Strictest(S) \in 0 .. 100 /\ \A n \in S : n <= Strictest(S)
<1>1. CASE S = {}
  BY <1>1 DEF Strictest
<1>2. CASE S # {}
  <2> DEFINE T == {100 - n : n \in S}
  <2>1. T \subseteq Nat
    <3> SUFFICES ASSUME NEW n \in S PROVE 100 - n \in Nat
      OBVIOUS
    <3>1. n \in 0 .. 100
      OBVIOUS
    <3> QED
      BY <3>1
  <2>0. PICK n0 : n0 \in S
    BY <1>2
  <2>a. 100 - n0 \in T
    BY <2>0
  <2>2. PICK j \in T : \A k \in T : j <= k
    BY <2>1, <2>a, LeastOf
  <2>3. PICK n \in S : j = 100 - n
    BY <2>2
  <2>4. \A k \in S : k <= n
    <3> SUFFICES ASSUME NEW k \in S PROVE k <= n
      OBVIOUS
    <3>1. j <= 100 - k
      BY <2>2
    <3>2. n \in Int /\ k \in Int
      OBVIOUS
    <3> QED
      BY <2>3, <3>1, <3>2
  <2>5. \E x \in S : \A k \in S : k <= x
    BY <2>4
  <2>6. Strictest(S) \in S /\ \A k \in S : k <= Strictest(S)
    BY <1>2, <2>5 DEF Strictest
  <2> QED
    BY <2>6
<1> QED
  BY <1>1, <1>2

(* A coverage engine whose tool is not silent records what is true. *)
LEMMA RecordsAreTrue ==
  ASSUME NEW W, IsWorld(W), NEW m, NEW b \in Bindings, b.tool # NoName,
         W.tool[b.tool] # "silent", NEW rules, ~runCoverageEngine(W, m, b, rules).err
  PROVE  runCoverageEngine(W, m, b, rules).out = Measure(W, m, b)
<1>1. PICK sees : sees = Measure(W, m, b)
  OBVIOUS
<1>2. PICK run : run = Outcome(W, b.tool, sees)
  OBVIOUS
<1>3. PICK payload : payload = Payload(W, b, run)
  OBVIOUS
<1>4. W.tool[b.tool] \in Conditions /\ (b.tool \in GrepLike => ~b.artifact)
  BY ToolOfBinding, BindingsAssumption DEF IsWorld
<1>5. /\ run.started /\ payload.kind \notin {"noise", "foreign"}
      /\ runCoverageEngine(W, m, b, rules).out = payload.sees
  BY <1>1, <1>2, <1>3 DEF runCoverageEngine, Failed, Payload
<1>6. W.tool[b.tool] \notin {"absent", "dead"}
  BY <1>2, <1>5, OutcomeOf
<1>7. W.tool[b.tool] # "noise"
  <2> SUFFICES ASSUME W.tool[b.tool] = "noise" PROVE FALSE
    OBVIOUS
  <2>1. run.out = [kind |-> "noise", sees |-> {}]
    BY <1>2, OutcomeOf
  <2> QED
    BY <1>3, <1>5, <2>1 DEF Payload, Left, Empty
<1>8. W.tool[b.tool] # "foreign"
  <2> SUFFICES ASSUME W.tool[b.tool] = "foreign" PROVE FALSE
    OBVIOUS
  <2>1. run.out = [kind |-> "foreign", sees |-> {}]
    BY <1>2, OutcomeOf
  <2> QED
    BY <1>3, <1>5, <2>1 DEF Payload, Left, Empty
<1>9. W.tool[b.tool] = "ok"
  BY <1>4, <1>6, <1>7, <1>8 DEF Conditions
<1>10. payload.sees = sees
  <2>1. CASE sees = {} /\ b.tool \in GrepLike
    <3>1. run.out = Empty
      BY <1>2, <1>9, <2>1, OutcomeOf
    <3> QED
      BY <1>3, <1>4, <2>1, <3>1 DEF Payload, Empty
  <2>2. CASE ~(sees = {} /\ b.tool \in GrepLike)
    <3>1. run.out = [kind |-> "report", sees |-> sees]
      BY <1>2, <1>9, <2>2, OutcomeOf
    <3> QED
      BY <1>3, <3>1 DEF Payload, Left, Empty
  <2> QED
    BY <2>1, <2>2
<1> QED
  BY <1>1, <1>5, <1>10

(* The records of a path are its own or those of a longer path. *)
RecordsFor(records, p) == resolveCoverageRecordsForPath(indexCoverageByPathMetric(records), p)

(* No record of another path is used. *)
LEMMA RecordsOfPath ==
  ASSUME NEW records, NEW p, NEW r \in RecordsFor(records, p)
  PROVE  r \in records /\ (r.path = p \/ IsSuffix(p, r.path))
<1>1. PICK index : index = indexCoverageByPathMetric(records)
  OBVIOUS
<1>2. index \subseteq records
  BY <1>1 DEF indexCoverageByPathMetric
<1>3. r \in index /\ (r.path = p \/ IsSuffix(p, r.path))
  BY <1>1 DEF RecordsFor, resolveCoverageRecordsForPath
<1> QED
  BY <1>2, <1>3

(* A coverage step that does not fail has records of every changed source file,
   and none of them is below its threshold. *)
LEMMA ThresholdsMet ==
  ASSUME NEW ms, NEW records, NEW scope, scope.mode # "all",
         NEW f \in coveragePathsInScope(ms, records, scope), AllSource(ms) # {},
         StepCoverageThreshold(ms, records, scope).status # "fail"
  PROVE  /\ RecordsFor(records, f) # {}
         /\ \A r \in RecordsFor(records, f) :
              LET sel == coverageThresholdsForScope(ExtractSpecVerifications, scope)
                  t   == coverageThresholdForMetric(sel, r.metric)
              IN r.excluded \/ ~(t > 0 /\ coverageBelowThreshold(r.covered, t))
<1> DEFINE sel     == coverageThresholdsForScope(ExtractSpecVerifications, scope)
           index   == indexCoverageByPathMetric(records)
           paths   == coveragePathsInScope(ms, records, scope)
           scoped  == scope.mode # "all"
           of(p)   == resolveCoverageRecordsForPath(index, p)
           V(p, role) == Finding("coverage", p, role, "error")
           missing == {V(p, <<"coverage_unmeasured">>) : p \in {q \in paths : of(q) = {}}}
           metric  == UNION {{V(p, <<"coverage_metric_missing", m>>) :
                           m \in declaredCoverageMetrics(sel) \ {r.metric : r \in of(p)}}
                        : p \in {q \in paths : scoped /\ of(q) # {}}}
           quiet   == UNION {{Finding("coverage", p, <<"coverage_exclusion", r.metric>>, "warning") :
                           r \in {s \in of(p) : scoped /\ s.excluded}} : p \in paths}
           low(s)  == LET t == coverageThresholdForMetric(sel, s.metric)
                      IN ~s.excluded /\ t > 0 /\ coverageBelowThreshold(s.covered, t)
           below   == UNION {{V(p, <<"coverage_threshold", r.metric>>) : r \in {s \in of(p) : low(s)}}
                        : p \in paths}
           doubled == {V(r.path, <<"coverage_metric_collision", r.metric>>) : r \in Collisions(records)}
           vs == missing \cup metric \cup quiet \cup below \cup doubled
<1>1. StepCoverageThreshold(ms, records, scope) =
        Step("coverage", IF \E v \in vs : blocksVerdict(v) THEN "fail" ELSE "pass", vs, {})
  BY DEF StepCoverageThreshold
<1>2. \A p : RecordsFor(records, p) = of(p)
  BY DEF RecordsFor
<1>3. f \in paths
  OBVIOUS
<1> HIDE DEF sel, index, paths, missing, metric, quiet, below, doubled, of, low, vs
<1>4. ~\E v \in vs : blocksVerdict(v)
  BY <1>1 DEF Step
<1>5. \A p, role : blocksVerdict(V(p, role))
  BY DEF Finding, blocksVerdict
<1>6. of(f) # {}
  <2>1. of(f) = {} => V(f, <<"coverage_unmeasured">>) \in vs
    BY <1>3 DEF vs, missing
  <2> QED
    BY <1>4, <1>5, <2>1
<1>7. ASSUME NEW r \in of(f) PROVE ~low(r)
  <2>1. low(r) => V(f, <<"coverage_threshold", r.metric>>) \in vs
    BY <1>3, <1>7 DEF vs, below
  <2> QED
    BY <1>4, <1>5, <2>1
<1> QED
  BY <1>2, <1>6, <1>7 DEF low, sel

(* The records of a file that no other file shadows are measurements of it, by
   a pack that is declared. *)
LEMMA RecordIsOfFile ==
  ASSUME EvidenceInv, NEW f \in files, ~Shadowed(f),
         \A b \in Bindings : b.gate = "coverage" => tool[b.tool] # "silent",
         NEW D, D = dispatchPackCoverage(World, Manifests), ~D.err,
         NEW r \in RecordsFor(D.records, f)
  PROVE  /\ r.covered = covered[f] /\ covered[f] >= 0
         /\ (\A p \in declared : f \notin Packs[p].excluded) => ~r.excluded
<1>1. r \in D.records /\ (r.path = f \/ IsSuffix(f, r.path))
  BY RecordsOfPath
<1>2. PICK x \in Dispatches(Manifests) :
              /\ Engine(Manifests, x) \in DOMAIN resolveEngineRegistry(Manifests[x[1]])
              /\ resolveEngineRegistry(Manifests[x[1]])[Engine(Manifests, x)].gate = "coverage"
              /\ ~CoverageOf(World, Manifests, x).err
              /\ r \in CoverageOf(World, Manifests, x).out
  BY <1>1, CoverageFrom
<1>3. PICK m : m = Manifests[x[1]]
  OBVIOUS
<1>4. PICK b : b = resolveEngineRegistry(m)[Engine(Manifests, x)]
  OBVIOUS
<1>5. x[1] \in DOMAIN Manifests
  BY DEF Dispatches
<1>6. IsWorld(World) /\ IsPack(m)
  BY <1>3, <1>5, WorldOfInv, KeptPacks DEF IsPacks
<1>7. b \in Bindings /\ b.gate = "coverage"
  BY <1>2, <1>3, <1>4, <1>6, RegistryBindings
<1>8. b.tool # NoName /\ World.tool[b.tool] # "silent"
  BY <1>7, BindingsAssumption DEF World
<1>9. r \in Measure(World, m, b)
  <2>1. PICK rules : rules = RulesOf(m, Engine(Manifests, x))
    OBVIOUS
  <2>2. CoverageOf(World, Manifests, x) = runCoverageEngine(World, m, b, rules)
    BY <1>3, <1>4, <2>1 DEF CoverageOf
  <2> QED
    BY <1>2, <1>6, <1>7, <1>8, <2>2, RecordsAreTrue
<1>a. PICK g \in World.files \cap m.source, metric \in b.metrics :
          /\ World.covered[g] >= 0
          /\ r = [pack |-> m.name, path |-> b.prefix \o g, metric |-> metric,
                  covered |-> World.covered[g], excluded |-> g \in m.excluded]
  BY <1>9 DEF Measure
<1>b. World.files = files /\ World.covered = covered
  BY DEF World
<1>10. /\ g \in files /\ covered[g] >= 0
       /\ r.path = b.prefix \o g /\ r.covered = covered[g] /\ (r.excluded <=> g \in m.excluded)
  BY <1>a, <1>b
<1>11. g \in SourceFiles
  BY <1>10 DEF EvidenceInv
<1>12. g = f
  BY <1>1, <1>7, <1>10, <1>11 DEF Shadowed
<1>13. \E p \in declared : m = Packs[p]
  BY <1>3, <1>5 DEF Manifests
<1> QED
  BY <1>10, <1>12, <1>13

(* What a diff without a spec of its own must meet: no less than any spec of a
   package above the file, and the floor if there is no spec. *)
Demands(f, t) ==
  /\ t \in 0 .. 100
  /\ \A s \in ExtractSpecVerifications :
       s.pkg # <<>> /\ Under(s.pkg, Dir(f)) => s.threshold \in 0 .. t
  /\ ExtractSpecVerifications = {} => t = Floor

(* The threshold of a metric in such a diff. *)
LEMMA ThresholdOf ==
  ASSUME EvidenceInv, NEW scope, scope.mode # "all", scope.files \subseteq FilePaths,
         \A s \in ExtractSpecVerifications : s.file \notin scope.files,
         NEW f \in scope.files, NEW metric
  PROVE  Demands(f, coverageThresholdForMetric(
                      coverageThresholdsForScope(ExtractSpecVerifications, scope), metric))
<1>0. PICK t : t = coverageThresholdForMetric(
                     coverageThresholdsForScope(ExtractSpecVerifications, scope), metric)
  OBVIOUS
<1>1. PICK specs : specs = ExtractSpecVerifications
  OBVIOUS
<1> DEFINE specific == {s \in specs : /\ s.pkg # <<>>
                                      /\ \E g \in scope.files : packagePathMatches(Dir(g), s.pkg)}
           general  == IF scope.files = {} THEN {} ELSE {s \in specs : s.pkg = <<>>}
           chosen   == IF specific # {} THEN specific ELSE general
           most     == Strictest({s.threshold : s \in chosen})
<1>2. {s \in specs : s.file \in scope.files} = {}
  BY <1>1
<1>3. t = IF most = 0 THEN Floor ELSE most
  BY <1>0, <1>1, <1>2 DEF coverageThresholdForMetric, coverageThresholdsForScope
<1>4. \A s \in specs : s.threshold \in 0 .. 100 /\ s.pkg \in Seq(STRING)
  BY <1>1, SpecsAssumption DEF ExtractSpecVerifications, EvidenceInv
<1>5. chosen \subseteq specs
  OBVIOUS
<1>6. most \in 0 .. 100 /\ \A s \in chosen : s.threshold <= most
  <2>1. {s.threshold : s \in chosen} \subseteq 0 .. 100
    BY <1>4, <1>5
  <2> HIDE DEF chosen
  <2> QED
    BY <2>1, StrictestBounds
<1>7. ASSUME NEW s \in specs, s.pkg # <<>>, Under(s.pkg, Dir(f)) PROVE s \in chosen
  <2>1. s.pkg \in Seq(STRING) /\ f \in Seq(STRING) /\ f # <<>>
    BY <1>4, FilesAssumption DEF NoFile
  <2>2. Dir(f) # <<>>
    <3> SUFFICES ASSUME Dir(f) = <<>> PROVE FALSE
      OBVIOUS
    <3>1. Len(s.pkg) <= 0
      BY <1>7 DEF Under, IsPrefix
    <3> QED
      BY <1>7, <2>1, <3>1
  <2>3. packagePathMatches(Dir(f), s.pkg)
    BY <1>7, <2>2 DEF packagePathMatches, Under
  <2> QED
    BY <1>7, <2>3
<1>8. specs = {} => most = 0
  BY <1>5 DEF Strictest
<1> HIDE DEF chosen, most
<1>9. t \in 0 .. 100
  BY <1>3, <1>6, SpecsAssumption
<1>10. ASSUME NEW s \in specs, s.pkg # <<>>, Under(s.pkg, Dir(f)) PROVE s.threshold \in 0 .. t
  <2>1. s.threshold <= most /\ s.threshold \in 0 .. 100
    BY <1>4, <1>6, <1>7, <1>10
  <2> QED
    BY <1>3, <1>6, <1>9, <2>1
<1> QED
  BY <1>0, <1>1, <1>3, <1>8, <1>9, <1>10 DEF Demands

(* A run satisfies CoverageHolds. *)
LEMMA CoverageRun ==
  ASSUME EvidenceInv, NEW scope \in Scopes, RunGate(scope)
  PROVE  CoverageHolds'
<1>0. /\ ExtractSpecVerifications' = ExtractSpecVerifications
      /\ declared' = declared
  BY DEF RunGate, ExtractSpecVerifications
<1> SUFFICES ASSUME NEW step \in Answers("coverage")', step.status # "fail",
                    packsDeclaringGateType(Manifests, "coverage") # {},
                    scope.mode # "all",
                    \A b \in Bindings : b.gate = "coverage" => tool[b.tool] # "silent",
                    \A s \in ExtractSpecVerifications : s.file \notin scope.files,
                    NEW f \in scope.files \cap files,
                    IsMeasurableSource(Manifests, f), ~Shadowed(f),
                    \A p \in declared : f \notin Packs[p].excluded
             PROVE  /\ covered[f] >= 0
                    /\ \A s \in ExtractSpecVerifications :
                         s.pkg # <<>> /\ Under(s.pkg, Dir(f)) => covered[f] * 100 >= Total * s.threshold
                    /\ ExtractSpecVerifications = {} => covered[f] * 100 >= Total * Floor
  BY <1>0, RunKeeps DEF CoverageHolds, Holds
<1>1. step = buildCoverageStep(Manifests, scope)
  <2>1. step = CovStep(Manifests, scope)
    BY AnswersOf DEF Answers
  <2> QED
    BY <2>1, OwnStep DEF CovStep
<1>2. PICK D : D = dispatchPackCoverage(World, Manifests)
  OBVIOUS
<1>3. ~D.err /\ StepCoverageThreshold(Manifests, D.records, scope).status # "fail"
  BY <1>1, <1>2, CovShape
<1>4. f \in coveragePathsInScope(Manifests, D.records, scope) /\ AllSource(Manifests) # {}
  BY DEF coveragePathsInScope, IsMeasurableSource
<1>5. PICK r \in RecordsFor(D.records, f) :
        LET sel == coverageThresholdsForScope(ExtractSpecVerifications, scope)
            t   == coverageThresholdForMetric(sel, r.metric)
        IN r.excluded \/ ~(t > 0 /\ coverageBelowThreshold(r.covered, t))
  BY <1>3, <1>4, ThresholdsMet
<1>6. PICK t : t = coverageThresholdForMetric(
                     coverageThresholdsForScope(ExtractSpecVerifications, scope), r.metric)
  OBVIOUS
<1>7. r.covered = covered[f] /\ covered[f] >= 0 /\ ~r.excluded
  BY <1>2, <1>3, RecordIsOfFile
<1>8. ~(t > 0 /\ coverageBelowThreshold(covered[f], t))
  BY <1>5, <1>6, <1>7
<1>9. scope.files \subseteq FilePaths
  BY ScopesOfInv
<1>10. /\ t \in 0 .. 100
       /\ \A s \in ExtractSpecVerifications :
            s.pkg # <<>> /\ Under(s.pkg, Dir(f)) => s.threshold \in 0 .. t
       /\ ExtractSpecVerifications = {} => t = Floor
  <2>1. Demands(f, t)
    BY <1>6, <1>9, ThresholdOf
  <2> QED
    BY <2>1 DEF Demands
<1>11. covered[f] \in Int
  BY DEF EvidenceInv
<1>12. covered[f] * 100 >= 2 * t
  BY <1>7, <1>8, <1>10, <1>11 DEF coverageBelowThreshold, Total
<1>13. ASSUME NEW s \in ExtractSpecVerifications, s.pkg # <<>>, Under(s.pkg, Dir(f))
       PROVE  covered[f] * 100 >= Total * s.threshold
  <2>1. s.threshold \in 0 .. t
    BY <1>10, <1>13
  <2> QED
    BY <1>10, <1>11, <1>12, <2>1 DEF Total
<1>14. ExtractSpecVerifications = {} => covered[f] * 100 >= Total * Floor
  BY <1>10, <1>12 DEF Total
<1> QED
  BY <1>7, <1>13, <1>14

(* For every set of packs, specs and files, a coverage step that does not fail
   tells the truth about the changed source files. *)
THEOREM CoverageIsTrue == SpecE => []CoverageHolds
<1>1. Init => CoverageHolds
  BY DEF Init, CoverageHolds, Holds, Answers, NoRun, Reached
<1>2. EvidenceInv /\ [Next]_vars /\ CoverageHolds => CoverageHolds'
  <2> SUFFICES ASSUME EvidenceInv, [Next]_vars, CoverageHolds PROVE CoverageHolds'
    OBVIOUS
  <2>1. CASE UNCHANGED vars
    <3>1. /\ last' = last /\ files' = files /\ covered' = covered /\ tool' = tool
          /\ declared' = declared /\ due' = due
      BY <2>1 DEF vars
    <3>2. Manifests' = Manifests /\ ExtractSpecVerifications' = ExtractSpecVerifications
      BY <3>1 DEF Manifests, ExtractSpecVerifications
    <3>3. Holds("coverage")' = Holds("coverage")
      BY <3>1, <3>2 DEF Holds, Answers
    <3> QED
      BY <3>1, <3>2, <3>3 DEF CoverageHolds
  <2>2. CASE last' = NoRun
    BY <2>2 DEF CoverageHolds, Holds, Answers, NoRun, Reached
  <2>3. ASSUME NEW scope \in Scopes, RunGate(scope) PROVE CoverageHolds'
    BY <2>3, CoverageRun
  <2> QED
    BY <2>1, <2>2, <2>3, RunOrEdit
<1> QED
  BY <1>1, <1>2, EvidenceInvariant, PTL DEF SpecE

------------------------------------------------------------------------------
(* Contracts.                                                               *)

(* The one rule that an entry of a contract is dispatched with. *)
RuleFor(e, name) == [engine |-> e, path |-> "none", pattern |-> name]
Single(m, e, name) == [m EXCEPT !.rules = <<RuleFor(e, name)>>, !.source = {}, !.test = {}]

(* A pack with one rule keeps its engines. *)
LEMMA SinglePack ==
  ASSUME NEW p \in DOMAIN Packs, NEW e, NEW name
  PROVE  /\ Single(Packs[p], e, name).rules = <<RuleFor(e, name)>>
         /\ IsPack(Single(Packs[p], e, name))
         /\ resolveEngineRegistry(Single(Packs[p], e, name)) = resolveEngineRegistry(Packs[p])
<1>1. PICK m : m = Packs[p]
  OBVIOUS
<1>2. PICK x : x = Single(m, e, name)
  OBVIOUS
<1>3. DOMAIN m = {"name", "engines", "rules", "source", "test", "excluded", "compiler"}
  BY <1>1, PacksAssumption
<1>4. x.rules = <<RuleFor(e, name)>> /\ x.engines = m.engines
  BY <1>2, <1>3 DEF Single
<1>5. DOMAIN x.rules \subseteq Nat
  BY <1>4
<1>6. \A g \in DOMAIN m.engines : m.engines[g] \in Bindings
  BY <1>1 DEF Bindings
<1>7. IsPack(x)
  BY <1>4, <1>5, <1>6 DEF IsPack
<1>8. resolveEngineRegistry(x) = resolveEngineRegistry(m)
  BY <1>4 DEF resolveEngineRegistry
<1> QED
  BY <1>1, <1>2, <1>4, <1>7, <1>8

Hits(m, b, e, seen) == {Violation(m, b, e, d) : d \in seen}

(* A pattern search that does not fail says where the pattern is. *)
LEMMA SearchTells ==
  ASSUME NEW W, IsWorld(W), NEW m, NEW e, NEW b \in Bindings, PatternSearch(b),
         NEW rules, NEW scope, ~runFindingsEngine(W, m, e, b, rules, scope).err
  PROVE  runFindingsEngine(W, m, e, b, rules, scope).out =
           Hits(m, b, e, Seen(W, b.tool, Patterns(b, rules), excludeTestdataPaths(scope.files)))
<1>1. PICK r : r = runFindingsEngine(W, m, e, b, rules, scope)
  OBVIOUS
<1>2. PICK sees : sees = Seen(W, b.tool, Patterns(b, rules), Targets(m, b, scope))
  OBVIOUS
<1>3. PICK run : run = Ran(W, m, b, rules, scope)
  OBVIOUS
<1>4. PICK pay : pay = Payload(W, b, run)
  OBVIOUS
<1>5. /\ b.tool # NoName /\ ~b.wide /\ ~b.artifact
      /\ b.convert = "none" => b.strict
  BY DEF PatternSearch
<1>6. W.tool[b.tool] \in Conditions /\ 2 \notin b.success
  BY <1>5, ToolOfBinding, BindingsAssumption DEF IsWorld
<1>7. AnswerOf(W, b, sees, run, pay)
  BY <1>2, <1>3, <1>4, Answering DEF Ran
<1>8. ~Skips(m, b, scope) /\ Absent(m, b, e, scope) = {} /\ Targets(m, b, scope) = excludeTestdataPaths(scope.files)
  BY <1>5 DEF Skips, Absent, Targets
<1>9. \A w : Failed(w).err
  BY DEF Failed
<1>10. gatherEngineInputs(b, rules) /\ b.trusted
  BY <1>9, EngineUnfed
<1>11. b.producer # "missing" /\ run.started
  BY <1>3, <1>8, <1>9, <1>10, EngineStuck
<1>12. ~Refused(b, run, pay)
  BY <1>3, <1>4, <1>8, <1>9, <1>10, <1>11, EngineRefuses
<1>13. r.out = Hits(m, b, e, pay.sees)
  BY <1>1, <1>3, <1>4, <1>8, <1>10, <1>11, <1>12, EngineAnswers DEF Hits
<1>14. W.tool[b.tool] \notin {"absent", "dead"}
  BY <1>3, <1>11, OutcomeOf DEF Ran
<1>15. W.tool[b.tool] # "silent"
  BY <1>5, <1>6, <1>7, <1>12 DEF AnswerOf, Refused, emptyPayloadExitError, exitAccepted, Empty
<1>16. W.tool[b.tool] # "noise"
  BY <1>7, <1>12 DEF AnswerOf
<1>17. W.tool[b.tool] # "foreign"
  BY <1>5, <1>7, <1>12 DEF AnswerOf, Refused, Readable
<1>18. pay.sees = sees
  BY <1>6, <1>7, <1>14, <1>15, <1>16, <1>17 DEF AnswerOf, Conditions
<1> QED
  BY <1>1, <1>2, <1>8, <1>13, <1>18

(* What the dispatch of an entry finds. *)
Located(W, b, name, target) == Seen(W, b.tool, {name}, excludeTestdataPaths({target}))

(* The dispatch of an entry that does not fail finds just that. *)
LEMMA EntryDispatch ==
  ASSUME NEW W, IsWorld(W), NEW p \in DOMAIN Packs, NEW e, NEW name, NEW target,
         PatternSearch(resolveEngineRegistry(Packs[p])[e]),
         ~dispatchPackEngines(W, <<Single(Packs[p], e, name)>>, Scope("file", {target})).err
  PROVE  dispatchPackEngines(W, <<Single(Packs[p], e, name)>>, Scope("file", {target})).violations =
           Hits(Single(Packs[p], e, name), resolveEngineRegistry(Packs[p])[e], e,
                Located(W, resolveEngineRegistry(Packs[p])[e], name, target))
<1>1. PICK x : x = Single(Packs[p], e, name)
  OBVIOUS
<1>2. PICK scope : scope = Scope("file", {target})
  OBVIOUS
<1>3. PICK ms : ms = <<x>>
  OBVIOUS
<1>4. PICK D : D = dispatchPackEngines(W, ms, scope)
  OBVIOUS
<1>5. PICK b : b = resolveEngineRegistry(Packs[p])[e]
  OBVIOUS
<1>6. x.rules = <<RuleFor(e, name)>> /\ IsPack(x) /\ resolveEngineRegistry(x) = resolveEngineRegistry(Packs[p])
  BY <1>1, SinglePack
<1>7. DOMAIN ms = {1} /\ ms[1] = x /\ IsPacks(ms)
  BY <1>3, <1>6 DEF IsPacks
<1>8. DOMAIN x.rules = {1} /\ x.rules[1].engine = e /\ x.rules[1].pattern = name
  BY <1>6 DEF RuleFor
<1>9. PICK r : r = ResultOf(W, ms, scope, 1, 1)
  OBVIOUS
<1>10. r = dispatchEngine(W, x, e, scope)
  BY <1>7, <1>8, <1>9 DEF ResultOf
<1>11. ~r.err /\ r.out \subseteq D.violations
  <2>1. ~D.err
    BY <1>1, <1>2, <1>3, <1>4
  <2>2. 1 \in DOMAIN ms /\ 1 \in DOMAIN ms[1].rules
    BY <1>7, <1>8
  <2> QED
    BY <1>4, <1>7, <1>9, <2>1, <2>2, DispatchHas
<1>12. D.violations \subseteq r.out
  <2> SUFFICES ASSUME NEW v \in D.violations PROVE v \in r.out
    OBVIOUS
  <2>1. PICK k \in DOMAIN ms : \E i \in DOMAIN ms[k].rules :
                v \in ResultOf(W, ms, scope, k, i).out \/ ResultOf(W, ms, scope, k, i).err
    BY <1>4, DispatchFrom
  <2> QED
    BY <1>7, <1>8, <1>9, <1>11, <2>1
<1>13. e \in DOMAIN resolveEngineRegistry(x)
  BY <1>10, <1>11 DEF dispatchEngine, Failed
<1>14. b \in Bindings /\ b.tool # NoName /\ PatternSearch(b) /\ b.input = "pattern-arg"
  BY <1>5, <1>6, <1>13, RegistryBindings DEF PatternSearch
<1>15. r = runFindingsEngine(W, x, e, b, RulesOf(x, e), scope)
  BY <1>5, <1>6, <1>10, <1>13, <1>14, FindingsDispatch
<1>16. Patterns(b, RulesOf(x, e)) = {name}
  <2>1. PICK rules : rules = RulesOf(x, e)
    OBVIOUS
  <2>2. DOMAIN rules = {1} /\ rules[1] = x.rules[1]
    BY <1>8, <2>1 DEF RulesOf
  <2>3. {rules[i].pattern : i \in DOMAIN rules} = {name}
    BY <1>8, <2>2
  <2> QED
    BY <1>14, <2>1, <2>3 DEF Patterns
<1>17. r.out = Hits(x, b, e, Seen(W, b.tool, {name}, excludeTestdataPaths(scope.files)))
  <2>1. ~runFindingsEngine(W, x, e, b, RulesOf(x, e), scope).err
    BY <1>11, <1>15
  <2> QED
    BY <1>14, <1>15, <1>16, <2>1, SearchTells
<1>18. scope.files = {target}
  BY <1>2 DEF Scope
<1> QED
  BY <1>1, <1>2, <1>3, <1>4, <1>5, <1>11, <1>12, <1>17, <1>18 DEF Located

EngineFor(m, c) == IF c.absent THEN "grep" ELSE contractSignatureEngine(m)
TargetFor(c) == IF c.absent /\ c.scope # NoFile THEN c.scope ELSE c.file
EntryRun(m, c) ==
  dispatchPackEngines(World, <<Single(m, EngineFor(m, c), c.name)>>, Scope("file", {TargetFor(c)}))

(* The result of an entry: it was scanned if its target is there, and then it
   failed or says where the name is. *)
Scan(m, c, r) ==
  /\ r.entry = c
  /\ r.scanned <=> \E f \in files : Under(TargetFor(c), f)
  /\ ~r.scanned => r.at = {}
  /\ r.scanned /\ ~r.err => ~EntryRun(m, c).err /\ r.at = {v.file : v \in EntryRun(m, c).violations}

(* So is the result of every entry. *)
LEMMA EntryScan ==
  ASSUME NEW m, NEW c
  PROVE  Scan(m, c, dispatchContractEntry(m, c))
<1>1. PICK r : r = dispatchContractEntry(m, c)
  OBVIOUS
<1>2. PICK D : D = EntryRun(m, c)
  OBVIOUS
<1>3. PICK seen : seen <=> \E f \in files : Under(TargetFor(c), f)
  OBVIOUS
<1>4. r = IF ~seen THEN [entry |-> c, err |-> FALSE, scanned |-> FALSE, at |-> {}]
          ELSE [entry |-> c, err |-> D.err \/ (~c.absent /\ ~m.compiler), scanned |-> TRUE,
                at |-> {v.file : v \in D.violations}]
  BY <1>1, <1>2, <1>3 DEF dispatchContractEntry, EntryRun, EngineFor, TargetFor, Single, RuleFor
<1>5. CASE ~seen
  <2>1. r.entry = c /\ r.scanned = FALSE /\ r.at = {}
    BY <1>4, <1>5
  <2> QED
    BY <1>1, <1>3, <1>5, <2>1 DEF Scan
<1>6. CASE seen
  <2>1. /\ r.entry = c /\ r.scanned = TRUE /\ (~r.err => ~D.err)
        /\ r.at = {v.file : v \in D.violations}
    BY <1>4, <1>6
  <2> QED
    BY <1>1, <1>2, <1>3, <1>6, <2>1 DEF Scan
<1> QED
  BY <1>5, <1>6

(* A contract step that does not fail has no objection to an entry in scope. *)
LEMMA ContractStepTells ==
  ASSUME EvidenceInv, NEW scope, NEW k \in packsDeclaringGateType(Manifests, "contracts"),
         buildContractStep(Manifests, scope).status # "fail",
         NEW c \in ExtractContractEntries, InScope(scope, c.file)
  PROVE  /\ ~dispatchContractEntry(Manifests[k], c).err
         /\ VerifyContractVerdict(dispatchContractEntry(Manifests[k], c)) = {}
<1>1. PICK cap : cap = resolveCapabilityPack(Manifests, "contracts")
  OBVIOUS
<1>2. ~cap.err
  BY <1>1 DEF buildContractStep, ConfigError
<1>3. cap.packs = <<Manifests[k]>>
  BY <1>1, <1>2, OneMeasures
<1>4. cap.packs # <<>> /\ cap.packs[1] = Manifests[k]
  BY <1>3
<1> DEFINE results == {dispatchContractEntry(Manifests[k], x) : x \in ExtractContractEntries}
<1>5. buildContractStep(Manifests, scope) =
        IF \E r \in results : r.err THEN ConfigError("contracts")
        ELSE StepContractSignature(results, scope)
  BY <1>1, <1>2, <1>4 DEF buildContractStep
<1>6. ConfigError("contracts").status = "fail"
  BY DEF ConfigError
<1>7. ~(\E r \in results : r.err) /\ StepContractSignature(results, scope).status # "fail"
  BY <1>5, <1>6
<1>8. PICK R : R = dispatchContractEntry(Manifests[k], c)
  OBVIOUS
<1>9. R \in results /\ R.entry = c
  BY <1>8, EntryScan DEF Scan
<1> HIDE DEF results
<1>10. PICK vs : vs = UNION {VerifyContractVerdict(r) : r \in {x \in results : InScope(scope, x.entry.file)}}
  OBVIOUS
<1>11. ~\E v \in vs : blocksVerdict(v)
  BY <1>7, <1>10 DEF StepContractSignature, Step, StepVerdict
<1>12. VerifyContractVerdict(R) \subseteq vs
  BY <1>9, <1>10
<1>13. \A v \in VerifyContractVerdict(R) : blocksVerdict(v)
  BY DEF VerifyContractVerdict, Finding, blocksVerdict
<1> QED
  BY <1>7, <1>8, <1>9, <1>11, <1>12, <1>13

(* A run satisfies ContractsAreTrue. *)
LEMMA ContractRun ==
  ASSUME EvidenceInv, NEW scope \in Scopes, RunGate(scope)
  PROVE  ContractsAreTrue'
<1>0. ExtractContractEntries' = ExtractContractEntries
  BY DEF RunGate, ExtractContractEntries
<1> SUFFICES ASSUME NEW step \in Answers("contracts")', step.status # "fail",
                    NEW k \in packsDeclaringGateType(Manifests, "contracts"),
                    NEW c \in ExtractContractEntries, InScope(scope, c.file),
                    PatternSearch(resolveEngineRegistry(Manifests[k])[EngineFor(Manifests[k], c)])
             PROVE  LET b     == resolveEngineRegistry(Manifests[k])[EngineFor(Manifests[k], c)]
                        where == IF c.scope # NoFile THEN c.scope ELSE c.file
                    IN IF c.absent
                       THEN /\ \E f \in files : Under(where, f)
                            /\ \A d \in facts :
                                 d.role = c.name /\ b.tool \in d.by /\ ~hasTestdataSegment(where)
                                   => ~Under(where, d.file)
                       ELSE \E d \in facts : d.role = c.name /\ d.file = c.file
  BY <1>0, RunKeeps DEF ContractsAreTrue, Holds, EngineFor
<1>1. PICK b : b = resolveEngineRegistry(Manifests[k])[EngineFor(Manifests[k], c)]
  OBVIOUS
<1>2. buildContractStep(Manifests, scope).status # "fail"
  <2>1. step = ConStep(Manifests, scope)
    BY AnswersOf DEF Answers
  <2> QED
    BY <2>1, OwnStep DEF ConStep
<1>3. PICK r : r = dispatchContractEntry(Manifests[k], c)
  OBVIOUS
<1>4. ~r.err /\ VerifyContractVerdict(r) = {}
  BY <1>2, <1>3, ContractStepTells
<1>5. Scan(Manifests[k], c, r)
  BY <1>3, EntryScan
<1>6. k \in DOMAIN Manifests
  BY DEF packsDeclaringGateType
<1>7. PICK p \in DOMAIN Packs : Manifests[k] = Packs[p]
  BY <1>6, WorldOfInv DEF FromPacks
<1>8. PICK D : D = EntryRun(Manifests[k], c)
  OBVIOUS
<1>9. ~D.err => D.violations = Hits(Single(Packs[p], EngineFor(Packs[p], c), c.name), b,
                                    EngineFor(Packs[p], c), Located(World, b, c.name, TargetFor(c)))
  BY <1>1, <1>7, <1>8, WorldOfInv, EntryDispatch DEF EntryRun
<1>10. \A v \in D.violations : ~D.err => \E d \in Located(World, b, c.name, TargetFor(c)) : v.file = d.file
  BY <1>9 DEF Hits, Violation
<1>11. \A d \in Located(World, b, c.name, TargetFor(c)) : ~D.err => \E v \in D.violations : v.file = d.file
  <2> SUFFICES ASSUME NEW d \in Located(World, b, c.name, TargetFor(c)), ~D.err
               PROVE  \E v \in D.violations : v.file = d.file
    OBVIOUS
  <2>1. PICK v : v = Violation(Single(Packs[p], EngineFor(Packs[p], c), c.name), b,
                               EngineFor(Packs[p], c), d)
    OBVIOUS
  <2>2. v \in D.violations
    BY <1>9, <2>1 DEF Hits
  <2>3. v.file = d.file
    BY <2>1 DEF Violation
  <2> QED
    BY <2>2, <2>3
<1>12. CASE c.absent
  <2>1. TargetFor(c) = IF c.scope # NoFile THEN c.scope ELSE c.file
    BY <1>12 DEF TargetFor
  <2>2. r.scanned /\ r.at = {}
    BY <1>4, <1>5, <1>12 DEF VerifyContractVerdict, Scan
  <2>3. ~D.err /\ Located(World, b, c.name, TargetFor(c)) = {}
    BY <1>4, <1>5, <1>8, <1>11, <2>2 DEF Scan
  <2>4. \A d \in facts :
           d.role = c.name /\ b.tool \in d.by /\ ~hasTestdataSegment(TargetFor(c))
             => ~Under(TargetFor(c), d.file)
    BY <2>3 DEF Located, Seen, excludeTestdataPaths, World
  <2>5. \E f \in files : Under(TargetFor(c), f)
    BY <1>5, <2>2 DEF Scan
  <2> QED
    BY <1>1, <1>12, <2>1, <2>4, <2>5
<1>13. CASE ~c.absent
  <2>1. TargetFor(c) = c.file
    BY <1>13 DEF TargetFor
  <2>2. r.at # {}
    BY <1>4, <1>5, <1>13 DEF VerifyContractVerdict, Scan
  <2>3. ~D.err /\ D.violations # {}
    BY <1>4, <1>5, <1>8, <2>2 DEF Scan
  <2>4. PICK d \in Located(World, b, c.name, c.file) : TRUE
    BY <1>10, <2>1, <2>3
  <2>5. d \in facts /\ d.role = c.name /\ Under(c.file, d.file)
    BY <2>4 DEF Located, Seen, excludeTestdataPaths, World
  <2>6. c.file \in FilePaths
    BY DEF ExtractContractEntries, EvidenceInv, FilePaths
  <2>7. d.file \in FilePaths \cup {NoFile}
    BY <2>5 DEF EvidenceInv, FilePaths
  <2>8. d.file # NoFile
    <3> SUFFICES ASSUME d.file = <<>> PROVE FALSE
      BY DEF NoFile
    <3>1. c.file \in Seq(STRING) /\ c.file # <<>>
      BY <2>6, FilesAssumption DEF NoFile
    <3>2. Len(c.file) > 0
      BY <3>1
    <3> QED
      BY <2>5, <3>1, <3>2 DEF Under, IsPrefix
  <2>9. d.file = c.file
    BY <2>5, <2>6, <2>7, <2>8, FilesAssumption
  <2> QED
    BY <1>13, <2>5, <2>9
<1> QED
  BY <1>12, <1>13

(* For every set of packs, specs and facts, a contract step that does not fail
   tells the truth about the contracts in scope. *)
THEOREM ContractsTrue == SpecE => []ContractsAreTrue
<1>1. Init => ContractsAreTrue
  BY DEF Init, ContractsAreTrue, Holds, Answers, NoRun, Reached
<1>2. EvidenceInv /\ [Next]_vars /\ ContractsAreTrue => ContractsAreTrue'
  <2> SUFFICES ASSUME EvidenceInv, [Next]_vars, ContractsAreTrue PROVE ContractsAreTrue'
    OBVIOUS
  <2>1. CASE UNCHANGED vars
    <3>1. /\ last' = last /\ files' = files /\ facts' = facts /\ declared' = declared /\ due' = due
      BY <2>1 DEF vars
    <3>2. Manifests' = Manifests /\ ExtractContractEntries' = ExtractContractEntries
      BY <3>1 DEF Manifests, ExtractContractEntries
    <3>3. Holds("contracts")' = Holds("contracts")
      BY <3>1, <3>2 DEF Holds, Answers
    <3> QED
      BY <3>1, <3>2, <3>3 DEF ContractsAreTrue
  <2>2. CASE last' = NoRun
    BY <2>2 DEF ContractsAreTrue, Holds, Answers, NoRun, Reached
  <2>3. ASSUME NEW scope \in Scopes, RunGate(scope) PROVE ContractsAreTrue'
    BY <2>3, ContractRun
  <2> QED
    BY <2>1, <2>2, <2>3, RunOrEdit
<1> QED
  BY <1>1, <1>2, EvidenceInvariant, PTL DEF SpecE

------------------------------------------------------------------------------
(* Substantiveness.                                                         *)

(* What a step that does not fail says about the findings of its pack. *)
Substantive(scope, D) ==
  /\ ~D.err
  /\ \A v \in D.violations :
       v.role[1] = "hollow" /\ v.severity = "error" => v.file # NoFile /\ ~InScope(scope, v.file)
  /\ \A t \in Mandated :
       Holders(t) # {} /\ InScope(scope, FilePath(t)) /\ JoinEligibleForNoTarget(t)
       => \E v \in D.violations : /\ v.role[1] = "calls" /\ sameFile(v.file, FilePath(t))
                                  /\ v.role[2] = t.func /\ v.role[3] = t.target

(* A substantiveness step that does not fail says this. *)
LEMMA SubstantiveStepTells ==
  ASSUME EvidenceInv, NEW scope, NEW k \in packsDeclaringGateType(Manifests, "substantiveness"),
         buildTestSubstantivenessStep(Manifests, scope).status # "fail"
  PROVE  Substantive(scope, dispatchPackEngines(World, <<Manifests[k]>>, scope))
<1>1. PICK cap : cap = resolveCapabilityPack(Manifests, "substantiveness")
  OBVIOUS
<1>2. ~cap.err
  BY <1>1 DEF buildTestSubstantivenessStep, ConfigError
<1>3. cap.packs = <<Manifests[k]>>
  BY <1>1, <1>2, OneMeasures
<1>4. cap.packs # <<>>
  BY <1>3
<1>5. PICK D : D = dispatchPackEngines(World, cap.packs, scope)
  OBVIOUS
<1> DEFINE hollow     == {v \in D.violations : v.role[1] = "hollow"}
           extraction == {v \in D.violations : v.role[1] = "calls"}
           eligible   == {t \in Mandated : /\ Holders(t) # {}
                                           /\ InScope(scope, FilePath(t))
                                           /\ JoinEligibleForNoTarget(t)}
           F(v)       == Finding("substantiveness", v.file, v.role, v.severity)
           G(t)       == Finding("substantiveness", FilePath(t), <<"no_target", t.func>>, "error")
           Lost(t)    == NoTargetViolation(t, ReferencedSetForTest(extraction, t))
           vs == {F(v) : v \in {h \in hollow : h.file = NoFile \/ InScope(scope, h.file)}}
                 \cup {G(t) : t \in {u \in eligible : Lost(u)}}
           refused == D.err \/ SubstantivenessEvidenceRefusal(eligible, extraction, hollow)
<1>6. buildTestSubstantivenessStep(Manifests, scope) =
        IF refused THEN [ConfigError("substantiveness") EXCEPT !.wrote = D.wrote]
        ELSE Step("substantiveness", StepVerdict(vs), vs, D.wrote)
  BY <1>1, <1>2, <1>4, <1>5 DEF buildTestSubstantivenessStep
<1>7. [ConfigError("substantiveness") EXCEPT !.wrote = D.wrote].status = "fail"
  BY DEF ConfigError
<1>8. ~refused /\ StepVerdict(vs) # "fail"
  <2> HIDE DEF refused, vs
  <2> QED
    BY <1>6, <1>7 DEF Step
<1>9. ~\E v \in vs : blocksVerdict(v)
  <2> HIDE DEF vs
  <2> QED
    BY <1>8 DEF StepVerdict
<1>10. ASSUME NEW v \in D.violations, v.role[1] = "hollow", v.severity = "error"
       PROVE  v.file # NoFile /\ ~InScope(scope, v.file)
  <2> SUFFICES ASSUME v.file = NoFile \/ InScope(scope, v.file) PROVE FALSE
    OBVIOUS
  <2>1. F(v) \in vs
    BY <1>10
  <2>2. blocksVerdict(F(v))
    BY <1>10 DEF blocksVerdict, Finding
  <2> QED
    BY <1>9, <2>1, <2>2
<1>11. ASSUME NEW t \in Mandated, Holders(t) # {}, InScope(scope, FilePath(t)), JoinEligibleForNoTarget(t)
       PROVE  \E v \in D.violations : /\ v.role[1] = "calls" /\ sameFile(v.file, FilePath(t))
                                      /\ v.role[2] = t.func /\ v.role[3] = t.target
  <2>1. blocksVerdict(G(t))
    BY DEF blocksVerdict, Finding
  <2>2. Lost(t) => G(t) \in vs
    <3> HIDE DEF Lost, hollow, F
    <3> QED
      BY <1>11
  <2>3. ~Lost(t)
    BY <1>9, <2>1, <2>2
  <2>4. t.target \in ReferencedSetForTest(extraction, t)
    BY <1>11, <2>3 DEF JoinEligibleForNoTarget, NoTargetViolation
  <2> QED
    BY <2>4 DEF ReferencedSetForTest
<1>12. Substantive(scope, D)
  <2> HIDE DEF vs
  <2> QED
    BY <1>8, <1>10, <1>11 DEF Substantive
<1> QED
  BY <1>3, <1>5, <1>12

(* What an engine finds is true, unless its tool left a report of an earlier
   run in place. *)
LEMMA EngineFacts ==
  ASSUME NEW W, IsWorld(W), NEW m, NEW e, NEW b \in Bindings, b.tool # NoName,
         b.artifact => W.tool[b.tool] # "silent",
         NEW rules, NEW scope, NEW v \in runFindingsEngine(W, m, e, b, rules, scope).out,
         v.file # NoFile
  PROVE  \E d \in W.facts : d.file = v.file /\ d.role = v.role
<1>1. PICK r : r = runFindingsEngine(W, m, e, b, rules, scope)
  OBVIOUS
<1>2. PICK sees : sees = Seen(W, b.tool, Patterns(b, rules), Targets(m, b, scope))
  OBVIOUS
<1>3. PICK run : run = Ran(W, m, b, rules, scope)
  OBVIOUS
<1>4. PICK pay : pay = Payload(W, b, run)
  OBVIOUS
<1>5. W.tool[b.tool] \in Conditions
  BY ToolOfBinding DEF IsWorld
<1>6. AnswerOf(W, b, sees, run, pay)
  BY <1>2, <1>3, <1>4, Answering DEF Ran
<1>7. \A w : Failed(w).out = {}
  BY DEF Failed
<1>8. \A role : dispatchAdvisory(m, e, role).file = NoFile
  BY DEF dispatchAdvisory
<1>9. gatherEngineInputs(b, rules) /\ b.trusted
  BY <1>7, EngineUnfed
<1>10. ~Skips(m, b, scope)
  <2> SUFFICES ASSUME Skips(m, b, scope) PROVE FALSE
    OBVIOUS
  <2>1. r.out = {dispatchAdvisory(m, e, <<"skipped-unclaimed-scope">>)}
    BY <1>1, <1>9, EngineSkips
  <2> QED
    BY <1>1, <1>8, <2>1
<1>11. b.producer # "missing" /\ run.started
  BY <1>3, <1>7, <1>9, <1>10, EngineStuck
<1>12. ~Refused(b, run, pay)
  BY <1>3, <1>4, <1>7, <1>9, <1>10, <1>11, EngineRefuses
<1>13. r.out = {Violation(m, b, e, d) : d \in pay.sees} \cup Absent(m, b, e, scope)
  BY <1>1, <1>3, <1>4, <1>9, <1>10, <1>11, <1>12, EngineAnswers
<1>14. v \notin Absent(m, b, e, scope)
  BY <1>8 DEF Absent
<1>15. PICK d \in pay.sees : v = Violation(m, b, e, d)
  BY <1>1, <1>13, <1>14
<1>16. W.tool[b.tool] \notin {"absent", "dead"}
  BY <1>3, <1>11, OutcomeOf DEF Ran
<1>17. W.tool[b.tool] = "ok"
  BY <1>5, <1>6, <1>12, <1>15, <1>16 DEF AnswerOf, Conditions, Empty
<1>18. d \in W.facts
  BY <1>2, <1>6, <1>15, <1>17 DEF AnswerOf, Seen
<1> QED
  BY <1>15, <1>18 DEF Violation

(* The engines of the pack that measures substantiveness, when there is one. *)
LEMMA ExaminingListed ==
  ASSUME EvidenceInv, NEW k \in packsDeclaringGateType(Manifests, "substantiveness"),
         ~resolveCapabilityPack(Manifests, "substantiveness").err, NEW l \in Examining
  PROVE  /\ l.m = Manifests[k] /\ \E i \in DOMAIN l.m.rules : l.e = l.m.rules[i].engine
         /\ l.e \in DOMAIN resolveEngineRegistry(l.m) /\ l.b = resolveEngineRegistry(l.m)[l.e]
<1>1. /\ l \in Named /\ l.e \in DOMAIN l.m.engines /\ l.b.gate = "substantiveness"
  BY DEF Examining
<1>2. PICK j \in DOMAIN Manifests : \E i \in DOMAIN Manifests[j].rules :
           /\ l.m = Manifests[j] /\ l.e = Manifests[j].rules[i].engine
           /\ l.b = resolveEngineRegistry(Manifests[j])[l.e]
  BY <1>1, NamedListed
<1>3. l.e \in DOMAIN resolveEngineRegistry(l.m) /\ l.b = l.m.engines[l.e]
  BY <1>1, <1>2 DEF resolveEngineRegistry
<1>4. j \in packsDeclaringGateType(Manifests, "substantiveness")
  BY <1>1, <1>2, <1>3 DEF packsDeclaringGateType
<1>5. <<Manifests[j]>> = <<Manifests[k]>>
  BY <1>4, OneMeasures
<1>6. Manifests[j] = Manifests[k]
  BY <1>5
<1> QED
  BY <1>2, <1>3, <1>6

(* The dispatch over one pack. *)
LEMMA OneHas ==
  ASSUME NEW W, NEW m, IsPack(m), NEW scope, NEW i \in DOMAIN m.rules,
         ~dispatchPackEngines(W, <<m>>, scope).err
  PROVE  LET r == dispatchEngine(W, m, m.rules[i].engine, scope)
         IN ~r.err /\ r.out \subseteq dispatchPackEngines(W, <<m>>, scope).violations
<1>1. PICK ms : ms = <<m>>
  OBVIOUS
<1>2. DOMAIN ms = {1} /\ ms[1] = m /\ IsPacks(ms)
  BY <1>1 DEF IsPacks
<1>3. PICK r : r = ResultOf(W, ms, scope, 1, i)
  OBVIOUS
<1>4. ~r.err /\ r.out \subseteq dispatchPackEngines(W, ms, scope).violations
  BY <1>1, <1>2, <1>3, DispatchHas
<1>5. r = dispatchEngine(W, m, m.rules[i].engine, scope)
  BY <1>2, <1>3 DEF ResultOf
<1> QED
  BY <1>1, <1>4, <1>5

(* Its findings come from the engines of the pack's rules. *)
LEMMA OneFrom ==
  ASSUME NEW W, NEW m, IsPack(m), NEW scope, ~dispatchPackEngines(W, <<m>>, scope).err,
         NEW v \in dispatchPackEngines(W, <<m>>, scope).violations
  PROVE  \E i \in DOMAIN m.rules : v \in dispatchEngine(W, m, m.rules[i].engine, scope).out
<1>1. PICK ms : ms = <<m>>
  OBVIOUS
<1>2. DOMAIN ms = {1} /\ ms[1] = m
  BY <1>1
<1>3. PICK k \in DOMAIN ms : \E i \in DOMAIN ms[k].rules :
              v \in ResultOf(W, ms, scope, k, i).out \/ ResultOf(W, ms, scope, k, i).err
  BY <1>1, DispatchFrom
<1>4. PICK i \in DOMAIN m.rules :
              v \in ResultOf(W, ms, scope, 1, i).out \/ ResultOf(W, ms, scope, 1, i).err
  BY <1>2, <1>3
<1>5. ResultOf(W, ms, scope, 1, i) = dispatchEngine(W, m, m.rules[i].engine, scope)
  BY <1>2 DEF ResultOf
<1>6. ~dispatchEngine(W, m, m.rules[i].engine, scope).err
  BY OneHas
<1> QED
  BY <1>4, <1>5, <1>6

(* No test is hollow as far as the engines of the pack can see. *)
LEMMA HollowRun ==
  ASSUME EvidenceInv, NEW scope \in Scopes, RunGate(scope),
         NEW k \in packsDeclaringGateType(Manifests, "substantiveness"),
         ~resolveCapabilityPack(Manifests, "substantiveness").err,
         Substantive(scope, dispatchPackEngines(World, <<Manifests[k]>>, scope)),
         NEW l \in Examining, NEW d \in Visible(l)', d.role[1] = "hollow"
  PROVE  Unread(l, d)'
<1>1. PICK D : D = dispatchPackEngines(World, <<l.m>>, scope)
  OBVIOUS
<1>2. PICK i \in DOMAIN l.m.rules : l.e = l.m.rules[i].engine
  BY ExaminingListed
<1>3. /\ l.m = Manifests[k]
      /\ l.e \in DOMAIN resolveEngineRegistry(l.m) /\ l.b = resolveEngineRegistry(l.m)[l.e]
  BY ExaminingListed
<1>4. IsWorld(World) /\ IsPack(l.m) /\ IsScope(World, scope)
  <2>1. k \in DOMAIN Manifests
    BY DEF packsDeclaringGateType
  <2> QED
    BY <1>3, <2>1, WorldOfInv, KeptPacks, ScopesOfInv DEF IsPacks
<1>5. Substantive(scope, D)
  BY <1>1, <1>3
<1>6. l.b.tool # NoName /\ ~l.b.packageScoped
  BY DEF Examining
<1>7. l.b \in Bindings
  BY <1>3, <1>4, RegistryBindings
<1>8. Sees(World, l.b, RulesOf(l.m, l.e), scope, d) /\ d.severity = "error"
  BY VisibleSeen
<1>9. PICK r : r = dispatchEngine(World, l.m, l.e, scope)
  OBVIOUS
<1>10. ~r.err /\ r.out \subseteq D.violations
  <2>1. ~D.err
    BY <1>5 DEF Substantive
  <2> QED
    BY <1>1, <1>2, <1>4, <1>9, <2>1, OneHas
<1>11. r = runFindingsEngine(World, l.m, l.e, l.b, RulesOf(l.m, l.e), scope)
  BY <1>3, <1>6, <1>9, FindingsDispatch
<1>12. Accounted(World, l.m, l.e, l.b, RulesOf(l.m, l.e), scope, d, r)
  BY <1>4, <1>6, <1>7, <1>8, <1>11, EngineFinds
<1>13. ~Skips(l.m, l.b, scope)
  BY <1>6 DEF Skips, fileModeTestTargets
<1>14. PICK v : v = Violation(l.m, l.b, l.e, d)
  OBVIOUS
<1>15. v \notin D.violations
  <2>1. v.role[1] = "hollow" /\ v.severity = "error" /\ v.file = d.file
    BY <1>8, <1>14 DEF Violation
  <2>2. InScope(scope, d.file)
    BY <1>8 DEF Sees
  <2> QED
    BY <1>5, <2>1, <2>2 DEF Substantive
<1>16. Blind(World, l.b, d)
  BY <1>10, <1>12, <1>13, <1>14, <1>15 DEF Accounted
<1>17. tool[l.b.tool] = "silent" => report'[l.b.tool] = report[l.b.tool]
  BY <1>6, <1>7, ToolOfBinding, RunReports
<1> QED
  BY <1>16, <1>17, RunKeeps DEF Blind, Unread, World

(* The packs of a list are those that are declared. *)
LEMMA ListedNamed ==
  ASSUME EvidenceInv, NEW k \in DOMAIN Manifests, NEW i \in DOMAIN Manifests[k].rules
  PROVE  LET m == Manifests[k]
             e == m.rules[i].engine
         IN [m |-> m, e |-> e, b |-> resolveEngineRegistry(m)[e]] \in Named
<1>1. PICK p \in declared : Manifests[k] = Packs[p]
  BY DEF Manifests
<1> QED
  BY <1>1 DEF Named

(* The evidence of a call is true. *)
LEMMA CallsRun ==
  ASSUME EvidenceInv, NEW scope,
         NEW k \in packsDeclaringGateType(Manifests, "substantiveness"),
         Substantive(scope, dispatchPackEngines(World, <<Manifests[k]>>, scope)),
         \A l \in Named : l.b.tool # NoName /\ l.b.artifact => tool[l.b.tool] # "silent",
         NEW t \in Mandated,
         Holders(t) # {}, InScope(scope, FilePath(t)), JoinEligibleForNoTarget(t),
         \A f \in files : sameFile(f, FilePath(t)) => f = FilePath(t)
  PROVE  \E d \in facts : /\ d.file = FilePath(t) /\ d.role[1] = "calls"
                          /\ d.role[2] = t.func /\ d.role[3] = t.target
<1>1. PICK m : m = Manifests[k]
  OBVIOUS
<1>2. PICK D : D = dispatchPackEngines(World, <<m>>, scope)
  OBVIOUS
<1>3. k \in DOMAIN Manifests
  BY DEF packsDeclaringGateType
<1>4. IsWorld(World) /\ IsPack(m)
  BY <1>1, <1>3, WorldOfInv, KeptPacks DEF IsPacks
<1>5. ~D.err
  BY <1>1, <1>2 DEF Substantive
<1>6. PICK v \in D.violations : /\ v.role[1] = "calls" /\ sameFile(v.file, FilePath(t))
                                /\ v.role[2] = t.func /\ v.role[3] = t.target
  BY <1>1, <1>2 DEF Substantive
<1>7. v.file # NoFile
  BY <1>6 DEF sameFile
<1>8. PICK i \in DOMAIN m.rules : v \in dispatchEngine(World, m, m.rules[i].engine, scope).out
  BY <1>2, <1>4, <1>5, OneFrom
<1>9. PICK e : e = m.rules[i].engine
  OBVIOUS
<1>10. e \in DOMAIN resolveEngineRegistry(m)
  BY <1>8, <1>9 DEF dispatchEngine, Failed
<1>11. PICK b : b = resolveEngineRegistry(m)[e]
  OBVIOUS
<1>12. b \in Bindings
  BY <1>4, <1>10, <1>11, RegistryBindings
<1>13. b.tool # NoName
  <2> SUFFICES ASSUME b.tool = NoName PROVE FALSE
    OBVIOUS
  <2>1. b.input = "none"
    BY <1>12, BindingsAssumption
  <2>2. v \in runSandboxEngine(World, m, e, RulesOf(m, e)).out
    BY <1>8, <1>9, <1>10, <1>11, <2>1 DEF dispatchEngine
  <2>3. v.file = NoFile
    BY <2>2 DEF runSandboxEngine, Failed
  <2> QED
    BY <1>7, <2>3
<1>14. v \in runFindingsEngine(World, m, e, b, RulesOf(m, e), scope).out
  BY <1>8, <1>9, <1>10, <1>11, <1>13, FindingsDispatch
<1>15. b.artifact => World.tool[b.tool] # "silent"
  <2>1. [m |-> m, e |-> e, b |-> b] \in Named
    BY <1>1, <1>3, <1>8, <1>9, <1>11, ListedNamed
  <2> QED
    BY <1>13, <2>1 DEF World
<1>16. PICK d \in World.facts : d.file = v.file /\ d.role = v.role
  BY <1>4, <1>7, <1>12, <1>13, <1>14, <1>15, EngineFacts
<1>17. d \in facts /\ d.file \in files
  BY <1>7, <1>16 DEF World, EvidenceInv
<1>18. d.file = FilePath(t)
  BY <1>6, <1>16, <1>17
<1> QED
  BY <1>6, <1>16, <1>17, <1>18

(* The mandated tests depend on the facts and on the specs alone. *)
LEMMA TestsKept ==
  ASSUME facts' = facts, due' = due
  PROVE  /\ Mandated' = Mandated
         /\ \A t : /\ Holders(t)' = Holders(t) /\ FilePath(t)' = FilePath(t)
                   /\ JoinEligibleForNoTarget(t)' <=> JoinEligibleForNoTarget(t)
<1>1. Mandated' = Mandated
  BY DEF Mandated
<1>2. ASSUME NEW t
      PROVE  /\ Holders(t)' = Holders(t) /\ FilePath(t)' = FilePath(t)
             /\ JoinEligibleForNoTarget(t)' <=> JoinEligibleForNoTarget(t)
  <2>1. Holders(t)' = Holders(t)
    BY DEF Holders
  <2>2. FilePath(t)' = FilePath(t)
    BY <2>1 DEF FilePath
  <2>3. JoinEligibleForNoTarget(t)' <=> JoinEligibleForNoTarget(t)
    BY <2>2 DEF JoinEligibleForNoTarget, NoTargetViolation
  <2> QED
    BY <2>1, <2>2, <2>3
<1> QED
  BY <1>1, <1>2

(* The two halves of the property. *)
NoneHollow == \A l \in Examining : \A d \in Visible(l) : d.role[1] = "hollow" => Unread(l, d)
AllCall ==
  (\A l \in Named : l.b.tool # NoName /\ l.b.artifact => tool[l.b.tool] # "silent")
  => \A t \in Mandated :
       ( /\ Holders(t) # {} /\ InScope(last.scope, FilePath(t)) /\ JoinEligibleForNoTarget(t)
         /\ \A f \in files : sameFile(f, FilePath(t)) => f = FilePath(t) )
       => \E d \in facts : /\ d.file = FilePath(t) /\ d.role[1] = "calls"
                           /\ d.role[2] = t.func /\ d.role[3] = t.target

(* The property is both of them. *)
LEMMA Halves == SubstantiveMeansCalls <=> (Holds("substantiveness") # {} => NoneHollow /\ AllCall)
BY DEF SubstantiveMeansCalls, NoneHollow, AllCall

(* The same in the next state. *)
LEMMA HalvesNext ==
  SubstantiveMeansCalls' <=> (Holds("substantiveness")' # {} => NoneHollow' /\ AllCall')
BY DEF SubstantiveMeansCalls, NoneHollow, AllCall

(* A run satisfies SubstantiveMeansCalls. *)
LEMMA SubstantiveRun ==
  ASSUME EvidenceInv, NEW scope \in Scopes, RunGate(scope)
  PROVE  SubstantiveMeansCalls'
<1> SUFFICES ASSUME NEW step \in Answers("substantiveness")', step.status # "fail",
                    packsDeclaringGateType(Manifests, "substantiveness") # {}
             PROVE  NoneHollow' /\ AllCall'
  BY RunKeeps, HalvesNext DEF Holds
<1>1. buildTestSubstantivenessStep(Manifests, scope).status # "fail"
  <2>1. step = SubStep(Manifests, scope)
    BY AnswersOf DEF Answers
  <2> QED
    BY <2>1, OwnStep DEF SubStep
<1>2. PICK k \in packsDeclaringGateType(Manifests, "substantiveness") : TRUE
  OBVIOUS
<1>3. Substantive(scope, dispatchPackEngines(World, <<Manifests[k]>>, scope))
  BY <1>1, SubstantiveStepTells
<1>4. ~resolveCapabilityPack(Manifests, "substantiveness").err
  BY <1>1 DEF buildTestSubstantivenessStep, ConfigError
<1>5. NoneHollow'
  <2>1. Examining' = Examining
    BY RunKeeps DEF Examining
  <2>2. ASSUME NEW l \in Examining', NEW d \in Visible(l)', d.role[1] = "hollow"
        PROVE  Unread(l, d)'
    <3>1. l \in Examining
      BY <2>1
    <3> QED
      BY <1>3, <1>4, <2>2, <3>1, HollowRun
  <2> QED
    BY <2>2 DEF NoneHollow
<1>6. AllCall'
  <2>0. facts' = facts /\ due' = due /\ files' = files /\ tool' = tool
    BY DEF RunGate
  <2>1. last'.scope = scope /\ Named' = Named
    BY RunKeeps
  <2>2. ASSUME \A l \in Named : l.b.tool # NoName /\ l.b.artifact => tool[l.b.tool] # "silent",
               NEW t \in Mandated,
               Holders(t) # {}, InScope(scope, FilePath(t)), JoinEligibleForNoTarget(t),
               \A f \in files : sameFile(f, FilePath(t)) => f = FilePath(t)
        PROVE  \E d \in facts : /\ d.file = FilePath(t) /\ d.role[1] = "calls"
                                /\ d.role[2] = t.func /\ d.role[3] = t.target
    BY <1>3, <2>2, CallsRun
  <2> QED
    BY <2>0, <2>1, <2>2, TestsKept DEF AllCall
<1> QED
  BY <1>5, <1>6

(* A stuttering step keeps the property. *)
LEMMA SubstantiveStutter ==
  ASSUME UNCHANGED vars, SubstantiveMeansCalls
  PROVE  SubstantiveMeansCalls'
<1>1. /\ last' = last /\ files' = files /\ facts' = facts /\ declared' = declared /\ due' = due
      /\ tool' = tool /\ report' = report
  BY DEF vars
<1>2. Manifests' = Manifests /\ Named' = Named
  BY <1>1 DEF Manifests, Named
<1>3. Holds("substantiveness")' = Holds("substantiveness")
  BY <1>1, <1>2 DEF Holds, Answers
<1>4. NoneHollow => NoneHollow'
  <2>1. Examining' = Examining
    BY <1>2 DEF Examining
  <2>2. \A l : Visible(l)' = Visible(l)
    BY <1>1 DEF Visible
  <2>3. \A l, d : Unread(l, d)' <=> Unread(l, d)
    BY <1>1 DEF Unread
  <2> QED
    BY <2>1, <2>2, <2>3 DEF NoneHollow
<1>5. AllCall => AllCall'
  BY <1>1, <1>2, TestsKept DEF AllCall
<1> QED
  BY <1>3, <1>4, <1>5, Halves, HalvesNext

(* For every set of packs, specs and facts, a substantiveness step that does
   not fail means that the mandated tests call what they are about. *)
THEOREM SubstantiveCalls == SpecE => []SubstantiveMeansCalls
<1>1. Init => SubstantiveMeansCalls
  BY DEF Init, SubstantiveMeansCalls, Holds, Answers, NoRun, Reached
<1>2. EvidenceInv /\ [Next]_vars /\ SubstantiveMeansCalls => SubstantiveMeansCalls'
  <2> SUFFICES ASSUME EvidenceInv, [Next]_vars, SubstantiveMeansCalls
               PROVE  SubstantiveMeansCalls'
    OBVIOUS
  <2>1. CASE UNCHANGED vars
    BY <2>1, SubstantiveStutter
  <2>2. CASE last' = NoRun
    BY <2>2 DEF SubstantiveMeansCalls, Holds, Answers, NoRun, Reached
  <2>3. ASSUME NEW scope \in Scopes, RunGate(scope) PROVE SubstantiveMeansCalls'
    BY <2>3, SubstantiveRun
  <2> QED
    BY <2>1, <2>2, <2>3, RunOrEdit
<1> QED
  BY <1>1, <1>2, EvidenceInvariant, PTL DEF SpecE
==============================================================================
