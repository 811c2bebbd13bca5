------------------------------ MODULE Delivery -------------------------------
(***************************************************************************)
(* What the gate says about a project's promises: a bundle states          *)
(* requirements, specs and issues cite them at a pinned version and        *)
(* mandate tests, plans carry out specs and issues.  Four steps of the     *)
(* gate read that corpus: artifact_validation, test_verification,          *)
(* artifact_status_drift and requirement_traceability.                     *)
(*                                                                         *)
(* The state is a work tree (the corpus and the tests), the files changed  *)
(* since the last merge and a bound on the edits.  People edit; a change   *)
(* merges when the diff-scoped gate is green.  A gate run is a function of *)
(* the tree and the scope, because the steps only read.                    *)
(***************************************************************************)
EXTENDS ArtifactRules, FiniteSets, TLC

CONSTANTS
  Tests,            \* names of test functions
  PackClaims,       \* mandated names that are claims of an installed pack
  Toolchains,       \* [discovery, verdict]: what the installed packs provide
  InitTree,         \* the project at the start
  Blocks,           \* blocks an edit may break or repair
  FreshSpec,        \* the id of a spec nobody has written yet
  Versions,         \* versions a requirement may move to
  SpecStatuses, IssueStatuses, PlanStatuses, Maturities,
  MaxEdits          \* bound: edits in a behaviour

VARIABLES
  tree,             \* artifacts by kind, and tests
  changed,          \* files changed since the last merge
  edits,            \* edits so far
  toolchain         \* what the installed packs provide

vars == <<tree, changed, edits, toolchain>>

------------------------------------------------------------------------------
(* What the parsers decode from a project: the fields that are edited here, *)
(* and the values of those that are more than text.                         *)

Kinds == {"spec", "issue", "bundle", "plan", "adr", "directive"}

\* Beside the parser of the validators, who read a front matter as it comes, two
\* decoders read it into types: one for the record of every artifact, one for
\* the promises of a spec.  a.fits is the set of those that the rest of it suits:
\* values no validator looks at, and the blank lines it may start with.
Readers == {"record", "promises"}

Semvers == Seq(Nat)

CitedReqs == Seq([id : STRING, supForm : {"list", "absent", "scalar"},
                  supports : SUBSET [bundle : STRING, req : STRING, version : Semvers]])

Claims == Seq([id : STRING, req : STRING, tests : SUBSET STRING])

WorkShape(a, kind) ==
  /\ {"kind", "parses", "malformed", "status", "pointer", "reqForm", "reqs", "claimForm",
      "claims", "verification", "implementation", "contractForm", "contracts", "fits"}
       \subseteq DOMAIN a
  /\ a.kind = kind /\ a.reqs \in CitedReqs /\ a.claims \in Claims
  /\ a.verification \in {"map", "absent", "scalar"}
  /\ a.implementation \in {"map", "absent", "scalar"}
  /\ a.contractForm \in {"list", "absent", "scalar"}

IssueShape(a) ==
  /\ WorkShape(a, "issue") /\ {"delivered", "resolved"} \subseteq DOMAIN a
  /\ a.resolved \in {"absent", "malformed", "external", "found", "dangling"}

BundleShape(a) ==
  /\ {"kind", "parses", "malformed", "status", "reqs", "fits"} \subseteq DOMAIN a
  /\ a.kind = "bundle"
  /\ a.reqs \in Seq([id : STRING, version : Semvers, logged : BOOLEAN, log : Seq(Semvers)])

PlanShape(a) == {"kind", "parses", "status", "fits"} \subseteq DOMAIN a /\ a.kind = "plan"

Shaped(T) ==
  /\ DOMAIN T = Kinds \cup {"tests"} /\ DOMAIN T.tests = Tests
  /\ \A k \in Kinds : DOMAIN T[k] = DOMAIN InitTree[k]
  /\ \A s \in DOMAIN T.spec : WorkShape(T.spec[s], "spec")
  /\ \A i \in DOMAIN T.issue : IssueShape(T.issue[i])
  /\ \A b \in DOMAIN T.bundle : BundleShape(T.bundle[b])
  /\ \A p \in DOMAIN T.plan : PlanShape(T.plan[p])

ASSUME DeliveryAssumption ==
  /\ Shaped(InitTree) /\ Versions \subseteq Semvers /\ MaxEdits \in Nat
  /\ FreshSpec \notin DOMAIN InitTree.spec \cup DOMAIN InitTree.issue

------------------------------------------------------------------------------
(* Scope.                                                                   *)

\* A file of the project: its directory and its base name.
Path(dir, name) == <<dir, name>>

\* A finding of the artifact validators carries the base name alone.
Filename(name) == <<"", name>>

AllFiles == [all |-> TRUE, files |-> {}]
DiffOf(files) == [all |-> FALSE, files |-> files]

InScope(scope, file) == scope.all \/ file \in scope.files

------------------------------------------------------------------------------
(* artifact_validation.                                                     *)

Citers(T) ==
  [c \in DOMAIN T.spec \cup DOMAIN T.issue |-> IF c \in DOMAIN T.spec THEN T.spec[c] ELSE T.issue[c]]

\* The validator of an artifact's kind.
RouteValidator(T, kind, x) ==
  CASE kind = "spec"      -> Spec(T.spec[x])
    [] kind = "issue"     -> Issue(x, T.issue[x], T.plan)
    [] kind = "bundle"    -> Bundle(T.bundle[x])
    [] kind = "plan"      -> IF T.plan[x].valid THEN {} ELSE {"plan"}
    [] kind = "adr"       -> ADR(T.adr[x])
    [] kind = "directive" -> Directive(T.directive[x])

buildResolutionViolations(T) ==
  ResolveSupports(BuildBundleReqCatalog(T.bundle), CollectSupportRefs(Citers(T)))

\* Every discovered artifact, then the supports resolution; one artifact that
\* does not parse is an error of the whole run.
ValidateArtifacts(T) ==
  IF \E k \in Kinds : \E x \in DOMAIN T[k] : ~T[k][x].parses
  THEN [config |-> TRUE, findings |-> {}]
  ELSE [config |-> FALSE, findings |->
          (UNION {UNION {{[rule |-> r, file |-> x] : r \in RouteValidator(T, k, x)} :
                           x \in DOMAIN T[k]} : k \in Kinds})
          \cup buildResolutionViolations(T)]

\* A configuration error is reported in every scope; a finding only if its
\* file, the base name, is in scope.
StepArtifactValidation(T, scope) ==
  LET v == ValidateArtifacts(T)
  IN IF v.config THEN {[step |-> "artifact_validation", rule |-> "config", at |-> "run", on |-> <<>>]}
     ELSE {[step |-> "artifact_validation", rule |-> f.rule, at |-> f.file, on |-> <<>>] :
             f \in {g \in v.findings : InScope(scope, Filename(g.file))}}

------------------------------------------------------------------------------
(* Artifact status: what each artifact promises.                            *)

ClassifyArtifactStatus(kind, status) ==
  IF isTerminalStatus(status) THEN "retired"
  ELSE IF <<kind, status>> \in {<<"issue", "closed">>, <<"spec", "implemented">>,
                                <<"plan", "completed">>, <<"bundle", "delivered">>}
       THEN "success"
  ELSE "open"

Promising == {"spec", "issue", "bundle", "plan"}

\* What the decoder of the records accepts; it skips, silently, any other file.
Typed(a) ==
  /\ a.parses
  /\ a.kind \in Promising => "record" \in a.fits
  /\ a.kind \in {"spec", "issue"} => a.claimForm # "scalar"

Records(T, kind) == {x \in DOMAIN T[kind] : Typed(T[kind][x])}

Class(T, kind, x) == ClassifyArtifactStatus(kind, T[kind][x].status)

\* (claim, test) pairs of a spec's or an issue's claims.
claimsToMandatedTests(a) ==
  UNION {{<<a.claims[i].id, t>> : t \in a.claims[i].tests} : i \in DOMAIN a.claims}

\* Retired by the test-verification step's own list, which lacks obsoleted.
isTerminalSpecStatus(status) == status \in {"replaced", "canceled", "deprecated"}

\* What the decoder of a spec's promises accepts: it types more blocks than the
\* records need, and skips a spec it cannot decode as silently.
parseSpecFrontmatter(a) ==
  /\ a.parses /\ a.claimForm # "scalar"
  /\ a.verification # "scalar" /\ a.implementation # "scalar" /\ a.contractForm # "scalar"
  /\ "promises" \in a.fits

ExtractMandatedTests(T) ==
  UNION {{[spec |-> s, claim |-> m[1], test |-> m[2], status |-> T.spec[s].status] :
            m \in claimsToMandatedTests(T.spec[s])}
         : s \in {x \in DOMAIN T.spec : /\ parseSpecFrontmatter(T.spec[x])
                                        /\ ~isTerminalSpecStatus(T.spec[x].status)}}

\* The (claim, test) pairs on the record of a spec or an issue.
RecordedTests(T, kind, x) ==
  IF kind = "spec"
  THEN {<<m.claim, m.test>> : m \in {n \in ExtractMandatedTests(T) : n.spec = x}}
  ELSE claimsToMandatedTests(T.issue[x])

\* The tests behind a claim of a source that is not retired.
buildSourceClaimIndex(T, source, claim) ==
  UNION {{m[2] : m \in {n \in RecordedTests(T, k, source) : n[1] = claim /\ claim # ""}} :
           k \in {c \in {"spec", "issue"} : /\ source \in Records(T, c)
                                            /\ Class(T, c, source) # "retired"}}

\* A plan promises the tests its tasks name and those of the claims they carry
\* out (a union by name).
planMandatedTests(T, p) ==
  T.plan[p].tests
    \cup UNION {buildSourceClaimIndex(T, T.plan[p].source, c) : c \in T.plan[p].claims}

MandatedNames(T, kind, x) ==
  CASE kind \in {"spec", "issue"} -> {m[2] : m \in RecordedTests(T, kind, x)}
    [] kind = "plan"             -> planMandatedTests(T, x)
    [] OTHER                     -> {}

\* Names the declared globs and patterns find in the test files.
Found(T) == IF toolchain.discovery THEN {t \in Tests : T.tests[t] # "absent"} ELSE {}

ResolvePresentTestNames(T) == Found(T) \cup PackClaims

------------------------------------------------------------------------------
(* artifact_status_drift: the same in every scope.                          *)

\* Mutation: drift is looked for in the changed artifacts only.
ClassifyStatusDriftOfDiff(T) ==
  UNION {UNION {{[step |-> "artifact_status_drift", rule |-> "drift", at |-> x, on |-> <<t>>] :
                   t \in MandatedNames(T, k, x) \ ResolvePresentTestNames(T)}
                : x \in {y \in Records(T, k) : /\ Class(T, k, y) = "success"
                                              /\ Path(k, y) \in changed}}
         : k \in Promising}

ClassifyStatusDrift(T) ==
  UNION {UNION {{[step |-> "artifact_status_drift", rule |-> "drift", at |-> x, on |-> <<t>>] :
                   t \in MandatedNames(T, k, x) \ ResolvePresentTestNames(T)}
                : x \in {y \in Records(T, k) : Class(T, k, y) = "success"}}
         : k \in Promising}

\* The advisory half: open work whose tests are all there.
looksDelivered(T) ==
  UNION {{x \in Records(T, k) : /\ Class(T, k, x) = "open"
                                /\ MandatedNames(T, k, x) # {}
                                /\ MandatedNames(T, k, x) \subseteq ResolvePresentTestNames(T)}
         : k \in Promising}

------------------------------------------------------------------------------
(* test_verification.                                                       *)

\* Mutation: no status makes a mandated test due.
contractsAreNeverDue(status) == FALSE

contractsAreDue(status) == status = "implemented"

\* In a scoped run a mandated test counts if its own file or its spec is in
\* scope; a test that is in no file only if its spec is.
InTestScope(T, scope, m) ==
  \/ scope.all
  \/ InScope(scope, Path("spec", m.spec))
  \/ m.test \in Found(T) /\ InScope(scope, Path("test", m.test))

verdictNamesTest(T, t) == toolchain.verdict /\ T.tests[t] = "failing"

\* The mandated tests the test engine's findings name.
MandatedTestFailures(T, mandated) ==
  {m \in mandated : contractsAreDue(m.status) /\ m.test \in Tests /\ verdictNamesTest(T, m.test)}

\* The step has no way to find tests without globs and patterns: it warns, and
\* only joins the failures the test engine reports, without scope.
StepTestVerification(T, scope) ==
  LET due     == {m \in ExtractMandatedTests(T) : contractsAreDue(m.status)}
      counted == {m \in due : ~toolchain.discovery \/ InTestScope(T, scope, m)}
      missing == {m \in counted : toolchain.discovery /\ m.test \notin Found(T)}
      failed  == MandatedTestFailures(T, counted)
  IN {[step |-> "test_verification", rule |-> "missing", at |-> m.spec, on |-> <<m.test>>] :
        m \in missing}
     \cup {[step |-> "test_verification", rule |-> "failed", at |-> m.spec, on |-> <<m.test>>] :
        m \in failed}

------------------------------------------------------------------------------
(* requirement_traceability: the same in every scope.                       *)

collectTraceRefs(T) == CollectSupportRefs(Citers(T))

KindOf(T, c) == IF c \in DOMAIN T.spec THEN "spec" ELSE "issue"

\* "none", "unknown", "major", "minor" or "patch"; major and minor are stale.
StalePinVerdict(pin, current) ==
  IF pin = current THEN "none"
  ELSE IF Len(pin) # 3 \/ Len(current) # 3 THEN "unknown"
  ELSE IF pin[1] # current[1] THEN "major"
  ELSE IF pin[2] # current[2] THEN "minor"
  ELSE "patch"

Stale(bump) == bump \in {"major", "minor"}

\* <<>> for a requirement the bundle does not declare.
bundleReqVersion(b, req) ==
  IF \E i \in DOMAIN b.reqs : b.reqs[i].id = req
  THEN b.reqs[CHOOSE i \in DOMAIN b.reqs :
                /\ b.reqs[i].id = req
                /\ \A j \in 1 .. i - 1 : b.reqs[j].id # req].version
  ELSE <<>>

\* The references whose bundle and citer are known, to a bundle still in force.
ResolvedRefs(T) ==
  {r \in collectTraceRefs(T) : /\ r.bundle \in Records(T, "bundle")
                               /\ r.citer \in Records(T, KindOf(T, r.citer))
                               /\ Class(T, "bundle", r.bundle) # "retired"}

CiterClass(T, r) == Class(T, KindOf(T, r.citer), r.citer)
BySpec(T, r) == KindOf(T, r.citer) = "spec"
Delivered(T, b) == Class(T, "bundle", b) = "success"

LiveRefs(T) == {r \in ResolvedRefs(T) : CiterClass(T, r) # "retired"}

\* What a retired spec cited.
lapsedCiter(T) ==
  {<<r.bundle, r.req>> : r \in {x \in ResolvedRefs(T) : BySpec(T, x) /\ CiterClass(T, x) = "retired"}}

Outrun(T, r) == Stale(StalePinVerdict(r.version, bundleReqVersion(T.bundle[r.bundle], r.req)))

\* Covered: cited by an implemented spec whose pin has not been outrun.
coveredReqs(T) ==
  {<<r.bundle, r.req>> : r \in {x \in LiveRefs(T) : /\ BySpec(T, x)
                                                    /\ CiterClass(T, x) = "success"
                                                    /\ ~Outrun(T, x)}}

\* Mutation: a stale pin is reported although another spec covers the
\* requirement.
StaleRefsEvenIfCovered(T) == {r \in LiveRefs(T) : Outrun(T, r)}

StaleRefs(T) ==
  LET covered == coveredReqs(T)
  IN {r \in LiveRefs(T) : Outrun(T, r) /\ <<r.bundle, r.req>> \notin covered}

Gap(gap, remedy, b, req, at, via, severity) ==
  [gap |-> gap, remedy |-> remedy, bundle |-> b, req |-> req, at |-> at,
   via |-> via, severity |-> severity]

\* Every finding, error and advisory alike, with its gap kind and remedy.  Of the
\* stale references of a plan's spec the code names one, the last it met.
ClassifyRequirementTraceability(T) ==
  LET covered == coveredReqs(T)
      lapsed  == lapsedCiter(T)
      stale   == StaleRefs(T)
      unfinished == {r \in LiveRefs(T) : /\ Delivered(T, r.bundle) /\ BySpec(T, r)
                                         /\ CiterClass(T, r) # "success"}
      livePlans   == {p \in Records(T, "plan") : Class(T, "plan", p) # "retired"}
      liveBundles == {b \in Records(T, "bundle") : Class(T, "bundle", b) # "retired"}
      uncovered(b) == {q \in ReqIds(T.bundle[b]) : <<b, q>> \notin covered}
  IN {Gap("citing_spec_not_implemented", "implement_spec", r.bundle, r.req, r.citer, r.citer,
          "error") : r \in unfinished}
     \cup {Gap("stale_pin", IF Delivered(T, r.bundle) THEN "new_spec" ELSE "re_pin",
               r.bundle, r.req, r.citer, r.citer, "error") : r \in stale}
     \cup {LET r == CHOOSE x \in stale : BySpec(T, x) /\ x.citer = T.plan[p].source
           IN Gap("chain_outrun", "resolve_upstream", r.bundle, r.req, p, r.citer, "error") :
             p \in {q \in livePlans : \E x \in stale : BySpec(T, x) /\ x.citer = T.plan[q].source}}
     \cup UNION {{Gap(IF <<b, q>> \in lapsed THEN "coverage_lapsed" ELSE "uncovered",
                      IF <<b, q>> \in lapsed THEN "restate_supports" ELSE "author_spec",
                      b, q, b, b, IF Delivered(T, b) THEN "error" ELSE "warning") :
                    q \in uncovered(b)}
                 : b \in liveBundles}

\* The blocking half of the split.
StepRequirementTraceability(T) ==
  {[step |-> "requirement_traceability", rule |-> f.gap, at |-> f.at, on |-> <<f.bundle, f.req>>] :
     f \in {g \in ClassifyRequirementTraceability(T) : g.severity = "error"}}

\* The run is green when no step has anything to say that blocks.
Green(T, scope) ==
  /\ ClassifyStatusDrift(T) = {}
  /\ StepTestVerification(T, scope) = {}
  /\ StepRequirementTraceability(T) = {}
  /\ StepArtifactValidation(T, scope) = {}

------------------------------------------------------------------------------
(* Edits and merges.                                                        *)

Init ==
  /\ tree = InitTree
  /\ changed = {}
  /\ edits = 0
  /\ toolchain \in Toolchains

Edit(newTree, file) ==
  /\ edits < MaxEdits
  /\ newTree # tree
  /\ tree' = newTree
  /\ changed' = changed \cup {file}
  /\ edits' = edits + 1
  /\ UNCHANGED toolchain

EditSpec(s, a) == Edit([tree EXCEPT !.spec[s] = a], Path("spec", s))
EditIssue(i, a) == Edit([tree EXCEPT !.issue[i] = a], Path("issue", i))
EditBundle(b, a) == Edit([tree EXCEPT !.bundle[b] = a], Path("bundle", b))
EditPlan(p, a) == Edit([tree EXCEPT !.plan[p] = a], Path("plan", p))

\* A status moves; a retirement comes with or without its pointer.
SetSpecStatus(s) ==
  \E st \in SpecStatuses, ptr \in {"absent", "typed"} :
    /\ ptr = "typed" => isTerminalStatus(st)
    /\ EditSpec(s, [tree.spec[s] EXCEPT !.status = st, !.pointer = ptr])

\* Close an issue on its plan, on its own claims, or move its status.
SetIssueStatus(i) ==
  \E st \in IssueStatuses, by \in {"absent"} \cup DOMAIN tree.plan :
    EditIssue(i, [tree.issue[i] EXCEPT !.status = st, !.delivered = by])

SetPlanStatus(p) ==
  \E st \in PlanStatuses : EditPlan(p, [tree.plan[p] EXCEPT !.status = st])

SetMaturity(b) ==
  \E m \in Maturities : EditBundle(b, [tree.bundle[b] EXCEPT !.status = m])

\* The pins of a citation, moved to another version; <<>> is a malformed pin.
WithPins(a, v) ==
  [a EXCEPT !.reqs = [i \in DOMAIN a.reqs |->
     [a.reqs[i] EXCEPT !.supports = {[p EXCEPT !.version = v] : p \in a.reqs[i].supports}]]]

RePinSpec(s)  == \E v \in Versions \cup {<<>>} : EditSpec(s, WithPins(tree.spec[s], v))
RePinIssue(i) == \E v \in Versions : EditIssue(i, WithPins(tree.issue[i], v))

\* A requirement moves to another version, with or without its log entry.
BumpRequirement(b) ==
  \E i \in DOMAIN tree.bundle[b].reqs, v \in Versions, log \in BOOLEAN :
    LET r == tree.bundle[b].reqs[i]
        entry == IF log THEN Append(r.log, v) ELSE r.log
    IN EditBundle(b, [tree.bundle[b] EXCEPT !.reqs[i] = [r EXCEPT !.version = v, !.log = entry]])

\* The claims disappear, stop being a list, or the file stops parsing.
DropClaims(s)  == EditSpec(s, [tree.spec[s] EXCEPT !.claims = <<>>])
MistypeSpec(s) == EditSpec(s, [tree.spec[s] EXCEPT !.claimForm = "scalar", !.claims = <<>>])
CorruptSpec(s) == EditSpec(s, [tree.spec[s] EXCEPT !.parses = FALSE])
RestoreSpec(s) == EditSpec(s, InitTree.spec[s])

\* A block of a spec that was a map or a list becomes a single value.
MistypeBlock(s) ==
  \/ EditSpec(s, [tree.spec[s] EXCEPT !.verification = "scalar"])
  \/ EditSpec(s, [tree.spec[s] EXCEPT !.implementation = "scalar"])
  \/ EditSpec(s, [tree.spec[s] EXCEPT !.contractForm = "scalar", !.contracts = <<>>])

\* A value that no validator looks at gets or loses the type a decoder expects.
EditFits(k, x) ==
  \E f \in SUBSET (IF k = "spec" THEN Readers ELSE {"record"}) :
    Edit([tree EXCEPT ![k][x].fits = f], Path(k, x))

\* A block of any artifact breaks or is repaired.
EditBlock(k, x) ==
  \E block \in Blocks :
    LET a == tree[k][x]
        m == IF block \in a.malformed THEN a.malformed \ {block} ELSE a.malformed \cup {block}
    IN Edit([tree EXCEPT ![k][x].malformed = m], Path(k, x))

SetTest(t) ==
  \E st \in {"absent", "passing", "failing"} :
    Edit([tree EXCEPT !.tests[t] = st], Path("test", t))

\* A change goes in when the diff-scoped gate is green.
Merge ==
  /\ changed # {}
  /\ Green(tree, DiffOf(changed))
  /\ changed' = {}
  /\ UNCHANGED <<tree, edits, toolchain>>

Next ==
  \/ \E s \in DOMAIN tree.spec :
       \/ SetSpecStatus(s) \/ RePinSpec(s) \/ DropClaims(s)
       \/ MistypeSpec(s) \/ CorruptSpec(s) \/ RestoreSpec(s) \/ MistypeBlock(s)
  \/ \E i \in DOMAIN tree.issue : SetIssueStatus(i) \/ RePinIssue(i)
  \/ \E b \in DOMAIN tree.bundle : SetMaturity(b) \/ BumpRequirement(b)
  \/ \E p \in DOMAIN tree.plan : SetPlanStatus(p)
  \/ \E k \in Kinds \ {"plan"} : \E x \in DOMAIN tree[k] : EditBlock(k, x)
  \/ \E k \in Promising : \E x \in DOMAIN tree[k] : EditFits(k, x)
  \/ \E t \in Tests : SetTest(t)
  \/ Merge

SpecD == Init /\ [][Next]_vars

------------------------------------------------------------------------------
(* Properties.                                                              *)

\* Edits keep the shape of the project.
TypeOK == Shaped(tree) /\ edits \in 0 .. MaxEdits /\ toolchain \in Toolchains

\* The tests an artifact names in its claims.
OwnTests(a) == UNION {a.claims[i].tests : i \in DOMAIN a.claims}

\* Spec s pins requirement q of bundle b at a version that ok accepts.
PinsAt(s, b, q, ok(_)) ==
  \E i \in DOMAIN tree.spec[s].reqs : \E p \in tree.spec[s].reqs[i].supports :
    p.bundle = b /\ p.req = q /\ ok(p.version)

\* The bundles in delivery that have a record.
DeliveredBundles ==
  {b \in DOMAIN tree.bundle : /\ tree.bundle[b].status = "delivered"
                             /\ "record" \in tree.bundle[b].fits}

Current(b, q) == bundleReqVersion(tree.bundle[b], q)

\* A change merges on a run that looks at the diff.  Even so, main never has a
\* delivered bundle with a requirement that no implemented spec answers for:
\* one whose pin has not been outrun and whose mandated tests all exist.  Two
\* decoders have to accept the front matter for that: a bundle without a record
\* is not looked at, and a spec whose promises are not read mandates nothing.
MergedIsDelivered ==
  changed = {} =>
    \A b \in DeliveredBundles : \A q \in ReqIds(tree.bundle[b]) :
      \E s \in DOMAIN tree.spec :
        /\ tree.spec[s].status = "implemented"
        /\ PinsAt(s, b, q, LAMBDA v : ~Stale(StalePinVerdict(v, Current(b, q))))
        /\ parseSpecFrontmatter(tree.spec[s]) =>
             OwnTests(tree.spec[s]) \subseteq
               {t \in Tests : tree.tests[t] # "absent"} \cup PackClaims

\* A run over the whole project promises more.  It is red unless the pin is a
\* version the requirement really had, at the current major and minor; the
\* spec mandates a test; and every test it mandates exists and is not known to
\* fail.  The validators look at each block the decoders need, so the tests are
\* out of sight only if a value they do not look at has another type.
SweepIsTotal ==
  (\E b \in DeliveredBundles : \E q \in ReqIds(tree.bundle[b]) :
      ~\E s \in DOMAIN tree.spec :
        /\ tree.spec[s].status = "implemented"
        /\ PinsAt(s, b, q, LAMBDA v : /\ Len(v) = 3
                                      /\ v[1] = Current(b, q)[1] /\ v[2] = Current(b, q)[2])
        /\ OwnTests(tree.spec[s]) # {}
        /\ "promises" \in tree.spec[s].fits =>
             \A t \in OwnTests(tree.spec[s]) \cap Tests :
               /\ t \in PackClaims \/ tree.tests[t] # "absent"
               /\ toolchain.verdict => tree.tests[t] # "failing")
  => ~Green(tree, AllFiles)

\* A closed issue is backed by a completed plan written for it, by its own
\* tests, or by a reference to work done elsewhere.  Of a plan or an issue without
\* a record the tests are not looked for.
Backed(i) ==
  LET a == tree.issue[i]
  IN \/ /\ a.delivered \in DOMAIN tree.plan
        /\ tree.plan[a.delivered].status = "completed"
        /\ tree.plan[a.delivered].source = i
        /\ "record" \in tree.plan[a.delivered].fits =>
             planMandatedTests(tree, a.delivered) \subseteq ResolvePresentTestNames(tree)
     \/ a.resolved \in {"external", "found"}
     \/ /\ OwnTests(a) # {}
        /\ "record" \in a.fits => OwnTests(a) \subseteq ResolvePresentTestNames(tree)

\* An issue that is closed and not backed turns the run over the whole
\* project red, whoever touched the issue, its plan or the tests last.
ClosedIsBacked ==
  (\E i \in DOMAIN tree.issue : tree.issue[i].status = "closed" /\ ~Backed(i))
  => ~Green(tree, AllFiles)

\* A pin that traceability calls stale is older than the requirement, never
\* newer, so that "re-pin" always moves forward; otherwise an artifact does
\* not validate.
StaleMeansOlder ==
  (\E r \in LiveRefs(tree) :
      LET current == Current(r.bundle, r.req)
      IN Stale(StalePinVerdict(r.version, current)) /\ compareSemver(r.version, current) >= 0)
  => LET v == ValidateArtifacts(tree) IN v.config \/ v.findings # {}

\* The tree after somebody did what the finding f asks for.
WithFreshSpec(b, q) ==
  [tree EXCEPT !.spec = [s \in DOMAIN tree.spec \cup {FreshSpec} |->
     IF s # FreshSpec THEN tree.spec[s]
     ELSE [kind |-> "spec", parses |-> TRUE, malformed |-> {}, status |-> "implemented",
           pointer |-> "absent", verification |-> "map", level |-> "unit", threshold |-> 90,
           command |-> TRUE, implementation |-> "map", subject |-> TRUE, reqForm |-> "list",
           reqs |-> <<[id |-> "R1", supForm |-> "list",
                       supports |-> {[bundle |-> b, req |-> q, version |-> Current(b, q)]}]>>,
           claimForm |-> "list", claims |-> <<>>, contractForm |-> "list", contracts |-> <<>>,
           fits |-> Readers]]]

\* The pin p, moved to the current version if it is one of (b, q).
Moved(p, b, q) == IF p.bundle = b /\ p.req = q THEN [p EXCEPT !.version = Current(b, q)] ELSE p

RePinned(c, b, q) ==
  LET k == KindOf(tree, c)
      reqs == tree[k][c].reqs
  IN [tree EXCEPT ![k][c].reqs = [i \in DOMAIN reqs |->
        [reqs[i] EXCEPT !.supports = {Moved(p, b, q) : p \in reqs[i].supports}]]]

Remedied(f) ==
  CASE f.remedy = "implement_spec"            -> [tree EXCEPT !.spec[f.at].status = "implemented"]
    [] f.remedy \in {"re_pin", "resolve_upstream"} -> RePinned(f.via, f.bundle, f.req)
    [] OTHER                                  -> WithFreshSpec(f.bundle, f.req)

\* What tells a finding from the others.
Identity(f) == <<f.gap, f.bundle, f.req, f.at>>

\* Each traceability finding names its remedy; doing it removes that finding
\* and raises no other one, so a project can always be worked out of red.  A
\* plan's finding may go on to name another of the stale pins it named one of.
RemedyClosesGap ==
  LET findings == ClassifyRequirementTraceability(tree)
  IN \A f \in findings : \A g \in ClassifyRequirementTraceability(Remedied(f)) :
       /\ Identity(g) # Identity(f)
       /\ \/ g \in findings
          \/ /\ g.gap = "chain_outrun"
             /\ \E h \in findings : h.gap = "chain_outrun" /\ h.at = g.at
             /\ \E h \in findings : /\ h.gap = "stale_pin" /\ h.at = g.via
                                    /\ h.bundle = g.bundle /\ h.req = g.req

\* SPEC-018: a diff-scoped run validates the artifacts of the diff.
ChangedArtifactIsValidated ==
  LET v == ValidateArtifacts(tree)
  IN \A f \in v.findings :
       (\E k \in Kinds : Path(k, f.file) \in changed) =>
         ~Green(tree, DiffOf(changed))
==============================================================================
