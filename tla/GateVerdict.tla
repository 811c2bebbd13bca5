----------------------------- MODULE GateVerdict -----------------------------
(***************************************************************************)
(* What the gate decides from findings: the verdict of a step, the         *)
(* comparison with a baseline, the adjudication of inline waivers, and the *)
(* per-dimension enforcement policy (pkg/gate and pkg/waiver).             *)
(***************************************************************************)
EXTENDS Naturals

CONSTANTS
  None,         \* no file, no baseline, no policy entry
  Findings,     \* what the steps can report
  Attr,         \* the fields of each finding
  Files,        \* files of the project
  Rules,        \* rule ids
  Packs,        \* packs a finding can come from
  Ids,          \* identity hashes (rule, file and region; not the line)
  NonWaivable,  \* the rules a pack declares non-waivable
  KnownRules    \* rules of packs in backstop.lock; others are unbound

LockStep == "pack_lock_verification"
WaiverStep == "waiver_resolution"
BaselineStep == "baseline_comparison"
LedgerStep == "ledger_integrity"

MetaSteps == {LockStep, WaiverStep, LedgerStep}
WaivableSteps == {"pack_engines", "test_substantiveness"}
CoverageStep == "coverage_threshold"
FullSweepSteps ==
  {"artifact_status_drift", "artifact_status_drift_advisory",
   "requirement_traceability", "requirement_traceability_advisory"}

FilteredSteps == {"artifact_validation", "pack_engines"}
AdvisorySteps == {"artifact_status_drift_advisory", "requirement_traceability_advisory"}

(* The order buildGateStepsWithSandbox wires the steps in. *)
StepOrder ==
  <<LockStep, "artifact_validation", "pack_engines", "test_verification",
    "test_substantiveness", CoverageStep, "contract_signature",
    "artifact_status_drift", "artifact_status_drift_advisory",
    "requirement_traceability", "requirement_traceability_advisory",
    WaiverStep, BaselineStep, LedgerStep>>

StepNames == {StepOrder[i] : i \in 1..14}
Statuses == {"pass", "fail", "warning", "skipped"}

(* The steps that report findings of the project: the lock either verifies  *)
(* or ends the run with a configuration error, and the other meta steps    *)
(* look at what these report.                                              *)
FindingSteps == StepNames \ (MetaSteps \union {BaselineStep})

(* cause: the file whose edit makes the finding appear or go away; it is    *)
(* not the reported file for a finding of a full-sweep step.               *)
Attributes ==
  [step : FindingSteps, rule : Rules, file : Files \union {None}, cause : Files,
   line : Nat, id : Ids, warning : BOOLEAN, pack : Packs, wide : BOOLEAN]

Tokens == [file : Files, line : Nat \ {0}, rule : Rules, expiry : Nat, ok : BOOLEAN]

Results == [step : StepNames, status : Statuses, found : SUBSET Findings, cfgerr : BOOLEAN]

Scopes == [mode : {"all", "diff", "file"}, files : SUBSET Files]

Rows == [level : {"off", "warn", "block", ""}, applies : {"new-code", "all-code", ""}]

DimensionPolicies ==
  [level : {"off", "warn", "block", ""}, applies : {"new-code", "all-code", ""},
   sources : [Packs -> {None} \union Rows]]

Policies == [StepNames -> {None} \union DimensionPolicies]

ASSUME GateVerdictAssumption ==
  /\ Attr \in [Findings -> Attributes]
  /\ \A f, g \in Findings : Attr[f].id = Attr[g].id =>
       Attr[f].rule = Attr[g].rule /\ Attr[f].file = Attr[g].file /\ Attr[f].wide = Attr[g].wide
  /\ NonWaivable \subseteq Rules /\ KnownRules \subseteq Rules
  /\ None \notin Files /\ \A r \in Rows : r # None

-----------------------------------------------------------------------------
(* Severity *)

Blocks(f) == ~Attr[f].warning

(* Mutation: every finding counts, a warning too. *)
StepVerdictBySize(V) == IF V = {} THEN "pass" ELSE "fail"

StepVerdict(V) ==
  IF V = {} THEN "pass" ELSE IF \E f \in V : Blocks(f) THEN "fail" ELSE "warning"

(* The coverage step has its own mapping: its notices leave it passing. *)
OwnVerdict(s, V) ==
  IF s = CoverageStep /\ StepVerdict(V) = "warning" THEN "pass" ELSE StepVerdict(V)

-----------------------------------------------------------------------------
(* Scope *)

(* filterViolations *)
InScope(scope, f) == scope.mode = "all" \/ Attr[f].wide \/ Attr[f].file \in scope.files

(* Mutation: the ratchet does not revoke. *)
ScopeTouchesNothing(scope, f) == FALSE

(* scopeTouches: the file was put into an explicit scope by its author. *)
ScopeTouches(scope, f) == scope.mode \in {"diff", "file"} /\ Attr[f].file \in scope.files

(* The findings of code a step reports.  The full-sweep steps look at every *)
(* artifact; artifact_validation and pack_engines pass what they have      *)
(* through filterViolations; the others skip what lies in a file out of    *)
(* scope, so a finding about the step itself, without a file, stays.       *)
Reported(s, code, scope) ==
  {f \in code : /\ Attr[f].step = s
                /\ \/ s \in FullSweepSteps \/ InScope(scope, f)
                   \/ s \notin FilteredSteps /\ Attr[f].file = None}

-----------------------------------------------------------------------------
(* Baseline *)

(* isExistingCodeViolation *)
ExistingCode(f, changed) == changed = {} \/ (Attr[f].file # None /\ Attr[f].file \notin changed)

Grandfathers(base, scope, f) == Attr[f].id \in base /\ ~ScopeTouches(scope, f)

(* CompareBaseline: the violations beyond the baseline. *)
NewBeyond(V, base, scope, seeding, changed) ==
  {f \in V : /\ InScope(scope, f)
             /\ ~Grandfathers(base, scope, f)
             /\ ~(seeding /\ scope.mode = "all" /\ ExistingCode(f, changed))}

(* NewBaselineArtifactFromSteps over a full-scope run. *)
BaselineOf(code) == {Attr[f].id : f \in code}

-----------------------------------------------------------------------------
(* Waivers *)

SurfaceSteps == WaivableSteps \union {CoverageStep}

(* A coverage finding has no line: its waiver stands on the first one. *)
KeyLine(f) == IF Attr[f].step = CoverageStep THEN 1 ELSE Attr[f].line

FindingKey(f) == <<Attr[f].file, KeyLine(f), Attr[f].rule>>

(* windowLines: the finding's own line and the one above. *)
InWindow(t, f) == t.file = Attr[f].file /\ KeyLine(f) \in {t.line, t.line + 1}

Matched(t, V) == {f \in V : InWindow(t, f) /\ Attr[f].rule = t.rule}

Expired(t, now) == now >= t.expiry

Harvested(V, tokens) == {t \in tokens : \E f \in V : InWindow(t, f)}

Refused(V, tokens) ==
  {t \in Harvested(V, tokens) : ~t.ok \/ (Matched(t, V) # {} /\ t.rule \in NonWaivable)}

ActiveWaivers(V, tokens, now) ==
  {t \in Harvested(V, tokens) \ Refused(V, tokens) : Matched(t, V) # {} /\ ~Expired(t, now)}

SuppressedKeys(V, tokens, now) ==
  {FindingKey(f) : f \in UNION {Matched(t, V) : t \in ActiveWaivers(V, tokens, now)}}

(* computeWaiverResult on one accumulated result. *)
Subtracted(r, keys) ==
  LET kept == {f \in r.found : FindingKey(f) \notin keys} IN
  IF r.step \notin SurfaceSteps THEN r
  ELSE [r EXCEPT !.found = kept,
                 !.status = IF kept = {} /\ @ = "fail" THEN "pass"
                            ELSE IF kept # r.found /\ @ = "fail" /\ ~r.cfgerr
                            THEN StepVerdict(kept) ELSE @]

(* The status of the waiver step: malformed and non-waivable tokens are     *)
(* errors, unbound ones warnings.                                          *)
WaiverVerdict(V, tokens) ==
  IF Refused(V, tokens) # {} THEN "fail"
  ELSE IF \E t \in tokens : t.ok /\ t.rule \notin KnownRules THEN "warning" ELSE "pass"

-----------------------------------------------------------------------------
(* Enforcement policy *)

NoPolicy == [s \in StepNames |-> None]

LevelOf(row) == IF row.level = "" THEN "block" ELSE row.level

(* The row for a finding: the override of its pack, or the dimension's. *)
RowOf(p, f) == IF p.sources[Attr[f].pack] = None THEN p ELSE p.sources[Attr[f].pack]

(* Mutation: without a baseline nothing is new. *)
CountedFailsOpen(p, V, base, scope) ==
  {f \in V : /\ LevelOf(RowOf(p, f)) # "off"
             /\ (RowOf(p, f).applies = "new-code") =>
                   base # None /\ f \in NewBeyond(V, base, scope, FALSE, {})}

(* What still counts after grandfathering; a missing baseline grandfathers  *)
(* nothing.                                                                *)
Counted(p, V, base, scope) ==
  {f \in V : /\ LevelOf(RowOf(p, f)) # "off"
             /\ (RowOf(p, f).applies = "new-code" /\ base # None) =>
                   \E g \in NewBeyond(V, base, scope, FALSE, {}) : Attr[g].id = Attr[f].id}

PolicyVerdict(p, counted) ==
  IF \E f \in counted : Blocks(f) /\ LevelOf(RowOf(p, f)) = "block" THEN "fail"
  ELSE IF counted # {} THEN "warning" ELSE "pass"

(* ApplyPolicy and applyScopedPolicy on one result. *)
Policied(r, base, policy, scope) ==
  LET p == policy[r.step] IN
  IF policy = NoPolicy THEN r
  ELSE IF r.step = BaselineStep THEN [r EXCEPT !.status = "skipped", !.found = {}]
  ELSE IF p = None \/ r.step \in MetaSteps \/ r.cfgerr \/ r.status = "skipped" THEN r
  ELSE IF LevelOf(p) = "off" THEN [r EXCEPT !.status = "skipped", !.found = {}]
  ELSE [r EXCEPT !.status = PolicyVerdict(p, Counted(p, r.found, base, scope))]
=============================================================================
