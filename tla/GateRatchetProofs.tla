--------------------------- MODULE GateRatchetProofs ---------------------------
(***************************************************************************)
(* A verdict means what it should, for any findings, waivers, policy,      *)
(* baseline and history, and the ratchet on main follows from that.        *)
(*                                                                         *)
(* While a gate runs, a step's result is first what the step reports (Raw) *)
(* and, once the waivers are reconciled, what they left of it (Settled).   *)
(* The policy pass fails a settled result exactly if a finding offends.    *)
(***************************************************************************)
EXTENDS GateRatchet, TLAPS

-----------------------------------------------------------------------------
(* The order of the steps: eleven that inspect the project, then the        *)
(* waivers, the baseline and the ledger.                                   *)
LEMMA StepOrderFacts ==
  /\ Len(StepOrder) = 14
  /\ StepOrder[12] = WaiverStep /\ StepOrder[13] = BaselineStep /\ StepOrder[14] = LedgerStep
  /\ \A i \in 1..14 : StepOrder[i] \in StepNames
  /\ \A i \in 1..11 : StepOrder[i] \notin {WaiverStep, BaselineStep, LedgerStep}
BY DEF StepOrder, StepNames, WaiverStep, BaselineStep, LedgerStep, LockStep, CoverageStep

(* Findings are reported by one of the eleven. *)
LEMMA FindingStepsRun ==
  /\ \A s \in FindingSteps : \E i \in 1..11 : s = StepOrder[i]
  /\ SurfaceSteps \subseteq FindingSteps /\ FindingSteps \subseteq StepNames
  /\ FindingSteps \intersect (MetaSteps \union {BaselineStep}) = {}
  /\ StepNames = FindingSteps \union MetaSteps \union {BaselineStep}
<1>1. \A s \in FindingSteps : \E i \in 1..11 : s = StepOrder[i]
  BY DEF StepOrder, StepNames, FindingSteps, MetaSteps, WaiverStep, BaselineStep, LedgerStep,
         LockStep, CoverageStep
<1>2. SurfaceSteps \subseteq FindingSteps
  BY DEF SurfaceSteps, WaivableSteps, StepOrder, StepNames, FindingSteps, MetaSteps, WaiverStep,
         BaselineStep, LedgerStep, LockStep, CoverageStep
<1>3. MetaSteps \subseteq StepNames /\ BaselineStep \in StepNames
  BY DEF StepOrder, StepNames, MetaSteps, WaiverStep, BaselineStep, LedgerStep, LockStep,
         CoverageStep
<1> QED
  BY <1>1, <1>2, <1>3 DEF FindingSteps

(* A finding is reported by its own step. *)
LEMMA ReportedFacts ==
  ASSUME NEW s, NEW f \in Reported(s, code, scope), TypeOK
  PROVE  /\ f \in code /\ f \in Findings /\ Attr[f] \in Attributes /\ Attr[f].step = s
         /\ s \in FindingSteps
BY GateVerdictAssumption DEF Reported, TypeOK, Attributes

(* A step fails over blocking findings, and over nothing else. *)
LEMMA VerdictFacts ==
  ASSUME NEW s, NEW V
  PROVE  /\ StepVerdict(V) \in Statuses /\ OwnVerdict(s, V) \in Statuses
         /\ StepVerdict(V) = "fail" <=> \E f \in V : Blocks(f)
         /\ OwnVerdict(s, V) = "fail" <=> \E f \in V : Blocks(f)
         /\ StepVerdict(V) # "skipped" /\ OwnVerdict(s, V) # "skipped"
BY DEF StepVerdict, OwnVerdict, Statuses

-----------------------------------------------------------------------------
(* Waivers *)

(* What the waivable steps report. *)
Surface == UNION {Reported(s, code, scope) : s \in SurfaceSteps}

(* The keys the waivers in force take off the results. *)
Keys == SuppressedKeys(Surface, tokens, at)

(* Whatever finding is in reach of a token with its rule: the key of the    *)
(* finding is suppressed exactly if a waiver shields it.                   *)
LEMMA SuppressedIsShielded ==
  ASSUME TypeOK, NEW f \in Surface
  PROVE  FindingKey(f) \in Keys <=> Shielded(f)
<1>0. f \in Findings /\ Attr[f].step \in SurfaceSteps
  <2>1. PICK s \in SurfaceSteps : f \in Reported(s, code, scope)
    BY DEF Surface
  <2> QED
    BY <2>1, ReportedFacts
<1>1. ASSUME FindingKey(f) \in Keys PROVE Shielded(f)
  <2>1. PICK t \in ActiveWaivers(Surface, tokens, at) :
          \E g \in Matched(t, Surface) : FindingKey(g) = FindingKey(f)
    BY <1>1 DEF Keys, SuppressedKeys
  <2>2. PICK g \in Matched(t, Surface) : FindingKey(g) = FindingKey(f)
    BY <2>1
  <2>3. Attr[g].file = Attr[f].file /\ KeyLine(g) = KeyLine(f) /\ Attr[g].rule = Attr[f].rule
    BY <2>2 DEF FindingKey
  <2>4. /\ t \in tokens /\ t.ok /\ t.rule \notin NonWaivable /\ ~Expired(t, at)
    BY <2>1, <2>2 DEF ActiveWaivers, Refused, Harvested
  <2>5. InWindow(t, f) /\ t.rule = Attr[f].rule
    BY <2>2, <2>3 DEF Matched, InWindow
  <2>6. at < t.expiry
    <3>1. t.expiry \in Nat /\ at \in Nat
      BY <2>4, GateRatchetAssumption DEF TypeOK, Tokens
    <3> QED
      BY <2>4, <3>1 DEF Expired
  <2> QED
    BY <1>0, <2>4, <2>5, <2>6 DEF Shielded
<1>2. ASSUME Shielded(f) PROVE FindingKey(f) \in Keys
  <2>1. PICK t \in tokens : t.ok /\ t.rule = Attr[f].rule /\ InWindow(t, f) /\ at < t.expiry
    BY <1>2 DEF Shielded
  <2>2. t.expiry \in Nat /\ at \in Nat
    BY <2>1, GateRatchetAssumption DEF TypeOK, Tokens
  <2>3. f \in Matched(t, Surface) /\ t \in Harvested(Surface, tokens)
    BY <2>1 DEF Matched, Harvested
  <2>4. t \notin Refused(Surface, tokens)
    BY <1>2, <2>1 DEF Refused, Shielded
  <2>5. t \in ActiveWaivers(Surface, tokens, at)
    BY <2>1, <2>2, <2>3, <2>4 DEF ActiveWaivers, Expired
  <2> QED
    BY <2>3, <2>5 DEF Keys, SuppressedKeys
<1> QED
  BY <1>1, <1>2

(* The result of a step before the waivers. *)
Raw(r, s) ==
  /\ r \in Results /\ r.step = s /\ ~r.cfgerr
  /\ r.found = Reported(s, code, scope) /\ r.status = OwnVerdict(s, r.found)

(* The result of a step after the waivers: findings no waiver shields, all  *)
(* the blocking ones among them, and a status that says whether there are  *)
(* any of these.                                                           *)
Settled(r, s) ==
  /\ r \in Results /\ r.step = s /\ ~r.cfgerr
  /\ r.found \subseteq Reported(s, code, scope)
  /\ \A f \in r.found : ~Shielded(f)
  /\ \A f \in Reported(s, code, scope) : Blocks(f) /\ ~Shielded(f) => f \in r.found
  /\ r.status = "fail" <=> \E f \in r.found : Blocks(f)
  /\ r.status # "skipped"

(* computeWaiverResult settles every result. *)
LEMMA SubtractedSettles ==
  ASSUME TypeOK, NEW r, NEW s, Raw(r, s)
  PROVE  Settled(Subtracted(r, Keys), s)
<1>0. /\ r \in Results /\ r.step = s /\ r.cfgerr = FALSE /\ r.found = Reported(s, code, scope)
      /\ r.status = OwnVerdict(s, r.found)
  BY DEF Raw, Results
<1>1. /\ r.status = "fail" <=> \E f \in r.found : Blocks(f)
      /\ r.status # "skipped" /\ r.status \in Statuses
  BY <1>0, VerdictFacts
<1>2. CASE s \notin SurfaceSteps
  <2>1. Subtracted(r, Keys) = r
    BY <1>0, <1>2 DEF Subtracted
  <2>2. \A f \in r.found : ~Shielded(f)
    BY <1>0, <1>2, ReportedFacts DEF Shielded
  <2> QED
    BY <1>0, <1>1, <2>1, <2>2 DEF Settled
<1>3. CASE s \in SurfaceSteps
  <2> DEFINE kept == {f \in r.found : FindingKey(f) \notin Keys}
  <2> DEFINE q == [r EXCEPT !.found = kept,
                            !.status = IF kept = {} /\ @ = "fail" THEN "pass"
                                       ELSE IF kept # r.found /\ @ = "fail" /\ ~r.cfgerr
                                       THEN StepVerdict(kept) ELSE @]
  <2>1. Subtracted(r, Keys) = q
    BY <1>0, <1>3 DEF Subtracted
  <2>2. \A f \in r.found : FindingKey(f) \in Keys <=> Shielded(f)
    BY <1>0, <1>3, SuppressedIsShielded DEF Surface
  <2>3. \A f \in r.found : f \in kept <=> ~Shielded(f)
    BY <2>2
  <2>4. kept \subseteq r.found /\ r.found \subseteq Findings
    BY <1>0, ReportedFacts
  <2> HIDE DEF kept
  <2>5. /\ StepVerdict(kept) \in Statuses /\ StepVerdict(kept) # "skipped"
        /\ StepVerdict(kept) = "fail" <=> \E f \in kept : Blocks(f)
    BY VerdictFacts
  <2>6. /\ q.found = kept /\ q.step = s /\ q.cfgerr = FALSE
        /\ q.status = IF kept = {} /\ r.status = "fail" THEN "pass"
                      ELSE IF kept # r.found /\ r.status = "fail" /\ ~r.cfgerr
                      THEN StepVerdict(kept) ELSE r.status
    BY <1>0 DEF Results
  <2>7. q.status \in Statuses /\ q.status # "skipped"
    BY <1>1, <2>5, <2>6 DEF Statuses
  <2>8. q \in Results
    BY <1>0, <1>1, <2>4, <2>5 DEF Results, Statuses
  <2>9. q.status = "fail" <=> \E f \in kept : Blocks(f)
    BY <1>0, <1>1, <2>4, <2>5, <2>6
  <2> HIDE DEF q
  <2> QED
    BY <1>0, <2>1, <2>3, <2>4, <2>6, <2>7, <2>8, <2>9 DEF Settled
<1> QED
  BY <1>2, <1>3

-----------------------------------------------------------------------------
(* The policy *)

(* Without a policy there is no entry for any dimension. *)
LEMMA NoEntries == policy = NoPolicy => \A s \in StepNames : policy[s] = None
BY DEF NoPolicy

(* The row that decides about a finding, and its level. *)
LEMMA RowFacts ==
  ASSUME NEW p \in DimensionPolicies, NEW f \in Findings
  PROVE  LevelOf(RowOf(p, f)) \in {"off", "warn", "block"}
<1>1. Attr[f].pack \in Packs
  BY GateVerdictAssumption DEF Attributes
<1>2. /\ p.sources[Attr[f].pack] \in {None} \union Rows
      /\ p.level \in {"off", "warn", "block", ""}
  BY <1>1 DEF DimensionPolicies
<1>3. CASE p.sources[Attr[f].pack] = None
  BY <1>2, <1>3 DEF RowOf, LevelOf
<1>4. CASE p.sources[Attr[f].pack] # None
  <2>1. RowOf(p, f) = p.sources[Attr[f].pack] /\ RowOf(p, f) \in Rows
    BY <1>2, <1>4 DEF RowOf
  <2>2. RowOf(p, f).level \in {"off", "warn", "block", ""}
    BY <2>1 DEF Rows
  <2> QED
    BY <2>2 DEF LevelOf
<1> QED
  BY <1>3, <1>4

(* Grandfathering goes by identity: a finding that counts because another   *)
(* one with its identity is new is itself not excused.                     *)
LEMMA CountedIsNotExcused ==
  ASSUME TypeOK, NEW p \in DimensionPolicies, NEW V \in SUBSET Findings, NEW f \in V,
         Dimension(f) = p, p # None
  PROVE  f \in Counted(p, V, base, scope) <=> LevelOf(RowOf(p, f)) # "off" /\ ~Excused(f)
<1>0. scope.mode \in {"all", "diff", "file"}
  BY DEF TypeOK, Scopes
<1>1. \A g \in V : Attr[g].id = Attr[f].id =>
        Attr[g].file = Attr[f].file /\ Attr[g].wide = Attr[f].wide
  BY GateVerdictAssumption
<1>2. \A g \in V : g \in NewBeyond(V, base, scope, FALSE, {}) <=>
        InScope(scope, g) /\ ~Grandfathers(base, scope, g)
  BY DEF NewBeyond
<1>3. \A g \in V : Attr[g].id = Attr[f].id =>
        /\ InScope(scope, g) <=> InScope(scope, f)
        /\ Grandfathers(base, scope, g) <=> Grandfathers(base, scope, f)
  BY <1>1 DEF InScope, Grandfathers, ScopeTouches
<1>4. (\E g \in NewBeyond(V, base, scope, FALSE, {}) : Attr[g].id = Attr[f].id)
        <=> InScope(scope, f) /\ ~Grandfathers(base, scope, f)
  <2>1. NewBeyond(V, base, scope, FALSE, {}) \subseteq V
    BY DEF NewBeyond
  <2> QED
    BY <1>2, <1>3, <2>1
<1>5. (Attr[f].id \in base /\ (scope.mode = "all" \/ Attr[f].file \notin scope.files))
        <=> Grandfathers(base, scope, f)
  BY <1>0 DEF Grandfathers, ScopeTouches
<1> QED
  BY <1>4, <1>5 DEF Counted, Excused

(* After the policy a settled result fails exactly if one of the blocking   *)
(* findings offends, and it is no configuration error.                     *)
LEMMA PolicyIsExact ==
  ASSUME TypeOK, NEW s \in StepNames, s # BaselineStep, NEW r, Settled(r, s)
  PROVE  LET q == Policied(r, base, policy, scope) IN
         /\ ~q.cfgerr
         /\ q.status = "fail" <=> \E f \in Reported(s, code, scope) : Blocks(f) /\ Offends(f)
<1> DEFINE V == Reported(s, code, scope)
<1> DEFINE p == policy[s]
<1> DEFINE q == Policied(r, base, policy, scope)
<1>0. /\ r \in Results /\ r.step = s /\ r.cfgerr = FALSE /\ r.found \subseteq V
      /\ r.status # "skipped" /\ (r.status = "fail" <=> \E f \in r.found : Blocks(f))
      /\ \A f \in V : Blocks(f) => (f \in r.found <=> ~Shielded(f))
  BY DEF Settled, Results
<1>1. V \subseteq Findings /\ \A f \in V : Attr[f].step = s /\ Dimension(f) = p /\ f \in code
  BY ReportedFacts DEF Dimension
<1>2. p \in {None} \union DimensionPolicies
  BY DEF TypeOK, Policies
<1>3. \A f \in V : Offends(f) <=> ~Shielded(f) /\ ~Relaxed(f) /\ ~Excused(f)
  BY <1>1 DEF Offends
<1> HIDE DEF V
<1>4. CASE q = r /\ (p = None \/ V = {})
  <2>1. \A f \in V : ~Relaxed(f) /\ ~Excused(f)
    BY <1>1, <1>4 DEF Relaxed, Excused
  <2> QED
    BY <1>0, <1>3, <1>4, <2>1 DEF V
<1>5. CASE policy = NoPolicy
  BY <1>0, <1>4, <1>5, NoEntries DEF Policied
<1>6. CASE policy # NoPolicy /\ p = None
  BY <1>0, <1>4, <1>6 DEF Policied
<1>7. CASE policy # NoPolicy /\ s \in MetaSteps
  <2>1. V = {}
    BY ReportedFacts, FindingStepsRun, <1>7 DEF V
  <2> QED
    BY <1>0, <1>4, <1>7, <2>1 DEF Policied
<1>8. CASE policy # NoPolicy /\ p # None /\ s \notin MetaSteps /\ LevelOf(p) = "off"
  <2>1. q = [r EXCEPT !.status = "skipped", !.found = {}]
    BY <1>0, <1>8 DEF Policied
  <2>2. q.status = "skipped" /\ q.cfgerr = FALSE
    BY <1>0, <2>1 DEF Results
  <2>3. \A f \in V : Relaxed(f)
    BY <1>1, <1>8 DEF Relaxed
  <2> QED
    BY <1>3, <2>2, <2>3 DEF V
<1>9. CASE policy # NoPolicy /\ p # None /\ s \notin MetaSteps /\ LevelOf(p) # "off"
  <2> DEFINE counted == Counted(p, r.found, base, scope)
  <2>1. q = [r EXCEPT !.status = PolicyVerdict(p, counted)]
    BY <1>0, <1>9 DEF Policied
  <2>2. q.status = PolicyVerdict(p, counted) /\ q.cfgerr = FALSE
    BY <1>0, <2>1 DEF Results
  <2>3. counted \subseteq r.found
    BY DEF Counted
  <2>4. \A f \in r.found : f \in counted <=> LevelOf(RowOf(p, f)) # "off" /\ ~Excused(f)
    BY <1>0, <1>1, <1>2, <1>9, CountedIsNotExcused
  <2>5. \A f \in r.found : LevelOf(RowOf(p, f)) = "block" <=> ~Relaxed(f)
    BY <1>0, <1>1, <1>2, <1>9, RowFacts DEF Relaxed
  <2> HIDE DEF counted, p, q
  <2>6. PolicyVerdict(p, counted) = "fail" <=>
          \E f \in counted : Blocks(f) /\ LevelOf(RowOf(p, f)) = "block"
    BY DEF PolicyVerdict
  <2>7. q.status = "fail" <=> \E f \in r.found : Blocks(f) /\ ~Relaxed(f) /\ ~Excused(f)
    BY <2>2, <2>3, <2>4, <2>5, <2>6
  <2> QED
    BY <1>0, <1>3, <2>2, <2>7 DEF V, q
<1> QED
  BY <1>2, <1>5, <1>6, <1>7, <1>8, <1>9

-----------------------------------------------------------------------------
(* A gate run *)

(* The waiver step fails over refused waivers. *)
WaiversSettled(r) ==
  r.step = WaiverStep /\ ~r.cfgerr /\ (r.status = "fail" <=> Refusals # {})

(* The comparison fails over a finding that no waiver shields and that the  *)
(* baseline does not have.                                                 *)
BaselineSettled(r) ==
  /\ r \in Results /\ r.step = BaselineStep /\ ~r.cfgerr
  /\ r.status = "fail" =>
       base # None /\ \E f \in code : ~Shielded(f) /\ ~Grandfathers(base, scope, f)

(* The results accumulated so far, one per step done. *)
RunInv ==
  pc # 0 =>
    /\ exit = None /\ Len(results) = pc - 1
    /\ pc <= 12 => \A i \in 1..(pc - 1) : Raw(results[i], StepOrder[i])
    /\ pc > 12 => /\ \A i \in 1..11 : Settled(results[i], StepOrder[i])
                  /\ WaiversSettled(results[12])
    /\ pc > 13 => BaselineSettled(results[13])

GateInv == TypeOK /\ RunInv /\ GreenIsEarned /\ RedIsEarned

(* What a verdict is about. *)
subject == <<code, tokens, scope, base, at, policy>>

(* What is said of a finding or a result is about the subject only. *)
LEMMA SubjectDecides ==
  ASSUME UNCHANGED subject
  PROVE  /\ \A f : (Shielded(f)' <=> Shielded(f)) /\ (Offends(f)' <=> Offends(f))
         /\ Refusals' = Refusals
         /\ \A r, s : (Raw(r, s)' <=> Raw(r, s)) /\ (Settled(r, s)' <=> Settled(r, s))
         /\ \A r : (WaiversSettled(r)' <=> WaiversSettled(r))
                   /\ (BaselineSettled(r)' <=> BaselineSettled(r))
<1> USE DEF subject
<1>1. \A f : Shielded(f)' <=> Shielded(f)
  BY DEF Shielded
<1>2. Refusals' = Refusals
  BY DEF Refusals
<1>3. \A f : Offends(f)' <=> Offends(f)
  BY <1>1 DEF Offends, Relaxed, Excused, Dimension
<1>4. \A r, s : Raw(r, s)' <=> Raw(r, s)
  BY DEF Raw
<1>5. \A r, s : Settled(r, s)' <=> Settled(r, s)
  BY <1>1 DEF Settled
<1>6. \A r : (WaiversSettled(r)' <=> WaiversSettled(r)) /\ (BaselineSettled(r)' <=> BaselineSettled(r))
  BY <1>1, <1>2 DEF WaiversSettled, BaselineSettled
<1> QED
  BY <1>1, <1>2, <1>3, <1>4, <1>5, <1>6

(* The results after the policy pass, when all steps have run. *)
Final(rs) == [i \in 1..14 |-> Policied(rs[i], base, policy, scope)]

(* A step's result goes to the end of the results: the run goes on, or the  *)
(* policy pass makes the verdict.                                          *)
LEMMA ContinueEffect ==
  ASSUME TypeOK, RunInv, pc # 0, NEW rs \in Seq(Results), Len(rs) = pc, Continue(rs)
  PROVE  /\ UNCHANGED <<tree, main, store, now, policy, scope, base, at>> /\ UNCHANGED subject
         /\ ~rs[pc].cfgerr /\ pc # 14 => pc' = pc + 1 /\ results' = rs /\ exit' = exit
         /\ rs[pc].cfgerr => pc' = 0 /\ results' = <<>> /\ exit' = 2
         /\ pc = 14 => /\ pc' = 0 /\ results' = <<>>
                       /\ exit' = Verdict(Final(rs))
<1>0. pc \in 1..14 /\ DOMAIN rs = 1..pc /\ Len(StepOrder) = 14
  BY StepOrderFacts DEF TypeOK
<1> DEFINE final == [i \in DOMAIN rs |-> Policied(rs[i], base, policy, scope)]
<1>1. /\ IF rs[pc].cfgerr \/ pc = 14
         THEN pc' = 0 /\ results' = <<>> /\ exit' = Verdict(final)
         ELSE pc' = pc + 1 /\ results' = rs /\ UNCHANGED exit
      /\ UNCHANGED <<tree, main, store, now, policy, scope, base, at>>
  BY <1>0 DEF Continue
<1>2. ASSUME rs[pc].cfgerr PROVE Verdict(final) = 2
  <2>1. rs[pc] \in Results
    BY <1>0
  <2>2. Policied(rs[pc], base, policy, scope).cfgerr
    BY <1>2, <2>1 DEF Policied, Results
  <2>3. pc \in DOMAIN final /\ final[pc].cfgerr
    BY <1>0, <2>2
  <2> QED
    BY <2>3 DEF Verdict
<1>3. UNCHANGED subject
  BY <1>1 DEF subject, tree
<1> HIDE DEF final
<1>4. pc = 14 => final = Final(rs)
  BY <1>0 DEF final, Final
<1> QED
  BY <1>0, <1>1, <1>2, <1>3, <1>4

(* The verdict over the fourteen results of a run that got to the end. *)
LEMMA VerdictIsEarned ==
  ASSUME TypeOK, RunInv, pc = 14, NEW rs,
         \A i \in 1..13 : rs[i] = results[i],
         rs[14].step = LedgerStep, rs[14].status = "skipped", ~rs[14].cfgerr,
         NEW verdict, verdict = Verdict(Final(rs))
  PROVE  /\ verdict = 0 => (\A f \in code : Blocks(f) => ~Offends(f)) /\ Refusals = {}
         /\ verdict = 1 => \/ \E f \in code : Blocks(f) /\ Offends(f)
                           \/ Refusals # {}
                           \/ /\ policy = NoPolicy /\ base # None
                              /\ \E f \in code : ~Shielded(f) /\ ~Grandfathers(base, scope, f)
<1> DEFINE final == Final(rs)
<1>0. /\ DOMAIN final = 1..14
      /\ \A i \in 1..14 : final[i] = Policied(rs[i], base, policy, scope)
  BY DEF Final
<1>a. /\ \A i \in 1..11 : Settled(results[i], StepOrder[i])
      /\ WaiversSettled(results[12]) /\ BaselineSettled(results[13])
  BY DEF RunInv
<1> HIDE DEF final
<1>1. ASSUME NEW i \in 1..11
      PROVE  /\ ~final[i].cfgerr
             /\ final[i].status = "fail" <=>
                  \E f \in Reported(StepOrder[i], code, scope) : Blocks(f) /\ Offends(f)
  <2>0. i \in 1..13 /\ i \in 1..14
    OBVIOUS
  <2>1. Settled(rs[i], StepOrder[i])
    BY <1>a, <2>0
  <2>2. StepOrder[i] \in StepNames /\ StepOrder[i] # BaselineStep
    BY StepOrderFacts
  <2>3. final[i] = Policied(rs[i], base, policy, scope)
    BY <1>0, <2>0
  <2> QED
    BY <2>1, <2>2, <2>3, PolicyIsExact
<1>2. ~final[12].cfgerr /\ (final[12].status = "fail" <=> Refusals # {})
  <2>1. WaiversSettled(rs[12]) /\ final[12] = Policied(rs[12], base, policy, scope)
    BY <1>0, <1>a
  <2>2. Policied(rs[12], base, policy, scope) = rs[12]
    BY <2>1 DEF WaiversSettled, Policied, MetaSteps, WaiverStep, BaselineStep
  <2> QED
    BY <2>1, <2>2 DEF WaiversSettled
<1>3. /\ ~final[13].cfgerr
      /\ final[13].status = "fail" =>
           /\ policy = NoPolicy /\ base # None
           /\ \E f \in code : ~Shielded(f) /\ ~Grandfathers(base, scope, f)
  <2>0. rs[13] = results[13] /\ final[13] = Policied(rs[13], base, policy, scope)
    BY <1>0
  <2>1. BaselineSettled(rs[13]) /\ rs[13] \in Results
    BY <1>a, <2>0 DEF BaselineSettled
  <2>2. CASE policy = NoPolicy
    <3>1. final[13] = rs[13]
      BY <2>0, <2>2 DEF Policied
    <3> QED
      BY <2>1, <2>2, <3>1 DEF BaselineSettled
  <2>3. CASE policy # NoPolicy
    <3>1. final[13] = [rs[13] EXCEPT !.status = "skipped", !.found = {}]
      BY <2>0, <2>1, <2>3 DEF Policied, BaselineSettled
    <3>2. final[13].status = "skipped" /\ final[13].cfgerr = rs[13].cfgerr
      BY <2>1, <3>1 DEF Results
    <3> QED
      BY <2>1, <3>2 DEF BaselineSettled
  <2> QED
    BY <2>2, <2>3
<1>4. ~final[14].cfgerr /\ final[14].status # "fail"
  <2>1. final[14] = Policied(rs[14], base, policy, scope)
    BY <1>0
  <2>2. final[14] = rs[14]
    BY <2>1 DEF Policied, MetaSteps, LedgerStep, BaselineStep
  <2> QED
    BY <2>2
<1>6. \A i \in 1..14 : ~final[i].cfgerr
  <2>1. \A i \in 1..14 : i \in 1..11 \/ i = 12 \/ i = 13 \/ i = 14
    OBVIOUS
  <2> QED
    BY <1>1, <1>2, <1>3, <1>4, <2>1
<1>7. /\ verdict = 0 => \A i \in 1..14 : final[i].status # "fail"
      /\ verdict = 1 => \E i \in 1..14 : final[i].status = "fail"
  <2>1. verdict = Verdict(final)
    BY DEF final
  <2> QED
    BY <1>0, <1>6, <2>1 DEF Verdict
<1>8. ASSUME verdict = 0, NEW f \in code, Blocks(f), Offends(f) PROVE FALSE
  <2>1. f \in Reported(Attr[f].step, code, scope)
    BY <1>8 DEF Offends
  <2>2. PICK i \in 1..11 : Attr[f].step = StepOrder[i]
    BY <2>1, ReportedFacts, FindingStepsRun
  <2>3. f \in Reported(StepOrder[i], code, scope) /\ i \in 1..14
    BY <2>1, <2>2
  <2>4. final[i].status = "fail"
    BY <1>1, <1>8, <2>3
  <2> QED
    BY <1>7, <1>8, <2>3, <2>4
<1>9. ASSUME verdict = 1
      PROVE  \/ \E f \in code : Blocks(f) /\ Offends(f)
             \/ Refusals # {}
             \/ /\ policy = NoPolicy /\ base # None
                /\ \E f \in code : ~Shielded(f) /\ ~Grandfathers(base, scope, f)
  <2>1. PICK i \in 1..14 : final[i].status = "fail"
    BY <1>7, <1>9
  <2>2. CASE i \in 1..11
    BY <1>1, <2>1, <2>2, ReportedFacts
  <2>3. CASE i \in {12, 13, 14}
    BY <1>2, <1>3, <1>4, <2>1, <2>3
  <2> QED
    BY <2>2, <2>3
<1> QED
  BY <1>2, <1>7, <1>8, <1>9

-----------------------------------------------------------------------------
(* Every action keeps the invariant *)

(* The results keep their shape when a step's result is added. *)
LEMMA ContinueTypes ==
  ASSUME TypeOK, RunInv, pc # 0, NEW rs \in Seq(Results), Len(rs) = pc, Continue(rs)
  PROVE  TypeOK'
<1>0. pc \in 1..14 /\ Len(StepOrder) = 14
  BY StepOrderFacts DEF TypeOK
<1>1. UNCHANGED <<tree, main, store, now, policy, scope, base, at>>
  BY ContinueEffect
<1>2. pc' \in 0..14 /\ results' \in Seq(Results) /\ exit' \in {None, 0, 1, 2}
  <2>1. rs[pc] \in Results /\ <<>> \in Seq(Results)
    BY <1>0
  <2>2. Verdict(Final(rs)) \in {0, 1, 2}
    BY DEF Verdict
  <2>3. rs[pc].cfgerr \in BOOLEAN
    BY <2>1 DEF Results
  <2>4. /\ ~rs[pc].cfgerr /\ pc # 14 => pc' = pc + 1 /\ results' = rs /\ exit' = exit
        /\ rs[pc].cfgerr => pc' = 0 /\ results' = <<>> /\ exit' = 2
        /\ pc = 14 => pc' = 0 /\ results' = <<>> /\ exit' = Verdict(Final(rs))
    BY ContinueEffect
  <2>5. exit \in {None, 0, 1, 2}
    BY DEF TypeOK
  <2>6. CASE rs[pc].cfgerr
    BY <2>1, <2>4, <2>6
  <2>7. CASE pc = 14
    BY <2>1, <2>2, <2>4, <2>7
  <2>8. CASE ~rs[pc].cfgerr /\ pc # 14
    BY <1>0, <2>4, <2>5, <2>8
  <2> QED
    BY <2>3, <2>6, <2>7, <2>8
<1> QED
  BY <1>0, <1>1, <1>2 DEF TypeOK, tree, store

(* A result added to the accumulated ones. *)
LEMMA AppendFacts ==
  ASSUME NEW q \in Seq(Results), NEW r \in Results, NEW rs, rs = Append(q, r)
  PROVE  /\ rs \in Seq(Results) /\ Len(rs) = Len(q) + 1 /\ rs[Len(q) + 1] = r
         /\ \A i \in 1..Len(q) : rs[i] = q[i]
OBVIOUS

(* Which step it is. *)
LEMMA StepFacts ==
  ASSUME TypeOK, pc # 0
  PROVE  /\ pc \in 1..14 /\ Step \in StepNames
         /\ Step \notin {WaiverStep, BaselineStep, LedgerStep} => pc \in 1..11
         /\ Step = WaiverStep => pc = 12
         /\ Step = BaselineStep => pc = 13
         /\ Step = LedgerStep => pc = 14
<1>1. pc \in 1..14
  BY StepOrderFacts DEF TypeOK
<1>2. pc \in 1..11 \/ pc = 12 \/ pc = 13 \/ pc = 14
  BY <1>1
<1>3. /\ WaiverStep # BaselineStep /\ WaiverStep # LedgerStep /\ BaselineStep # LedgerStep
  BY DEF WaiverStep, BaselineStep, LedgerStep
<1> QED
  BY <1>1, <1>2, <1>3, StepOrderFacts DEF Step

(* RunStep: one more raw result. *)
LEMMA RunStepKeeps == GateInv /\ RunStep => GateInv'
<1> SUFFICES ASSUME GateInv, RunStep PROVE GateInv'
  OBVIOUS
<1> USE DEF GateInv
<1>0. pc # 0 /\ pc \in 1..11 /\ Step \in StepNames /\ Len(results) = pc - 1
  BY StepFacts DEF RunStep, RunInv
<1> DEFINE V == Reported(Step, code, scope)
<1> DEFINE r == Result(OwnVerdict(Step, V), V, FALSE)
<1>1. V \subseteq Findings
  BY ReportedFacts
<1>2. OwnVerdict(Step, V) \in Statuses
  BY VerdictFacts
<1> HIDE DEF V
<1>3. r \in Results /\ Raw(r, Step) /\ r.cfgerr = FALSE
  BY <1>0, <1>1, <1>2 DEF Result, Results, Raw, V
<1>4. PICK rs : rs = Append(results, r) /\ Continue(rs)
  BY DEF RunStep, V
<1> HIDE DEF r
<1>5. /\ rs \in Seq(Results) /\ Len(rs) = pc /\ rs[pc] = r
      /\ \A i \in 1..(pc - 1) : rs[i] = results[i]
  <2>1. results \in Seq(Results)
    BY DEF TypeOK
  <2>2. /\ rs \in Seq(Results) /\ Len(rs) = Len(results) + 1 /\ rs[Len(results) + 1] = r
        /\ \A i \in 1..Len(results) : rs[i] = results[i]
    BY <1>3, <1>4, <2>1, AppendFacts
  <2> QED
    BY <1>0, <2>2
<1>6. TypeOK'
  BY <1>0, <1>4, <1>5, ContinueTypes
<1>7. /\ pc' = pc + 1 /\ results' = rs /\ exit' = exit /\ UNCHANGED subject
  <2>1. ~rs[pc].cfgerr /\ pc # 14
    BY <1>0, <1>3, <1>5
  <2> QED
    BY <1>0, <1>4, <1>5, <2>1, ContinueEffect
<1>8. \A i \in 1..pc : Raw(rs[i], StepOrder[i])
  <2>1. \A i \in 1..(pc - 1) : Raw(results[i], StepOrder[i])
    BY <1>0 DEF RunInv
  <2>2. Raw(rs[pc], StepOrder[pc])
    BY <1>3, <1>5 DEF Step
  <2>3. \A i \in 1..pc : i \in 1..(pc - 1) \/ i = pc
    BY <1>0
  <2> QED
    BY <1>5, <2>1, <2>2, <2>3
<1>9. RunInv'
  <2>1. exit' = None /\ Len(results') = pc' - 1 /\ pc' \in 2..12
    BY <1>0, <1>5, <1>7 DEF RunInv
  <2>2. \A i \in 1..(pc' - 1) : Raw(results[i], StepOrder[i])'
    <3> SUFFICES ASSUME NEW i \in 1..pc PROVE Raw(results[i], StepOrder[i])'
      BY <1>0, <1>7
    <3> QED
      BY <1>7, <1>8 DEF Raw, subject
  <2>3. ~(pc' > 12) /\ ~(pc' > 13)
    BY <2>1
  <2> QED
    BY <2>1, <2>2, <2>3 DEF RunInv
<1>10. GreenIsEarned' /\ RedIsEarned'
  BY <1>0, <1>7 DEF GreenIsEarned, RedIsEarned, Judged, Idle
<1> QED
  BY <1>6, <1>9, <1>10

(* FailStep: the run ends with a configuration error. *)
LEMMA FailStepKeeps == GateInv /\ FailStep => GateInv'
<1> SUFFICES ASSUME GateInv, FailStep PROVE GateInv'
  OBVIOUS
<1> USE DEF GateInv
<1>0. pc # 0 /\ pc \in 1..11 /\ Step \in StepNames /\ Len(results) = pc - 1
  BY StepFacts DEF FailStep, RunInv
<1> DEFINE V == IF Step = "pack_engines" THEN Reported(Step, code, scope) ELSE {}
<1> DEFINE r == Result("fail", V, TRUE)
<1>1. V \subseteq Findings
  BY ReportedFacts
<1> HIDE DEF V
<1>3. r \in Results /\ r.cfgerr = TRUE
  BY <1>0, <1>1 DEF Result, Results, Statuses
<1>4. PICK rs : rs = Append(results, r) /\ Continue(rs)
  BY DEF FailStep, V
<1> HIDE DEF r
<1>5. rs \in Seq(Results) /\ Len(rs) = pc /\ rs[pc] = r
  <2>1. results \in Seq(Results)
    BY DEF TypeOK
  <2>2. rs \in Seq(Results) /\ Len(rs) = Len(results) + 1 /\ rs[Len(results) + 1] = r
    BY <1>3, <1>4, <2>1, AppendFacts
  <2> QED
    BY <1>0, <2>2
<1>6. TypeOK'
  BY <1>0, <1>4, <1>5, ContinueTypes
<1>7. pc' = 0 /\ exit' = 2
  BY <1>0, <1>3, <1>4, <1>5, ContinueEffect
<1> QED
  BY <1>6, <1>7 DEF RunInv, GreenIsEarned, RedIsEarned

(* What the accumulated results show of the waivable steps is the surface. *)
LEMMA FoundIsSurface ==
  ASSUME TypeOK, pc = 12, RunInv
  PROVE  Found(SurfaceSteps) = Surface
<1>0. DOMAIN results = 1..11 /\ \A i \in 1..11 : Raw(results[i], StepOrder[i])
  BY DEF RunInv, TypeOK
<1>1. \A i \in 1..11 : results[i].step = StepOrder[i]
                       /\ results[i].found = Reported(StepOrder[i], code, scope)
  BY <1>0 DEF Raw
<1>2. ASSUME NEW f \in Found(SurfaceSteps) PROVE f \in Surface
  <2>1. PICK i \in 1..11 : results[i].step \in SurfaceSteps /\ f \in results[i].found
    BY <1>0 DEF Found
  <2> QED
    BY <1>1, <2>1 DEF Surface
<1>3. ASSUME NEW f \in Surface PROVE f \in Found(SurfaceSteps)
  <2>1. PICK s \in SurfaceSteps : f \in Reported(s, code, scope)
    BY DEF Surface
  <2>2. PICK i \in 1..11 : s = StepOrder[i]
    BY FindingStepsRun
  <2> QED
    BY <1>0, <1>1, <2>1, <2>2 DEF Found
<1> QED
  BY <1>2, <1>3

(* WaiverResolution: every result is settled, and the step's own result is  *)
(* about the refused waivers.                                              *)
LEMMA WaiverResolutionKeeps == GateInv /\ WaiverResolution => GateInv'
<1> SUFFICES ASSUME GateInv, WaiverResolution PROVE GateInv'
  OBVIOUS
<1> USE DEF GateInv
<1>0. pc = 12 /\ Step \in StepNames /\ Len(results) = 11 /\ Step = WaiverStep
  BY StepFacts DEF WaiverResolution, RunInv
<1> DEFINE q == [i \in DOMAIN results |-> Subtracted(results[i], Keys)]
<1> DEFINE r == Result(WaiverVerdict(Surface, tokens), {}, FALSE)
<1>1. Continue(Append(q, r))
  BY <1>0, FoundIsSurface DEF WaiverResolution, Keys
<1>2. DOMAIN results = 1..11 /\ \A i \in 1..11 : Raw(results[i], StepOrder[i])
  BY <1>0 DEF RunInv, TypeOK
<1>3. \A i \in 1..11 : Settled(q[i], StepOrder[i])
  BY <1>2, SubtractedSettles
<1>4. q \in Seq(Results) /\ Len(q) = 11
  <2>1. q \in [1..11 -> Results]
    <3>1. \A i \in 1..11 : q[i] \in Results
      BY <1>3 DEF Settled
    <3> HIDE DEF Keys
    <3> QED
      BY <1>2, <3>1
  <2> QED
    BY <2>1
<1>5. WaiverVerdict(Surface, tokens) \in Statuses
      /\ (WaiverVerdict(Surface, tokens) = "fail" <=> Refusals # {})
  BY DEF WaiverVerdict, Statuses, Refusals, Surface
<1>6. r \in Results /\ WaiversSettled(r) /\ r.cfgerr = FALSE
  BY <1>0, <1>5 DEF Result, Results, WaiversSettled
<1>7. PICK rs : rs = Append(q, r) /\ Continue(rs)
  BY <1>1
<1> HIDE DEF q, r
<1>8. /\ rs \in Seq(Results) /\ Len(rs) = 12 /\ rs[12] = r /\ \A i \in 1..11 : rs[i] = q[i]
  <2>1. /\ rs \in Seq(Results) /\ Len(rs) = Len(q) + 1 /\ rs[Len(q) + 1] = r
        /\ \A i \in 1..Len(q) : rs[i] = q[i]
    <3>1. q \in Seq(Results) /\ r \in Results /\ rs = Append(q, r)
      BY <1>4, <1>6, <1>7
    <3> QED
      BY <3>1, AppendFacts
  <2> QED
    BY <1>4, <2>1
<1>a. rs \in Seq(Results) /\ Len(rs) = pc /\ pc # 0 /\ pc # 14 /\ ~rs[pc].cfgerr
  BY <1>0, <1>6, <1>8
<1>9. TypeOK'
  BY <1>7, <1>a, ContinueTypes
<1>10. pc' = 13 /\ results' = rs /\ exit' = exit /\ UNCHANGED subject
  <2>1. pc' = pc + 1 /\ results' = rs /\ exit' = exit /\ UNCHANGED subject
    BY <1>7, <1>a, ContinueEffect
  <2> QED
    BY <1>0, <2>1
<1>11. RunInv'
  <2>1. exit' = None /\ Len(results') = pc' - 1
    BY <1>0, <1>8, <1>10 DEF RunInv
  <2>2. ASSUME NEW i \in 1..11 PROVE Settled(results[i], StepOrder[i])'
    <3>1. Settled(results'[i], StepOrder[i])
      BY <1>3, <1>8, <1>10
    <3> QED
      BY <1>10, <3>1, SubjectDecides DEF Settled, subject
  <2>3. WaiversSettled(results[12])'
    BY <1>6, <1>8, <1>10, SubjectDecides DEF WaiversSettled
  <2> QED
    BY <1>10, <2>1, <2>2, <2>3 DEF RunInv
<1>12. GreenIsEarned' /\ RedIsEarned'
  BY <1>10 DEF GreenIsEarned, RedIsEarned, Judged, Idle
<1> QED
  BY <1>9, <1>11, <1>12

(* BaselineComparison: what it reports is left by the waivers and not in    *)
(* the baseline.                                                           *)
LEMMA BaselineComparisonKeeps == GateInv /\ BaselineComparison => GateInv'
<1> SUFFICES ASSUME GateInv, BaselineComparison PROVE GateInv'
  OBVIOUS
<1> USE DEF GateInv
<1>0. pc = 13 /\ Step \in StepNames /\ Len(results) = 12 /\ Step = BaselineStep
  BY StepFacts DEF BaselineComparison, RunInv
<1> DEFINE V == Found(StepNames \ {WaiverStep, LedgerStep, BaselineStep})
<1> DEFINE seeding == touched \intersect RuleSetFiles # {}
<1> DEFINE new == IF base = None THEN {} ELSE NewBeyond(V, base, scope, seeding, touched)
<1> DEFINE status == IF base = None THEN "skipped" ELSE IF new = {} THEN "pass" ELSE "fail"
<1> DEFINE r == Result(status, new, FALSE)
<1>1. Continue(Append(results, r))
  BY DEF BaselineComparison
<1>2. /\ \A i \in 1..11 : Settled(results[i], StepOrder[i])
      /\ WaiversSettled(results[12]) /\ DOMAIN results = 1..12
  BY <1>0 DEF RunInv, TypeOK
<1>3. ASSUME NEW f \in V PROVE f \in code /\ f \in Findings /\ ~Shielded(f)
  <2>1. PICK i \in 1..12 : f \in results[i].found /\ results[i].step # WaiverStep
    BY <1>2 DEF Found
  <2>2. i \in 1..11
    BY <1>2, <2>1 DEF WaiversSettled
  <2>3. f \in Reported(StepOrder[i], code, scope) /\ ~Shielded(f)
    BY <1>2, <2>1, <2>2 DEF Settled
  <2> QED
    BY <2>3, ReportedFacts
<1> HIDE DEF V, seeding
<1>4. new \subseteq V /\ \A f \in new : base # None /\ ~Grandfathers(base, scope, f)
  BY DEF NewBeyond
<1>5. status = "fail" => base # None /\ new # {}
  OBVIOUS
<1>6. status \in Statuses
  BY DEF Statuses
<1> HIDE DEF new, status
<1>7. r \in Results /\ r.step = BaselineStep /\ r.cfgerr = FALSE /\ r.status = status
  BY <1>0, <1>3, <1>4, <1>6 DEF Result, Results
<1> HIDE DEF r
<1>8. BaselineSettled(r)
  <2>1. status = "fail" =>
          base # None /\ \E f \in code : ~Shielded(f) /\ ~Grandfathers(base, scope, f)
    BY <1>3, <1>4, <1>5
  <2> QED
    BY <1>7, <2>1 DEF BaselineSettled
<1>9. PICK rs : rs = Append(results, r) /\ Continue(rs)
  BY <1>1
<1>10. /\ rs \in Seq(Results) /\ Len(rs) = 13 /\ rs[13] = r
       /\ \A i \in 1..12 : rs[i] = results[i]
  <2>1. results \in Seq(Results) /\ r \in Results /\ rs = Append(results, r)
    BY <1>7, <1>9 DEF TypeOK
  <2>2. /\ rs \in Seq(Results) /\ Len(rs) = Len(results) + 1 /\ rs[Len(results) + 1] = r
        /\ \A i \in 1..Len(results) : rs[i] = results[i]
    BY <2>1, AppendFacts
  <2> QED
    BY <1>0, <2>2
<1>11. rs \in Seq(Results) /\ Len(rs) = pc /\ pc # 0 /\ pc # 14 /\ ~rs[pc].cfgerr
  BY <1>0, <1>7, <1>10
<1>12. TypeOK'
  BY <1>9, <1>11, ContinueTypes
<1>13. pc' = 14 /\ results' = rs /\ exit' = exit /\ UNCHANGED subject
  <2>1. pc' = pc + 1 /\ results' = rs /\ exit' = exit /\ UNCHANGED subject
    BY <1>9, <1>11, ContinueEffect
  <2> QED
    BY <1>0, <2>1
<1>14. RunInv'
  <2>1. exit' = None /\ Len(results') = pc' - 1
    BY <1>0, <1>10, <1>13 DEF RunInv
  <2>2. ASSUME NEW i \in 1..11 PROVE Settled(results[i], StepOrder[i])'
    <3>1. Settled(results'[i], StepOrder[i])
      BY <1>2, <1>10, <1>13
    <3> QED
      BY <1>13, <3>1, SubjectDecides DEF Settled, subject
  <2>3. WaiversSettled(results[12])'
    BY <1>2, <1>10, <1>13, SubjectDecides DEF WaiversSettled
  <2>4. BaselineSettled(results[13])'
    BY <1>8, <1>10, <1>13, SubjectDecides DEF BaselineSettled, subject
  <2> QED
    BY <1>13, <2>1, <2>2, <2>3, <2>4 DEF RunInv
<1>15. GreenIsEarned' /\ RedIsEarned'
  BY <1>13 DEF GreenIsEarned, RedIsEarned, Judged, Idle
<1> QED
  BY <1>12, <1>14, <1>15

(* LedgerIntegrity: the last step, and the verdict. *)
LEMMA LedgerIntegrityKeeps == GateInv /\ LedgerIntegrity => GateInv'
<1> SUFFICES ASSUME GateInv, LedgerIntegrity PROVE GateInv'
  OBVIOUS
<1> USE DEF GateInv
<1>0. pc = 14 /\ Step \in StepNames /\ Len(results) = 13 /\ Step = LedgerStep
  BY StepFacts DEF LedgerIntegrity, RunInv
<1> DEFINE r == Result("skipped", {}, FALSE)
<1>1. /\ r \in Results /\ r.step = LedgerStep /\ r.cfgerr = FALSE /\ r.status = "skipped"
  BY <1>0 DEF Result, Results, Statuses
<1>2. PICK rs : rs = Append(results, r) /\ Continue(rs)
  BY DEF LedgerIntegrity
<1> HIDE DEF r
<1>3. /\ rs \in Seq(Results) /\ Len(rs) = 14 /\ rs[14] = r
      /\ \A i \in 1..13 : rs[i] = results[i]
  <2>1. results \in Seq(Results) /\ r \in Results /\ rs = Append(results, r)
    BY <1>1, <1>2 DEF TypeOK
  <2>2. /\ rs \in Seq(Results) /\ Len(rs) = Len(results) + 1 /\ rs[Len(results) + 1] = r
        /\ \A i \in 1..Len(results) : rs[i] = results[i]
    BY <2>1, AppendFacts
  <2> QED
    BY <1>0, <2>2
<1>4. rs \in Seq(Results) /\ Len(rs) = pc /\ pc # 0
  BY <1>0, <1>3
<1>5. TypeOK'
  BY <1>2, <1>4, ContinueTypes
<1>6. pc' = 0 /\ exit' = Verdict(Final(rs)) /\ UNCHANGED subject
  BY <1>0, <1>2, <1>4, ContinueEffect
<1>7. PICK verdict : verdict = Verdict(Final(rs))
  OBVIOUS
<1>8. rs[14].step = LedgerStep /\ rs[14].status = "skipped" /\ ~rs[14].cfgerr
  BY <1>1, <1>3
<1>9. /\ verdict = 0 => (\A f \in code : Blocks(f) => ~Offends(f)) /\ Refusals = {}
      /\ verdict = 1 => \/ \E f \in code : Blocks(f) /\ Offends(f)
                        \/ Refusals # {}
                        \/ /\ policy = NoPolicy /\ base # None
                           /\ \E f \in code : ~Shielded(f) /\ ~Grandfathers(base, scope, f)
  BY <1>0, <1>3, <1>7, <1>8, VerdictIsEarned
<1>10. exit' = verdict
  BY <1>6, <1>7
<1>11. GreenIsEarned'
  <2>1. \A f : Offends(f)' <=> Offends(f)
    BY <1>6, SubjectDecides
  <2>2. Refusals' = Refusals
    BY <1>6, SubjectDecides
  <2> QED
    BY <1>6, <1>9, <1>10, <2>1, <2>2 DEF GreenIsEarned, subject
<1>12. RedIsEarned'
  <2>1. \A f : (Offends(f)' <=> Offends(f)) /\ (Shielded(f)' <=> Shielded(f))
    BY <1>6, SubjectDecides
  <2>2. Refusals' = Refusals
    BY <1>6, SubjectDecides
  <2> QED
    BY <1>6, <1>9, <1>10, <2>1, <2>2 DEF RedIsEarned, subject
<1> QED
  BY <1>5, <1>6, <1>11, <1>12 DEF RunInv

(* What leaves the tree, the policy and the run alone leaves the verdict    *)
(* about them alone.                                                       *)
LEMMA VerdictStands ==
  ASSUME RunInv, GreenIsEarned, RedIsEarned, UNCHANGED <<subject, pc, results, exit>>, pc = 0
  PROVE  RunInv' /\ GreenIsEarned' /\ RedIsEarned'
<1>0. UNCHANGED subject /\ pc' = 0 /\ exit' = exit
  OBVIOUS
<1>1. /\ \A f : (Offends(f)' <=> Offends(f)) /\ (Shielded(f)' <=> Shielded(f))
      /\ Refusals' = Refusals
  BY <1>0, SubjectDecides
<1>2. GreenIsEarned'
  BY <1>0, <1>1 DEF GreenIsEarned, Judged, Idle, subject
<1>3. RedIsEarned'
  BY <1>0, <1>1 DEF RedIsEarned, Judged, Idle, subject
<1> QED
  BY <1>0, <1>2, <1>3 DEF RunInv

(* What takes the verdict away leaves nothing to show. *)
LEMMA VerdictGone ==
  ASSUME exit' = None, pc' = 0 \/ (pc' = 1 /\ results' = <<>>)
  PROVE  RunInv' /\ GreenIsEarned' /\ RedIsEarned'
<1>1. GreenIsEarned' /\ RedIsEarned'
  BY GateRatchetAssumption DEF GreenIsEarned, RedIsEarned, Judged
<1>2. RunInv'
  BY DEF RunInv
<1> QED
  BY <1>1, <1>2

(* NoVerdict is well typed. *)
LEMMA NoVerdictTypes ==
  ASSUME NEW p, NEW s, NEW b, NEW a, NEW r, NEW e, NoVerdict(p, s, b, a, r, e)
  PROVE  /\ p = 0 /\ s \in Scopes /\ b = None /\ a = 0 /\ r \in Seq(Results) /\ e = None
         /\ r = <<>>
BY DEF NoVerdict, NoRun, Scopes

LEMMA EditFileKeeps ==
  ASSUME GateInv, NEW x \in Files, NEW C, NEW T, EditFile(x, C, T)
  PROVE  GateInv'
<1> USE DEF GateInv
<1>1. /\ pc' = 0 /\ scope' \in Scopes /\ base' = None /\ at' = 0 /\ results' \in Seq(Results)
      /\ exit' = None
  BY NoVerdictTypes DEF EditFile
<1>2. /\ code' \in SUBSET Findings /\ tokens' \in SUBSET TokenChoices
      /\ touched' \in SUBSET Files /\ edits' \in 0..MaxEdits
  BY GateRatchetAssumption DEF EditFile, TypeOK
<1>3. UNCHANGED <<main, published, cache, fresh, now, policy>>
  BY DEF EditFile, store
<1>4. TypeOK'
  BY <1>1, <1>2, <1>3, GateRatchetAssumption DEF TypeOK
<1> QED
  BY <1>1, <1>4, VerdictGone

LEMMA TickKeeps == GateInv /\ Tick => GateInv'
<1> SUFFICES ASSUME GateInv, Tick PROVE GateInv'
  OBVIOUS
<1> USE DEF GateInv
<1>1. now' = now + 1 /\ now < MaxTime /\ fresh' = FALSE /\ pc = 0
  BY DEF Tick, Between, Idle
<1>2. UNCHANGED <<tree, main, published, cache, policy, run>>
  BY DEF Tick
<1>a. now' \in 0..MaxTime /\ at' \in 0..now' /\ fresh' \in BOOLEAN
  <2>1. at' = at
    BY <1>2 DEF run
  <2>2. now \in Nat /\ at \in 0..now
    BY DEF TypeOK
  <2>3. MaxTime \in Nat /\ now < MaxTime
    BY <1>1, GateRatchetAssumption
  <2>4. now' \in 0..MaxTime /\ at' \in 0..now'
    BY <1>1, <2>1, <2>2, <2>3
  <2> QED
    BY <1>1, <2>4
<1>3. TypeOK'
  BY <1>a, <1>2 DEF TypeOK, tree, run
<1>4. UNCHANGED <<subject, pc, results, exit>>
  BY <1>2 DEF subject, tree, run
<1> QED
  BY <1>1, <1>3, <1>4, VerdictStands

LEMMA MergeKeeps == GateInv /\ Merge => GateInv'
<1> SUFFICES ASSUME GateInv, Merge PROVE GateInv'
  OBVIOUS
<1> USE DEF GateInv
<1>1. /\ pc' = 0 /\ scope' \in Scopes /\ base' = None /\ at' = 0 /\ results' \in Seq(Results)
      /\ exit' = None
  BY NoVerdictTypes DEF Merge
<1>2. /\ main' = [code |-> code, tokens |-> tokens] /\ touched' = {}
      /\ UNCHANGED <<code, tokens, edits, published, cache, fresh, now, policy>>
  BY DEF Merge, store
<1>3. TypeOK'
  BY <1>1, <1>2, GateRatchetAssumption DEF TypeOK
<1> QED
  BY <1>1, <1>3, VerdictGone

(* A baseline is a set of identities. *)
LEMMA BaselineOfFacts ==
  ASSUME NEW F \in SUBSET Findings
  PROVE  BaselineOf(F) \in SUBSET Ids
BY GateVerdictAssumption DEF BaselineOf, Attributes

LEMMA BaselineActionsKeep ==
  GateInv /\ (PublishBaseline \/ GenerateBaseline \/ PullBaseline) => GateInv'
<1> SUFFICES ASSUME GateInv, PublishBaseline \/ GenerateBaseline \/ PullBaseline PROVE GateInv'
  OBVIOUS
<1> USE DEF GateInv
<1>1. pc = 0 /\ UNCHANGED <<tree, main, now, policy, run>>
  BY DEF PublishBaseline, GenerateBaseline, PullBaseline, Between, Idle
<1>2. /\ published' \in {None} \union SUBSET Ids
      /\ cache' \in {None, Corrupt} \union SUBSET Ids /\ fresh' \in BOOLEAN
  <2>1. BaselineOf(code) \in SUBSET Ids /\ BaselineOf(main.code) \in SUBSET Ids
    BY BaselineOfFacts DEF TypeOK
  <2> QED
    BY <2>1 DEF PublishBaseline, GenerateBaseline, PullBaseline, TypeOK
<1>3. TypeOK'
  BY <1>1, <1>2 DEF TypeOK, tree, run
<1>4. UNCHANGED <<subject, pc, results, exit>>
  BY <1>1 DEF subject, tree, run
<1> QED
  BY <1>1, <1>3, <1>4, VerdictStands

(* A run starts with a baseline that parses, or with none. *)
LEMMA ResolveBaselineTypes ==
  ASSUME TypeOK, ResolveBaseline
  PROVE  /\ base' \in {None} \union SUBSET Ids /\ base' # Corrupt
         /\ cache' \in {None, Corrupt} \union SUBSET Ids /\ fresh' \in BOOLEAN
BY GateRatchetAssumption DEF ResolveBaseline, TypeOK

LEMMA StartGateKeeps ==
  ASSUME GateInv, NEW mode \in {"all", "diff", "file"}, NEW files \in SUBSET Files,
         StartGate(mode, files)
  PROVE  GateInv'
<1> USE DEF GateInv
<1>1. /\ scope' \in Scopes /\ pc' = 1 /\ at' = now /\ results' = <<>> /\ exit' = None
      /\ UNCHANGED <<tree, main, published, now, policy>>
  BY DEF StartGate, Scopes
<1>2. /\ base' \in {None} \union SUBSET Ids /\ base' # Corrupt
      /\ cache' \in {None, Corrupt} \union SUBSET Ids /\ fresh' \in BOOLEAN
  BY ResolveBaselineTypes DEF StartGate
<1>3. results' \in Seq(Results) /\ pc' \in 0..Len(StepOrder)
  BY <1>1, StepOrderFacts
<1>4. TypeOK'
  BY <1>1, <1>2, <1>3 DEF TypeOK, tree
<1> QED
  BY <1>1, <1>4, VerdictGone

-----------------------------------------------------------------------------
(* The theorems *)

LEMMA GateInit == Init => GateInv
<1> SUFFICES ASSUME Init PROVE GateInv
  OBVIOUS
<1>1. PICK w \in Worlds :
         /\ code = w.code /\ tokens = w.tokens /\ touched = w.touched
         /\ cache = w.cache /\ policy = w.policy /\ published = w.published
         /\ main = [code |-> w.code, tokens |-> w.tokens]
  BY DEF Init
<1>2. w \in WorldType
  BY GateRatchetAssumption
<1>3. /\ code \in SUBSET Findings /\ tokens \in SUBSET TokenChoices /\ touched \in SUBSET Files
      /\ main \in [code : SUBSET Findings, tokens : SUBSET TokenChoices]
      /\ published \in {None} \union SUBSET Ids /\ cache \in {None, Corrupt} \union SUBSET Ids
      /\ policy \in Policies
  BY <1>1, <1>2 DEF WorldType
<1>4. /\ pc = 0 /\ scope \in Scopes /\ base = None /\ at = 0 /\ results \in Seq(Results)
      /\ exit = None
  BY NoVerdictTypes DEF Init
<1>5. fresh = TRUE /\ now = 0 /\ edits = 0
  BY DEF Init
<1>6. TypeOK
  BY <1>3, <1>4, <1>5, GateRatchetAssumption, StepOrderFacts DEF TypeOK
<1> QED
  BY <1>4, <1>6, GateRatchetAssumption DEF GateInv, RunInv, GreenIsEarned, RedIsEarned, Judged

LEMMA GateStep == GateInv /\ [Next]_vars => GateInv'
<1> SUFFICES ASSUME GateInv, [Next]_vars PROVE GateInv'
  OBVIOUS
<1>1. CASE \E x \in Files : \E C \in SUBSET {f \in Findings : Attr[f].cause = x},
                               T \in SUBSET {t \in TokenChoices : t.file = x} : EditFile(x, C, T)
  BY <1>1, EditFileKeeps
<1>2. CASE Tick \/ Merge
  BY <1>2, TickKeeps, MergeKeeps
<1>3. CASE PublishBaseline \/ GenerateBaseline \/ PullBaseline
  BY <1>3, BaselineActionsKeep
<1>4. CASE StartGate("all", {}) \/ StartGate("diff", touched)
  <2>1. {} \in SUBSET Files /\ touched \in SUBSET Files
    BY DEF GateInv, TypeOK
  <2>2. PICK mode \in {"all", "diff"}, files \in SUBSET Files : StartGate(mode, files)
    BY <1>4, <2>1
  <2> QED
    BY <2>2, StartGateKeeps
<1>5. CASE \E x \in Files : StartGate("file", {x})
  <2>1. PICK files \in SUBSET Files : StartGate("file", files)
    BY <1>5
  <2> QED
    BY <2>1, StartGateKeeps
<1>6. CASE RunStep \/ FailStep \/ WaiverResolution
  BY <1>6, RunStepKeeps, FailStepKeeps, WaiverResolutionKeeps
<1>7. CASE BaselineComparison \/ LedgerIntegrity
  BY <1>7, BaselineComparisonKeeps, LedgerIntegrityKeeps
<1>8. CASE UNCHANGED vars
  <2>1. UNCHANGED <<tree, main, store, now, policy, run>>
    BY <1>8 DEF vars
  <2>2. UNCHANGED <<subject, pc, results, exit>>
    BY <2>1 DEF subject, tree, run
  <2>3. TypeOK'
    BY <2>1 DEF GateInv, TypeOK, tree, store, run
  <2>4. RunInv' /\ GreenIsEarned' /\ RedIsEarned'
    <3>1. CASE pc = 0
      BY <2>2, <3>1, VerdictStands DEF GateInv
    <3>2. CASE pc # 0
      <4>1. RunInv /\ pc' = pc /\ results' = results /\ exit' = exit /\ UNCHANGED subject
        BY <2>2 DEF GateInv
      <4>2. GreenIsEarned' /\ RedIsEarned'
        BY <3>2, <4>1 DEF GreenIsEarned, RedIsEarned, Judged, Idle
      <4>3. \A i \in 1..(pc - 1) :
              Raw(results[i], StepOrder[i])' <=> Raw(results[i], StepOrder[i])
        BY <4>1 DEF Raw, subject
      <4>4. \A i \in 1..11 :
              Settled(results[i], StepOrder[i])' <=> Settled(results[i], StepOrder[i])
        BY <4>1, SubjectDecides DEF Settled, subject
      <4>5. WaiversSettled(results[12])' <=> WaiversSettled(results[12])
        BY <4>1, SubjectDecides DEF WaiversSettled
      <4>6. BaselineSettled(results[13])' <=> BaselineSettled(results[13])
        BY <4>1, SubjectDecides DEF BaselineSettled, subject
      <4>7. RunInv'
        BY <3>2, <4>1, <4>3, <4>4, <4>5, <4>6 DEF RunInv
      <4> QED
        BY <4>2, <4>7
    <3> QED
      BY <3>1, <3>2
  <2> QED
    BY <2>3, <2>4 DEF GateInv
<1> QED
  BY <1>1, <1>2, <1>3, <1>4, <1>5, <1>6, <1>7, <1>8 DEF Next

LEMMA GateCorrect == Spec => []GateInv
BY GateInit, GateStep, PTL DEF Spec

(* The tree, the baseline store and the accumulated results always have the *)
(* shapes the code gives them, whatever happens between and during runs;   *)
(* in particular a run never compares with a cache that does not parse.    *)
THEOREM GateTypeCorrect == Spec => []TypeOK
<1>1. GateInv => TypeOK
  BY DEF GateInv
<1> QED
  BY <1>1, GateCorrect, PTL

(* A green exit of `backstop gate` hides no blocking finding: whatever is   *)
(* reported is waived in force, relaxed by policy or grandfathered.        *)
THEOREM GreenHidesNothing == Spec => []GreenIsEarned
<1>1. GateInv => GreenIsEarned
  BY DEF GateInv
<1> QED
  BY <1>1, GateCorrect, PTL

(* A red exit of `backstop gate` has a finding or a refused waiver to show. *)
THEOREM RedHasAReason == Spec => []RedIsEarned
<1>1. GateInv => RedIsEarned
  BY DEF GateInv
<1> QED
  BY <1>1, GateCorrect, PTL

-----------------------------------------------------------------------------
(* The ratchet *)

(* Outside the touched files the tree is main's, and a run on the diff      *)
(* looks at the touched files.                                             *)
BranchInv ==
  /\ \A f \in Findings : Attr[f].cause \notin touched => (f \in code <=> f \in main.code)
  /\ \A t \in TokenChoices : t.file \notin touched => (t \in tokens <=> t \in main.tokens)
  /\ scope.mode = "diff" => scope.files = touched

LEMMA BranchInit == Init => BranchInv
<1> SUFFICES ASSUME Init PROVE BranchInv
  OBVIOUS
<1>1. main.code = code /\ main.tokens = tokens
  BY DEF Init
<1>2. scope.mode = "all"
  BY DEF Init, NoVerdict, NoRun
<1> QED
  BY <1>1, <1>2 DEF BranchInv

(* Whatever a step of the gate or of the baselines does, it is not done to  *)
(* the tree or to main.                                                    *)
LEMMA TreeStands ==
  ASSUME TypeOK, Next,
         ~\E x \in Files : \E C \in SUBSET {f \in Findings : Attr[f].cause = x},
                              T \in SUBSET {t \in TokenChoices : t.file = x} : EditFile(x, C, T),
         ~Merge
  PROVE  /\ UNCHANGED <<tree, main, policy>>
         /\ \/ UNCHANGED scope
            \/ scope' = [mode |-> "diff", files |-> touched]
            \/ scope'.mode # "diff"
<1>1. CASE Tick \/ PublishBaseline \/ GenerateBaseline \/ PullBaseline
  BY <1>1 DEF Tick, PublishBaseline, GenerateBaseline, PullBaseline, run
<1>2. CASE StartGate("all", {}) \/ StartGate("diff", touched)
           \/ \E x \in Files : StartGate("file", {x})
  BY <1>2 DEF StartGate
<1>3. CASE RunStep \/ FailStep \/ WaiverResolution \/ BaselineComparison \/ LedgerIntegrity
  <2>1. \E rs : Continue(rs)
    BY <1>3 DEF RunStep, FailStep, WaiverResolution, BaselineComparison, LedgerIntegrity
  <2> QED
    BY <2>1 DEF Continue
<1> QED
  BY <1>1, <1>2, <1>3 DEF Next

LEMMA EditKeepsBranch ==
  ASSUME BranchInv, TypeOK, NEW x \in Files,
         NEW C \in SUBSET {f \in Findings : Attr[f].cause = x},
         NEW T \in SUBSET {t \in TokenChoices : t.file = x}, EditFile(x, C, T)
  PROVE  BranchInv'
<1>1. /\ code' = {f \in code : Attr[f].cause # x} \union C
      /\ tokens' = {t \in tokens : t.file # x} \union T
      /\ touched' = touched \union {x} /\ main' = main
  BY DEF EditFile
<1>2. scope'.mode = "all"
  BY DEF EditFile, NoVerdict, NoRun
<1>3. ASSUME NEW f \in Findings, Attr[f].cause \notin touched'
      PROVE  f \in code' <=> f \in main'.code
  BY <1>1, <1>3 DEF BranchInv
<1>4. ASSUME NEW t \in TokenChoices, t.file \notin touched'
      PROVE  t \in tokens' <=> t \in main'.tokens
  BY <1>1, <1>4 DEF BranchInv
<1> QED
  BY <1>2, <1>3, <1>4 DEF BranchInv

LEMMA BranchStep == TypeOK /\ BranchInv /\ [Next]_vars => BranchInv'
<1> SUFFICES ASSUME TypeOK, BranchInv, [Next]_vars PROVE BranchInv'
  OBVIOUS
<1>1. CASE \E x \in Files : \E C \in SUBSET {f \in Findings : Attr[f].cause = x},
                               T \in SUBSET {t \in TokenChoices : t.file = x} : EditFile(x, C, T)
  BY <1>1, EditKeepsBranch
<1>2. CASE Merge
  <2>1. main'.code = code' /\ main'.tokens = tokens'
    BY <1>2 DEF Merge
  <2>2. scope'.mode = "all"
    BY <1>2 DEF Merge, NoVerdict, NoRun
  <2> QED
    BY <2>1, <2>2 DEF BranchInv
<1>3. CASE Next /\ ~Merge
           /\ ~\E x \in Files : \E C \in SUBSET {f \in Findings : Attr[f].cause = x},
                                   T \in SUBSET {t \in TokenChoices : t.file = x} : EditFile(x, C, T)
  <2>1. UNCHANGED <<code, tokens, touched, main>>
    BY <1>3, TreeStands DEF tree
  <2>2. scope'.mode = "diff" => scope'.files = touched'
    BY <1>3, <2>1, TreeStands DEF BranchInv
  <2> QED
    BY <2>1, <2>2 DEF BranchInv
<1>4. CASE UNCHANGED vars
  BY <1>4 DEF vars, tree, run, BranchInv
<1> QED
  BY <1>1, <1>2, <1>3, <1>4

(* A merge on a green diff brings main nothing that was not accounted for:  *)
(* in a touched file a baseline excuses nothing, in another file the tree  *)
(* is main's.                                                              *)
LEMMA MergeAddsNothing ==
  ASSUME TypeOK, GreenIsEarned, BranchInv, Merge
  PROVE  Unaccounted(main') \subseteq Unaccounted(main)
<1>0. /\ pc = 0 /\ exit = 0 /\ scope.mode = "diff" /\ scope.files = touched
      /\ main' = [code |-> code, tokens |-> tokens]
  BY DEF Merge, Between, Idle, BranchInv
<1>1. \A f \in code : Blocks(f) => ~Offends(f)
  BY <1>0, GateRatchetAssumption DEF GreenIsEarned, Judged, Idle
<1> SUFFICES ASSUME NEW f \in Unaccounted(main') PROVE f \in Unaccounted(main)
  OBVIOUS
<1>2. /\ f \in code /\ f \in Findings /\ Blocks(f) /\ ~Relaxed(f) /\ Attr[f].file = Attr[f].cause
      /\ ~\E t \in tokens : t.ok /\ t.rule = Attr[f].rule /\ InWindow(t, f)
  BY <1>0 DEF Unaccounted, TypeOK
<1>3. CASE Attr[f].file \in touched
  <2>1. InScope(scope, f)
    BY <1>0, <1>3 DEF InScope
  <2>2. f \in Reported(Attr[f].step, code, scope)
    BY <1>2, <2>1 DEF Reported
  <2>3. ~Shielded(f)
    BY <1>2 DEF Shielded
  <2>4. ~Excused(f)
    BY <1>0, <1>3, <2>1 DEF Excused
  <2> QED
    BY <1>1, <1>2, <2>2, <2>3, <2>4 DEF Offends
<1>4. CASE Attr[f].file \notin touched
  <2>1. f \in main.code
    BY <1>2, <1>4 DEF BranchInv
  <2>2. ASSUME NEW t \in main.tokens, InWindow(t, f) PROVE t \in tokens
    BY <1>4, <2>2 DEF BranchInv, TypeOK, InWindow
  <2> QED
    BY <1>2, <2>1, <2>2 DEF Unaccounted
<1> QED
  BY <1>3, <1>4

(* Main never gains a blocking finding nobody signed for: branches merged   *)
(* on a green diff bring none, whatever the baseline cache holds and       *)
(* whenever it was published, pulled, regenerated or left to age.          *)
THEOREM RatchetHolds == Spec => NoNewDebt
<1>1. GateInv /\ BranchInv /\ [Next]_vars => BranchInv'
  BY BranchStep DEF GateInv
<1>2. GateInv /\ BranchInv /\ [Next]_vars =>
        [Unaccounted(main') \subseteq Unaccounted(main)]_vars
  <2> SUFFICES ASSUME GateInv, BranchInv, [Next]_vars, ~UNCHANGED vars
               PROVE  Unaccounted(main') \subseteq Unaccounted(main)
    OBVIOUS
  <2>1. CASE Merge
    BY <2>1, MergeAddsNothing DEF GateInv
  <2>2. CASE ~Merge
    <3>1. main' = main
      <4>1. CASE \E x \in Files : \E C \in SUBSET {f \in Findings : Attr[f].cause = x},
                     T \in SUBSET {t \in TokenChoices : t.file = x} : EditFile(x, C, T)
        BY <4>1 DEF EditFile
      <4> QED
        BY <2>2, <4>1, TreeStands DEF GateInv
    <3> QED
      BY <3>1
  <2> QED
    BY <2>1, <2>2
<1> QED
  BY <1>1, <1>2, BranchInit, GateCorrect, PTL DEF Spec, NoNewDebt
================================================================================
