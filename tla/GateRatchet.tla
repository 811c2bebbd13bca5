----------------------------- MODULE GateRatchet -----------------------------
(***************************************************************************)
(* `backstop gate` over the life of a branch: files are edited, waivers    *)
(* written and left to expire, CI publishes baselines from main, the local *)
(* cache ages and is refreshed, and a branch with a green verdict on its   *)
(* diff is merged.  A gate run resolves its baseline, runs the steps one   *)
(* by one, reconciles the waivers, and applies the policy at the end.      *)
(***************************************************************************)
EXTENDS GateVerdict, Sequences

CONSTANTS
  Corrupt,       \* a baseline cache that does not parse
  TokenChoices,  \* waiver tokens that can be written
  RuleSetFiles,  \* backstop.yml, backstop.lock and the installed packs
  Worlds,        \* initial states: code, tokens, touched, cache, policy, published
  Env,           \* what happens between gate runs
  MaxEdits,      \* bound on edits
  MaxTime        \* bound on the clock

WorldType ==
  [code : SUBSET Findings, tokens : SUBSET TokenChoices, touched : SUBSET Files,
   cache : {None, Corrupt} \union SUBSET Ids, policy : Policies,
   published : {None} \union SUBSET Ids]

ASSUME GateRatchetAssumption ==
  /\ Worlds \subseteq WorldType
  /\ TokenChoices \subseteq Tokens
  /\ RuleSetFiles \subseteq Files
  /\ Env \subseteq {"edit", "tick", "merge", "publish", "generate", "pull"}
  /\ MaxEdits \in Nat /\ MaxTime \in Nat
  /\ None # Corrupt /\ None \notin {0, 1, 2} /\ \A I \in SUBSET Ids : I # Corrupt /\ I # None

VARIABLES
  code,      \* the findings the working tree has
  tokens,    \* the waiver tokens it carries
  touched,   \* the files that differ from main
  main,      \* what main has: its code and its tokens
  published, \* the baseline of the latest successful run on main, or None
  cache,     \* .backstop/baseline.json: None, Corrupt or its identities
  fresh,     \* the cache is younger than its TTL
  now,       \* the clock
  policy,    \* enforcement.policy of backstop.yml
  pc,        \* 0, or the index of the next step of the running gate
  scope,     \* the scope of the gate run
  base,      \* the baseline it uses
  at,        \* the time it started at, which waivers are judged by
  results,   \* its step results so far, while it runs
  exit,      \* the exit code of the last run, None while there is none
  edits      \* number of edits so far

tree == <<code, tokens, touched, edits>>
store == <<published, cache, fresh>>
run == <<pc, scope, base, at, results, exit>>
vars == <<tree, main, store, now, policy, run>>

NoRun == [mode |-> "all", files |-> {}]

(* No verdict on the tree there is now. *)
NoVerdict(p, s, b, a, r, e) ==
  p = 0 /\ s = NoRun /\ b = None /\ a = 0 /\ r = <<>> /\ e = None

Init ==
  /\ \E w \in Worlds :
       /\ code = w.code /\ tokens = w.tokens /\ touched = w.touched
       /\ cache = w.cache /\ policy = w.policy /\ published = w.published
       /\ main = [code |-> w.code, tokens |-> w.tokens]
  /\ fresh = TRUE /\ now = 0 /\ edits = 0
  /\ NoVerdict(pc, scope, base, at, results, exit)

-----------------------------------------------------------------------------
(* Between gate runs *)

Idle == pc = 0
Between(e) == Idle /\ e \in Env

(* A file is edited: which of its findings and tokens are there changes. *)
EditFile(x, C, T) ==
  /\ Between("edit") /\ edits < MaxEdits
  /\ C \subseteq {f \in Findings : Attr[f].cause = x}
  /\ T \subseteq {t \in TokenChoices : t.file = x}
  /\ code' = {f \in code : Attr[f].cause # x} \union C
  /\ tokens' = {t \in tokens : t.file # x} \union T
  /\ touched' = touched \union {x}
  /\ edits' = edits + 1
  /\ NoVerdict(pc', scope', base', at', results', exit')
  /\ UNCHANGED <<main, store, now, policy>>

(* A day passes: waivers expire, the cache outlives its TTL. *)
Tick ==
  /\ Between("tick") /\ now < MaxTime
  /\ now' = now + 1 /\ fresh' = FALSE
  /\ UNCHANGED <<tree, main, published, cache, policy, run>>

(* A branch whose diff was found green is merged. *)
Merge ==
  /\ Between("merge") /\ exit = 0 /\ scope.mode = "diff"
  /\ main' = [code |-> code, tokens |-> tokens]
  /\ touched' = {}
  /\ NoVerdict(pc', scope', base', at', results', exit')
  /\ UNCHANGED <<code, tokens, edits, store, now, policy>>

(* baseline generate in CI on main: a full-scope run without waivers and    *)
(* without policy.                                                         *)
PublishBaseline ==
  /\ Between("publish")
  /\ published' = BaselineOf(main.code)
  /\ UNCHANGED <<tree, main, cache, fresh, now, policy, run>>

(* baseline generate in the working tree; WriteBaseline is not atomic, and  *)
(* nothing is written after a configuration error.                         *)
GenerateBaseline ==
  /\ Between("generate")
  /\ cache' \in {BaselineOf(code), Corrupt}
  /\ fresh' = TRUE
  /\ UNCHANGED <<tree, main, published, now, policy, run>>

(* baseline pull: the rename is atomic, a failure leaves the cache. *)
PullBaseline ==
  /\ Between("pull") /\ published # None
  /\ cache' = published /\ fresh' = TRUE
  /\ UNCHANGED <<tree, main, published, now, policy, run>>

-----------------------------------------------------------------------------
(* A gate run *)

(* Mutation: what is there is used, whether it parses or not. *)
ResolveBaselineUnread ==
  \/ /\ cache # None
     /\ base' = cache
     /\ UNCHANGED <<cache, fresh>>
  \/ /\ cache = None /\ published # None
     /\ base' = published /\ cache' = published /\ fresh' = TRUE
  \/ /\ cache = None
     /\ base' = None
     /\ UNCHANGED <<cache, fresh>>

(* resolveBaselineCache: a cache within its TTL is used as it is; otherwise *)
(* the remote baseline, and when that cannot be had a stale but readable   *)
(* cache, or none.                                                         *)
ResolveBaseline ==
  \/ /\ cache \notin {None, Corrupt} /\ fresh
     /\ base' = cache
     /\ UNCHANGED <<cache, fresh>>
  \/ /\ cache \in {None, Corrupt} \/ ~fresh
     /\ published # None
     /\ base' = published /\ cache' = published /\ fresh' = TRUE
  \/ /\ cache \in {None, Corrupt} \/ ~fresh
     /\ base' = IF cache \in {None, Corrupt} THEN None ELSE cache
     /\ UNCHANGED <<cache, fresh>>

StartGate(mode, files) ==
  /\ Idle
  /\ scope' = [mode |-> mode, files |-> files]
  /\ ResolveBaseline
  /\ pc' = 1 /\ at' = now /\ results' = <<>> /\ exit' = None
  /\ UNCHANGED <<tree, main, published, now, policy>>

Step == StepOrder[pc]

(* ExitCode of NewGateResultWithScope, or 2 after a configuration error. *)
Verdict(rs) ==
  IF \E i \in DOMAIN rs : rs[i].cfgerr THEN 2
  ELSE IF \E i \in DOMAIN rs : rs[i].status = "fail" THEN 1 ELSE 0

(* The next step, or the policy pass over what was accumulated. *)
Continue(rs) ==
  LET final == [i \in DOMAIN rs |-> Policied(rs[i], base, policy, scope)] IN
  /\ IF rs[Len(rs)].cfgerr \/ Len(rs) = Len(StepOrder)
     THEN pc' = 0 /\ results' = <<>> /\ exit' = Verdict(final)
     ELSE pc' = pc + 1 /\ results' = rs /\ UNCHANGED exit
  /\ UNCHANGED <<tree, main, store, now, policy, scope, base, at>>

Result(status, found, cfgerr) ==
  [step |-> Step, status |-> status, found |-> found, cfgerr |-> cfgerr]

(* A step that inspects the project. *)
RunStep ==
  /\ pc # 0 /\ Step \notin {WaiverStep, BaselineStep, LedgerStep}
  /\ LET V == Reported(Step, code, scope) IN
     Continue(Append(results, Result(OwnVerdict(Step, V), V, FALSE)))

(* A step that cannot inspect it (a lock that does not verify, a missing    *)
(* tool, a broken declaration) reports a configuration error; pack_engines *)
(* keeps what its other engines found.  The advisory steps never do.       *)
FailStep ==
  /\ pc # 0 /\ Step \notin {WaiverStep, BaselineStep, LedgerStep} \union AdvisorySteps
  /\ LET V == IF Step = "pack_engines" THEN Reported(Step, code, scope) ELSE {} IN
     Continue(Append(results, Result("fail", V, TRUE)))

Found(steps) ==
  UNION {results[i].found : i \in {j \in DOMAIN results : results[j].step \in steps}}

(* computeWaiverResult: rewrites the results accumulated so far. *)
WaiverResolution ==
  /\ pc # 0 /\ Step = WaiverStep
  /\ LET V == Found(SurfaceSteps)
         keys == SuppressedKeys(V, tokens, at)
     IN  Continue(Append([i \in DOMAIN results |-> Subtracted(results[i], keys)],
                         Result(WaiverVerdict(V, tokens), {}, FALSE)))

(* computeBaselineResult over what the waivers left.  Severity is not       *)
(* looked at.                                                              *)
BaselineComparison ==
  /\ pc # 0 /\ Step = BaselineStep
  /\ LET V == Found(StepNames \ {WaiverStep, LedgerStep, BaselineStep})
         seeding == touched \intersect RuleSetFiles # {}
         new == IF base = None THEN {} ELSE NewBeyond(V, base, scope, seeding, touched)
     IN  Continue(Append(results,
           Result(IF base = None THEN "skipped" ELSE IF new = {} THEN "pass" ELSE "fail",
                  new, FALSE)))

LedgerIntegrity ==
  /\ pc # 0 /\ Step = LedgerStep
  /\ Continue(Append(results, Result("skipped", {}, FALSE)))

Next ==
  \/ \E x \in Files : \E C \in SUBSET {f \in Findings : Attr[f].cause = x},
                         T \in SUBSET {t \in TokenChoices : t.file = x} : EditFile(x, C, T)
  \/ Tick \/ Merge \/ PublishBaseline \/ GenerateBaseline \/ PullBaseline
  \/ StartGate("all", {})
  \/ StartGate("diff", touched)
  \/ \E x \in Files : StartGate("file", {x})
  \/ RunStep \/ FailStep \/ WaiverResolution \/ BaselineComparison \/ LedgerIntegrity

Spec == Init /\ [][Next]_vars

-----------------------------------------------------------------------------
(* Type *)

(* The files, the store and the accumulated results have the shapes the     *)
(* code gives them at every point of a run.                                *)
TypeOK ==
  /\ code \in SUBSET Findings /\ tokens \in SUBSET TokenChoices /\ touched \in SUBSET Files
  /\ main \in [code : SUBSET Findings, tokens : SUBSET TokenChoices]
  /\ published \in {None} \union SUBSET Ids
  /\ cache \in {None, Corrupt} \union SUBSET Ids
  /\ fresh \in BOOLEAN /\ now \in 0..MaxTime /\ at \in 0..now /\ edits \in 0..MaxEdits
  /\ policy \in Policies
  /\ pc \in 0..Len(StepOrder)
  /\ scope \in Scopes
  /\ base # Corrupt /\ base \in {None} \union SUBSET Ids
  /\ results \in Seq(Results)
  /\ exit \in {None, 0, 1, 2}

-----------------------------------------------------------------------------
(* What a verdict means, stated without the pipeline that computes it *)

(* The tree the last run saw is still the working tree. *)
Judged == Idle /\ exit # None

(* A waiver that shields f: exact rule, own line or the line above, active. *)
Shielded(f) ==
  /\ Attr[f].step \in SurfaceSteps /\ Attr[f].rule \notin NonWaivable
  /\ \E t \in tokens : t.ok /\ t.rule = Attr[f].rule /\ InWindow(t, f) /\ at < t.expiry

Dimension(f) == policy[Attr[f].step]

(* The policy does not block on f: the dimension, or f's pack in it, is off *)
(* or only warns.                                                          *)
Relaxed(f) ==
  /\ Dimension(f) # None
  /\ LevelOf(Dimension(f)) = "off" \/ LevelOf(RowOf(Dimension(f), f)) \in {"off", "warn"}

(* The policy looks at new code only, there is a baseline to tell, and f is *)
(* in it in a file nobody touched, or f is outside the scope.              *)
Excused(f) ==
  /\ Dimension(f) # None
  /\ RowOf(Dimension(f), f).applies = "new-code"
  /\ base # None
  /\ \/ Attr[f].id \in base /\ (scope.mode = "all" \/ Attr[f].file \notin scope.files)
     \/ ~InScope(scope, f)

Offends(f) ==
  /\ f \in Reported(Attr[f].step, code, scope)
  /\ ~Shielded(f) /\ ~Relaxed(f) /\ ~Excused(f)

(* The waivers on the reported surface that the run refuses. *)
Refusals == Refused(UNION {Reported(s, code, scope) : s \in SurfaceSteps}, tokens)

(* A green verdict hides nothing: every blocking finding of the tree that   *)
(* the run looked at is shielded by a waiver in force when the run started, *)
(* relaxed by the policy, or in the baseline and in a file the scope does  *)
(* not touch; and no broken or forbidden waiver stands next to a finding.  *)
GreenIsEarned ==
  Judged /\ exit = 0 =>
    /\ \A f \in code : Blocks(f) => ~Offends(f)
    /\ Refusals = {}

(* A red verdict has something to show: an offending blocking finding, a    *)
(* refused waiver or, where no policy supersedes the aggregate comparison, *)
(* a finding of any severity that the baseline does not have.              *)
RedIsEarned ==
  Judged /\ exit = 1 =>
    \/ \E f \in code : Blocks(f) /\ Offends(f)
    \/ Refusals # {}
    \/ /\ policy = NoPolicy /\ base # None
       /\ \E f \in code : ~Shielded(f) /\ ~Grandfathers(base, scope, f)

(* The findings of a tree that block, sit in the file that causes them, and *)
(* that no well-formed token, expired or not, was written for.             *)
Unaccounted(m) ==
  {f \in m.code :
     /\ Blocks(f) /\ ~Relaxed(f) /\ Attr[f].file = Attr[f].cause
     /\ ~\E t \in m.tokens : t.ok /\ t.rule = Attr[f].rule /\ InWindow(t, f)}

(* The ratchet: as long as branches are merged on a green diff, whatever    *)
(* the baseline cache holds, however old it is and whoever regenerated it, *)
(* main never gains a blocking finding nobody signed for, and a waiver is  *)
(* never dropped while its finding stays.                                  *)
NoNewDebt == [][Unaccounted(main') \subseteq Unaccounted(main)]_vars
=============================================================================
