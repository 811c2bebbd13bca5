---------------------------- MODULE MCGateRatchet ----------------------------
(***************************************************************************)
(* A small project: source files a and b, an artifact s whose status       *)
(* promises a test that lives in b, and backstop.yml.                      *)
(***************************************************************************)
EXTENDS GateRatchet

Finding(step, rule, file, cause, line, id, warning, pack) ==
  [step |-> step, rule |-> rule, file |-> file, cause |-> cause, line |-> line,
   id |-> id, warning |-> warning, pack |-> pack, wide |-> FALSE]

(* one and two are the same defect on two lines, so they share an identity; *)
(* drift is reported in s and comes and goes with b; broken is a step's own *)
(* failure and has no file; build concerns the whole project.              *)
AllAttr ==
  [one     |-> Finding("pack_engines", "r", "a", "a", 2, 1, FALSE, "p"),
   two     |-> Finding("pack_engines", "r", "a", "a", 4, 1, FALSE, "p"),
   notice  |-> Finding("pack_engines", "w", "b", "b", 1, 2, TRUE, "q"),
   drift   |-> Finding("artifact_status_drift", "d", "s", "b", 0, 3, FALSE, "none"),
   uncover |-> Finding("coverage_threshold", "c", "b", "b", 0, 4, FALSE, "none"),
   broken  |-> Finding("test_substantiveness", "t", None, "a", 0, 5, FALSE, "none"),
   build   |-> [Finding("pack_engines", "n", "b", "b", 3, 6, FALSE, "q") EXCEPT !.wide = TRUE]]

MCAttr == [f \in Findings |-> AllAttr[f]]

Token(file, line, rule, expiry) ==
  [file |-> file, line |-> line, rule |-> rule, expiry |-> expiry, ok |-> TRUE]

OnOne == Token("a", 1, "r", 1)
Lapsed == Token("a", 2, "r", 0)
OnTwo == Token("a", 4, "r", 2)
OnUncover == Token("b", 1, "c", 2)
OnBuild == Token("b", 3, "n", 2)                              \* a non-waivable rule
Garbled == [Token("a", 2, "r", 2) EXCEPT !.ok = FALSE]
Unbound == Token("a", 6, "gone", 2)

Row(level, applies) == [level |-> level, applies |-> applies]
Plain(level, applies) ==
  [level |-> level, applies |-> applies, sources |-> [q \in Packs |-> None]]

(* The policy in this repository's own backstop.yml; q is backstop-self. *)
Ratcheted ==
  [s \in StepNames |->
     CASE s \in {"artifact_status_drift", "contract_signature", CoverageStep, "test_substantiveness"} ->
            Plain("block", "new-code")
       [] s \in {"artifact_validation", "test_verification"} -> Plain("block", "")
       [] s = "pack_engines" ->
            [Plain("block", "new-code") EXCEPT !.sources["q"] = Row("block", "all-code")]
       [] OTHER -> None]

(* One pack held to all code, the others only warned about. *)
Scoped ==
  [Ratcheted EXCEPT !["pack_engines"] =
     [Plain("warn", "new-code") EXCEPT !.sources["p"] = Row("", "all-code")]]

(* A disabled dimension with a blocking pack in it, and defaults elsewhere. *)
Mixed ==
  [NoPolicy EXCEPT !["pack_engines"] = [Plain("", "") EXCEPT !.sources["p"] = Row("off", "")],
                   !["coverage_threshold"] = Plain("off", ""),
                   !["artifact_status_drift"] = Plain("warn", "all-code")]

World(C, T, X, p, b, pub) ==
  [code |-> C, tokens |-> T, touched |-> X, policy |-> p, cache |-> b, published |-> pub]

(* Any findings, under some tokens, on a branch that touched X. *)
Trees(Ts, Xs, Ps, Bs) ==
  {World(C, T, X, p, b, None) : C \in SUBSET Findings, T \in Ts, X \in Xs, p \in Ps, b \in Bs}

VerdictTokens == {OnOne, Lapsed, OnUncover, OnBuild, Garbled, Unbound}
Signed == {{}, {OnOne, OnUncover}, {OnOne, Garbled}} \union {{t} : t \in VerdictTokens}
VerdictPolicies == {NoPolicy, Ratcheted, Scoped, Mixed}
VerdictWorlds ==
  Trees(Signed, {{"a"}}, VerdictPolicies, {None, {}, {1, 3, 4}})
    \union Trees({{}, {OnOne}}, {{"a", "backstop.yml"}}, {NoPolicy}, {{}})

RatchetTokens == {OnOne, OnTwo}
RatchetWorlds == {World({"one", "drift"}, {}, {}, Ratcheted, None, {1, 3})}
=============================================================================
