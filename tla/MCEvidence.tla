----------------------------- MODULE MCEvidence ------------------------------
(***************************************************************************)
(* A toolchain pack with a linter, a test runner and a coverage tool, a    *)
(* pack with a build engine and a validator, the traceability pack, and a  *)
(* rival that also measures contracts and coverage.                        *)
(***************************************************************************)
EXTENDS Evidence

A == <<"pkg", "a", "code">>
B == <<"pkg", "b", "code">>
T == <<"tests", "check">>
D == <<"testdata", "planted">>

Binding(gate, input, t, success) ==
  [gate |-> gate, input |-> input, tool |-> t, trusted |-> TRUE, wide |-> FALSE, target |-> FALSE,
   packageScoped |-> FALSE, producer |-> "none", artifact |-> FALSE, convert |-> "present",
   guard |-> FALSE, strict |-> FALSE, success |-> success, exempt |-> FALSE,
   prefix |-> <<>>, metrics |-> {}]

Wide(b) == [b EXCEPT !.wide = TRUE]

Lint == [Binding("lint", "rule-flags", "linter", {0}) EXCEPT !.convert = "none", !.strict = TRUE]
Test == [Wide(Binding("test", "none", "runner", {0})) EXCEPT !.target = TRUE,
           !.packageScoped = TRUE, !.artifact = TRUE, !.guard = TRUE]
Cover == [Wide(Binding("coverage", "none", "cover", {0})) EXCEPT !.artifact = TRUE,
            !.prefix = <<"mod">>, !.metrics = {"line"}]
Build == [Wide(Binding("build", "none", "builder", {0})) EXCEPT !.guard = TRUE, !.exempt = TRUE]
Grep == Binding("contracts", "pattern-arg", "grep", {0, 1})
AstGrep == Binding("contracts", "pattern-arg", "ast-grep", {0})
Subst == Binding("substantiveness", "rule-flags", "subst", {0})

Rule(engine, path, pattern) == [engine |-> engine, path |-> path, pattern |-> pattern]

Pack(name, engines, rules, source, test) ==
  [name |-> name, engines |-> engines, rules |-> rules, source |-> source, test |-> test,
   excluded |-> {}, compiler |-> TRUE]

MCBase == ("sandbox" :> Binding("findings", "none", "", {0}))

MCPacks ==
  ("go" :> Pack("go", "lint" :> Lint @@ "test" :> Test @@ "cover" :> Cover,
                <<Rule("lint", "present", <<>>), Rule("test", "none", <<>>),
                  Rule("lint", "present", <<>>), Rule("cover", "none", <<>>)>>, {A, B}, {T}))
  @@ ("house" :> Pack("house", "build" :> Build,
                <<Rule("sandbox", "present", <<"shape">>), Rule("build", "none", <<>>)>>, {}, {}))
  @@ ("rival" :> [Pack("rival", "grep" :> Grep @@ "cover" :> [Cover EXCEPT !.tool = "cover2"],
                <<Rule("cover", "none", <<>>)>>, {A, B}, {}) EXCEPT !.excluded = {A}])
  @@ ("trace" :> Pack("trace", "grep" :> Grep @@ "ast-grep-contracts" :> AstGrep @@ "subst" :> Subst,
                <<Rule("subst", "present", <<>>)>>, {}, {}))

MCPackOrder == <<"go", "house", "rival", "trace">>

Fact(by, file, role) == [by |-> by, file |-> file, role |-> role, severity |-> "error"]

Fresh == {Fact({"linter"}, A, <<"defect">>),
          Fact({"runner"}, T, <<"failed", "T1">>),
          Fact({"builder"}, B, <<"broken">>),
          Fact({"sandbox"}, NoFile, <<"shape">>),
          Fact({"grep", "ast-grep"}, B, <<"symbol", "Old">>),
          Fact({"subst"}, T, <<"hollow", "T1">>)}

MCFirst == {Fact({"linter"}, D, <<"defect">>),
            Fact({"grep", "ast-grep"}, A, <<"symbol", "New">>),
            Fact({"discovery"}, T, <<"test", "T1">>),
            Fact({"discovery"}, T, <<"test", "T2">>),
            Fact({"subst"}, T, <<"calls", "T1", "a">>),
            Fact({"subst"}, T, <<"calls", "T2", "a">>)}

MCFacts == Fresh \cup {d \in MCFirst : d.role[1] \in {"symbol", "calls"}}

Contract(file, name, absent, scope) ==
  [file |-> file, name |-> <<"symbol", name>>, absent |-> absent, scope |-> scope]

Mandate(func) == [func |-> func, target |-> "a", absence |-> FALSE]

MCSpecs ==
  ("s1" :> [file |-> <<"specs", "s1">>, threshold |-> 100, metrics |-> <<>>, pkg |-> <<"pkg">>,
            contracts |-> {Contract(A, "New", FALSE, NoFile)}, tests |-> {Mandate("T1"), Mandate("T2")}])
  @@ ("s2" :> [file |-> <<"specs", "s2">>, threshold |-> 50, metrics |-> "branch" :> 50,
            pkg |-> <<>>, contracts |-> {Contract(B, "Old", TRUE, <<"pkg", "b">>)}, tests |-> {}])

MCFiles == {A, B, T, D}

Break(t, conditions) == {[tool |-> t, to |-> c] : c \in conditions}

MCBreakages ==
  UNION {Break("linter", {"ok", "absent", "dead", "silent", "noise", "foreign"}),
         Break("runner", {"ok", "dead", "silent", "noise"}), Break("builder", {"dead", "silent"}),
         Break("cover", {"ok", "dead", "silent", "foreign"}), Break("cover2", {"noise"}),
         Break("grep", {"dead", "silent"}), Break("ast-grep", {"absent", "silent"}),
         Break("subst", {"silent", "noise"})}

MCEntries == {[gate |-> "coverage", waived |-> FALSE], [gate |-> "contracts", waived |-> TRUE],
              [gate |-> "covrage", waived |-> FALSE]}
==============================================================================
