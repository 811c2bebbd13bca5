--------------------------- MODULE MCPlanSchedule ----------------------------
(***************************************************************************)
(* Two phases: a test, its implementation and a verification, then a       *)
(* refactoring and a second verification.                                  *)
(***************************************************************************)
EXTENDS PlanSchedule

Task(id, phase, type, files, deps) ==
  [id |-> id, phase |-> phase, type |-> type, files |-> files, deps |-> deps, malformed |-> {}]

MCPlan ==
  [malformed |-> {}, status |-> "ready", pointer |-> "absent", form |-> "list",
   phases |-> <<"P1", "P2">>,
   tasks |-> <<Task("t1", 1, "test", {"a"}, {}),
               Task("t2", 1, "implementation", {"b"}, {"t1"}),
               Task("t3", 1, "verification", {"c"}, {"t2"}),
               Task("t4", 2, "refactor", {"b"}, {"t2"}),
               Task("t5", 2, "verification", {"c"}, {"t3", "t4"})>>]
==============================================================================
