---------------------------- MODULE PlanSchedule -----------------------------
(***************************************************************************)
(* A plan is phases of tasks with dependencies and files.  The plan        *)
(* validator (pkg/validate/plan.go) accepts or rejects it; implementers,   *)
(* who are not part of this repository, then carry out the tasks, several  *)
(* at once, each after the tasks it depends on.  The rules of the          *)
(* validator exist for that second part, so the model runs both.           *)
(*                                                                         *)
(* A plan record has: malformed (header blocks that fail a pattern),       *)
(* status, pointer, form (of the phases key), phases (the sequence of      *)
(* phase ids, "" for a missing one) and tasks.  A task has its id, the     *)
(* index of its phase, type, files, deps and malformed (title, claims...). *)
(***************************************************************************)
EXTENDS ArtifactRules, FiniteSets

CONSTANTS
  Authored,     \* the plan somebody starts from
  Files,        \* files an edit may add to or take from a task
  Types,        \* types an edit may give to a task
  Names,        \* ids an edit may give to a task
  Unknown,      \* a task id no plan has
  MaxEdits      \* bound: edits before the plan is submitted

VARIABLES
  plan,         \* the plan file
  edits,        \* edits so far
  stage,        \* "editing", "running" or "finished"
  started,      \* task indices that have been started
  done          \* task indices that have been finished

vars == <<plan, edits, stage, started, done>>

------------------------------------------------------------------------------
(* The validator.                                                           *)

planStatuses == {"draft", "ready", "implementing", "completed",
                 "replaced", "canceled", "obsoleted"}

validTaskTypes == {"setup", "test", "implementation", "verification", "refactor", "documentation"}

Tasks == [id : STRING, phase : Nat, type : STRING, files : SUBSET STRING,
          deps : SUBSET STRING, malformed : SUBSET STRING]

Plans == [malformed : SUBSET STRING, status : planStatuses \cup STRING, pointer : STRING,
          form : STRING, phases : Seq(STRING), tasks : Seq(Tasks)]

ASSUME PlanAssumption ==
  /\ Authored \in Plans
  /\ Files \subseteq STRING /\ Types \subseteq STRING /\ Names \subseteq STRING
  /\ Unknown \in STRING /\ MaxEdits \in Nat

Indices(p) == DOMAIN p.tasks
TaskIds(p) == {p.tasks[i].id : i \in Indices(p)} \ {""}
InPhase(p, ph) == {i \in Indices(p) : p.tasks[i].phase = ph}

\* typeMap: an id stands for the last task that has it; an unknown id has no type.
typeMap(p, id) ==
  IF id \in TaskIds(p)
  THEN p.tasks[CHOOSE i \in Indices(p) :
                 /\ p.tasks[i].id = id
                 /\ \A j \in Indices(p) : j > i => p.tasks[j].id # id].type
  ELSE ""

DepTypes(p, i) == {typeMap(p, d) : d \in p.tasks[i].deps}

\* Header of the file.
PlanHeader(p) ==
  Raised([invalidStatus |-> p.status \notin planStatuses])
    \cup (p.malformed \cap {"filename", "planId", "specId", "created", "threshold", "field"})
    \cup validateRetirementFields(p)

PhaseRules(p) ==
  UNION {Raised([phaseIdRequired  |-> p.phases[k] = "",
                 phaseIdDuplicate |-> p.phases[k] # "" /\ \E j \in 1 .. k - 1 : p.phases[j] = p.phases[k],
                 phaseTasksEmpty  |-> InPhase(p, k) = {}]) : k \in DOMAIN p.phases}

TaskRules(p) ==
  UNION {Raised([taskIdRequired    |-> p.tasks[i].id = "",
                 taskIdDuplicate   |-> Duplicate(p.tasks, i),
                 taskFilesEmpty    |-> p.tasks[i].files = {},
                 unknownDependency |-> ~(p.tasks[i].deps \subseteq TaskIds(p)),
                 taskTypeInvalid   |-> p.tasks[i].type \notin validTaskTypes])
           \cup (p.tasks[i].malformed \cap {"title", "description", "claims", "dependsOn"})
         : i \in Indices(p)}

\* An implementation task depends on a test task.
validateTDD(p) ==
  Raised([tddImplRequiresTest |-> \E i \in Indices(p) :
    p.tasks[i].type = "implementation" /\ "test" \notin DepTypes(p, i)])

PhaseTypes(p, k) == {typeMap(p, p.tasks[i].id) : i \in InPhase(p, k)}

\* A phase that changes code has a verification task.
validateGateCadence(p) ==
  Raised([gateCadenceMissing |-> \E k \in DOMAIN p.phases :
    /\ PhaseTypes(p, k) \cap {"implementation", "refactor"} # {}
    /\ "verification" \notin PhaseTypes(p, k)])

\* Mutation: a verification task may come first.
VerificationUnordered(p) == {}

\* A verification task depends on code work.
validateVerificationDeps(p) ==
  Raised([verificationRequiresImpl |-> \E i \in Indices(p) :
    p.tasks[i].type = "verification" /\ DepTypes(p, i) \cap {"implementation", "refactor"} = {}])

validateRefactorDeps(p) ==
  Raised([refactorInvalidDependency |-> \E i \in Indices(p) :
    /\ p.tasks[i].type = "refactor"
    /\ ~(DepTypes(p, i) \subseteq {"", "implementation", "refactor", "test"})])

validateTestTaskDeps(p) ==
  Raised([testInvalidDependency |-> \E i \in Indices(p) :
    /\ p.tasks[i].type = "test"
    /\ ~(DepTypes(p, i) \subseteq {"", "setup", "test", "verification"})])

validateFinalPhase(p) ==
  Raised([finalPhaseNoVerification |-> "verification" \notin PhaseTypes(p, Len(p.phases))])

\* Mutation: the last round is left out.
ClosureShort(row, n) ==
  LET round[k \in 0 .. n] ==
        IF k = 0 THEN row
        ELSE LET prev == round[k - 1]
             IN [i \in 1 .. n |-> IF k \in prev[i] THEN prev[i] \cup prev[k] ELSE prev[i]]
  IN round[n - 1]

\* Warshall's closure, one round per k: a row that has k takes the row of k in.
Closure(row, n) ==
  LET round[k \in 0 .. n] ==
        IF k = 0 THEN row
        ELSE LET prev == round[k - 1]
             IN [i \in 1 .. n |-> IF k \in prev[i] THEN prev[i] \cup prev[k] ELSE prev[i]]
  IN round[n]

TaskDeps(p) ==
  [i \in Indices(p) |-> {j \in Indices(p) : p.tasks[j].id \in p.tasks[i].deps \ {""}}]

PhaseDeps(p) ==
  [k \in DOMAIN p.phases |->
     {l \in DOMAIN p.phases \ {k} :
        \E i \in InPhase(p, k), j \in InPhase(p, l) : p.tasks[j].id \in p.tasks[i].deps \ {""}}]

\* Mutation: tasks of different phases count as ordered.
ExclusiveWithinPhase(p) ==
  LET depends == Closure(TaskDeps(p), Len(p.tasks))
  IN Raised([dependencyCycle |-> \E i \in Indices(p) : i \in depends[i],
             fileExclusivity |-> \E i, j \in Indices(p) :
               /\ i < j /\ p.tasks[i].phase = p.tasks[j].phase
               /\ j \notin depends[i] /\ i \notin depends[j]
               /\ p.tasks[i].files \cap p.tasks[j].files # {}])

\* Mutation: only a task that names itself is a cycle.
ExclusiveButCyclic(p) ==
  LET depends == Closure(TaskDeps(p), Len(p.tasks))
  IN Raised([dependencyCycle |-> \E i \in Indices(p) : i \in TaskDeps(p)[i],
             fileExclusivity |-> \E i, j \in Indices(p) :
               /\ i < j /\ j \notin depends[i] /\ i \notin depends[j]
               /\ p.tasks[i].files \cap p.tasks[j].files # {}])

\* No task depends on itself, and tasks that no dependency orders share no file.
checkFileExclusivity(p) ==
  LET depends == Closure(TaskDeps(p), Len(p.tasks))
  IN Raised([dependencyCycle |-> \E i \in Indices(p) : i \in depends[i],
             fileExclusivity |-> \E i, j \in Indices(p) :
               /\ i < j /\ j \notin depends[i] /\ i \notin depends[j]
               /\ p.tasks[i].files \cap p.tasks[j].files # {}])

PhaseFiles(p, k) == UNION {p.tasks[i].files : i \in InPhase(p, k)}

\* The same for whole phases.
checkPhaseFileExclusivity(p) ==
  LET depends == Closure(PhaseDeps(p), Len(p.phases))
  IN Raised([phaseFileExclusivity |-> \E k, l \in DOMAIN p.phases :
               /\ k < l /\ l \notin depends[k] /\ k \notin depends[l]
               /\ PhaseFiles(p, k) \cap PhaseFiles(p, l) # {}])

validatePhases(p) ==
  IF p.form # "list" THEN {"phasesRequired"}
  ELSE IF p.phases = <<>> THEN {"phasesEmpty"}
  ELSE UNION {PhaseRules(p), TaskRules(p), validateTDD(p), validateGateCadence(p),
              validateVerificationDeps(p), validateRefactorDeps(p), validateTestTaskDeps(p),
              validateFinalPhase(p), checkPhaseFileExclusivity(p), checkFileExclusivity(p)}

\* A retired plan keeps its header only.
Plan(p) == PlanHeader(p) \cup IF isTerminalStatus(p.status) THEN {} ELSE validatePhases(p)

------------------------------------------------------------------------------
(* Authoring and execution.                                                 *)

Init ==
  /\ plan = Authored
  /\ edits = 0
  /\ stage = "editing"
  /\ started = {}
  /\ done = {}

Edit(p) ==
  /\ stage = "editing"
  /\ edits < MaxEdits
  /\ p # plan
  /\ plan' = p
  /\ edits' = edits + 1
  /\ UNCHANGED <<stage, started, done>>

Toggle(S, x) == IF x \in S THEN S \ {x} ELSE S \cup {x}

SetType(i) == \E t \in Types : Edit([plan EXCEPT !.tasks[i].type = t])
EditDeps(i) ==
  \E d \in TaskIds(Authored) \cup {Unknown} : Edit([plan EXCEPT !.tasks[i].deps = Toggle(@, d)])
EditFiles(i) == \E f \in Files : Edit([plan EXCEPT !.tasks[i].files = Toggle(@, f)])
MoveTask(i) == \E k \in DOMAIN plan.phases : Edit([plan EXCEPT !.tasks[i].phase = k])
Rename(i) == \E d \in Names : Edit([plan EXCEPT !.tasks[i].id = d])

\* The plan is submitted; implementation starts only on one that validates.
Approve ==
  /\ stage = "editing"
  /\ ~isTerminalStatus(plan.status)
  /\ Plan(plan) = {}
  /\ stage' = "running"
  /\ plan' = [plan EXCEPT !.status = "implementing"]
  /\ UNCHANGED <<edits, started, done>>

Ready(i) ==
  i \notin started /\ plan.tasks[i].deps \subseteq {plan.tasks[j].id : j \in done}

StartTask(i) ==
  /\ stage = "running"
  /\ Ready(i)
  /\ started' = started \cup {i}
  /\ UNCHANGED <<plan, edits, stage, done>>

FinishTask(i) ==
  /\ i \in started \ done
  /\ done' = done \cup {i}
  /\ UNCHANGED <<plan, edits, stage, started>>

Complete ==
  /\ stage = "running"
  /\ done = Indices(plan)
  /\ stage' = "finished"
  /\ plan' = [plan EXCEPT !.status = "completed"]
  /\ UNCHANGED <<edits, started, done>>

Next ==
  \/ \E i \in Indices(plan) :
       \/ SetType(i) \/ EditDeps(i) \/ EditFiles(i) \/ MoveTask(i) \/ Rename(i)
       \/ StartTask(i) \/ FinishTask(i)
  \/ Approve \/ Complete

SpecP == Init /\ [][Next]_vars

Running == started \ done

------------------------------------------------------------------------------
(* Properties.                                                              *)

\* "Parallel work has disjoint file sets": whatever order the implementers
\* choose, two tasks in progress never touch one file.
ParallelIsDisjoint ==
  \A i, j \in Running : i # j => plan.tasks[i].files \cap plan.tasks[j].files = {}

\* "Tests before implementation", at the moment an implementation starts; and
\* nothing is verified before there is code to verify.
OrderIsKept ==
  \A i \in started :
    /\ plan.tasks[i].type = "implementation" =>
         \E j \in done : plan.tasks[j].type = "test"
    /\ plan.tasks[i].type = "verification" =>
         \E j \in done : plan.tasks[j].type \in {"implementation", "refactor"}

\* An accepted plan can be carried out: as long as tasks are left, one is in
\* progress or can start.
NeverStuck ==
  stage = "running" /\ done # Indices(plan) =>
    Running # {} \/ \E i \in Indices(plan) : Ready(i)

\* The closure the exclusivity rule computes, in one pass of Warshall's rounds,
\* is reachability along dependencies.
OrderIsReachability ==
  LET direct == TaskDeps(plan)
      closed(S) == \A z \in S : direct[z] \subseteq S
      reachable(x) == {y \in Indices(plan) :
                         \A S \in SUBSET Indices(plan) : direct[x] \subseteq S /\ closed(S) => y \in S}
  IN stage = "editing" =>
       Closure(direct, Len(plan.tasks)) = [x \in Indices(plan) |-> reachable(x)]
==============================================================================
