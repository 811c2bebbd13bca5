-------------------------- MODULE PlanScheduleProofs --------------------------
(***************************************************************************)
(* Accepted plans of any size, carried out in any order.                   *)
(*                                                                         *)
(* First the closure: its rounds exist and each closes the rows under one  *)
(* more member, by taking the least round at which that would fail.  Then  *)
(* what acceptance says of a plan, and that a started task has all it      *)
(* depends on, however far, behind it.  The rest follows.                  *)
(***************************************************************************)
EXTENDS PlanSchedule, WellFoundedInduction, FiniteSetTheorems, TLAPS

(* A set of natural numbers has a least member. *)
LEMMA LeastNatural ==
  ASSUME NEW T, T \subseteq Nat, T # {}
  PROVE  \E m \in T : \A k \in T : m <= k
<1>1. IsWellFoundedOn(OpToRel(<, Nat), Nat)
  BY NatLessThanWellFounded
<1>2. PICK x \in T : \A y \in T : ~(<<y, x>> \in OpToRel(<, Nat))
  BY <1>1, WFMin
<1>3. \A y \in T : ~(y < x)
  BY <1>2 DEF OpToRel
<1> QED
  BY <1>3

(* One round of the closure. *)
Round(prev, k, n) == [i \in 1 .. n |-> IF k \in prev[i] THEN prev[i] \cup prev[k] ELSE prev[i]]

(* g is the rounds from the rows up to round m. *)
IsRounds(g, row, n, m) ==
  /\ DOMAIN g = 0 .. m
  /\ g[0] = row
  /\ \A k \in 1 .. m : g[k] = Round(g[k - 1], k, n)

(* The rounds exist, however many. *)
LEMMA RoundsExist ==
  ASSUME NEW row, NEW n \in Nat
  PROVE  \A m \in Nat : \E g : IsRounds(g, row, n, m)
<1> DEFINE Bad == {m \in Nat : ~ \E g : IsRounds(g, row, n, m)}
<1> SUFFICES ASSUME Bad # {} PROVE FALSE
  OBVIOUS
<1>1. PICK m \in Bad : \A k \in Bad : m <= k
  BY LeastNatural
<1>2. CASE m = 0
  <2> DEFINE g == [k \in 0 .. 0 |-> row]
  <2>1. IsRounds(g, row, n, 0)
    BY DEF IsRounds
  <2> QED
    BY <1>2, <2>1
<1>3. CASE m > 0
  <2>1. m - 1 \in Nat /\ m - 1 \notin Bad
    BY <1>1, <1>3
  <2>2. PICK g : IsRounds(g, row, n, m - 1)
    BY <2>1
  <2> DEFINE h == [k \in 0 .. m |-> IF k = m THEN Round(g[m - 1], m, n) ELSE g[k]]
  <2>3. DOMAIN h = 0 .. m /\ h[0] = row
    BY <1>3, <2>2 DEF IsRounds
  <2>4. ASSUME NEW k \in 1 .. m PROVE h[k] = Round(h[k - 1], k, n)
    <3>1. k - 1 \in 0 .. m /\ k - 1 # m
      OBVIOUS
    <3>2. h[k - 1] = g[k - 1]
      BY <3>1
    <3>3. CASE k = m
      BY <3>2, <3>3
    <3>4. CASE k # m
      BY <2>2, <3>2, <3>4 DEF IsRounds
    <3> QED
      BY <3>3, <3>4
  <2>5. IsRounds(h, row, n, m)
    BY <2>3, <2>4 DEF IsRounds
  <2> QED
    BY <2>5
<1> QED
  BY <1>2, <1>3

(* The closure is the last of its rounds. *)
LEMMA ClosureIsLastRound ==
  ASSUME NEW row, NEW n \in Nat
  PROVE  \E g : IsRounds(g, row, n, n) /\ Closure(row, n) = g[n]
<1> DEFINE Eqn(g) ==
      g = [k \in 0 .. n |->
             IF k = 0 THEN row
             ELSE LET prev == g[k - 1]
                  IN [i \in 1 .. n |-> IF k \in prev[i] THEN prev[i] \cup prev[k] ELSE prev[i]]]
<1>1. \E g : Eqn(g)
  <2>1. PICK g : IsRounds(g, row, n, n)
    BY RoundsExist
  <2> DEFINE h == [k \in 0 .. n |-> g[k]]
  <2>2. h = [k \in 0 .. n |->
             IF k = 0 THEN row
             ELSE LET prev == h[k - 1]
                  IN [i \in 1 .. n |-> IF k \in prev[i] THEN prev[i] \cup prev[k] ELSE prev[i]]]
    <3>1. ASSUME NEW k \in 0 .. n
          PROVE  g[k] = IF k = 0 THEN row ELSE Round(h[k - 1], k, n)
      <4>1. CASE k = 0
        BY <2>1, <4>1 DEF IsRounds
      <4>2. CASE k # 0
        <5>1. k \in 1 .. n /\ k - 1 \in 0 .. n
          BY <4>2
        <5>2. g[k] = Round(g[k - 1], k, n)
          BY <2>1, <5>1 DEF IsRounds
        <5> QED
          BY <4>2, <5>1, <5>2
      <4> QED
        BY <4>1, <4>2
    <3> QED
      BY <3>1 DEF Round
  <2> QED
    BY <2>2
<1> DEFINE c == CHOOSE g : Eqn(g)
<1>2. Eqn(c)
  BY <1>1
<1>3. Closure(row, n) = c[n]
  BY DEF Closure
<1>4. IsRounds(c, row, n, n)
  <2> HIDE DEF c
  <2>1. DOMAIN c = 0 .. n /\ c[0] = row
    BY <1>2
  <2>2. ASSUME NEW k \in 1 .. n PROVE c[k] = Round(c[k - 1], k, n)
    <3>1. k \in 0 .. n /\ k # 0
      OBVIOUS
    <3>2. c[k] = [i \in 1 .. n |-> IF k \in c[k - 1][i] THEN c[k - 1][i] \cup c[k - 1][k]
                                                      ELSE c[k - 1][i]]
      BY <1>2, <3>1
    <3> QED
      BY <3>2 DEF Round
  <2> QED
    BY <2>1, <2>2 DEF IsRounds
<1> QED
  BY <1>3, <1>4

(* What a round has done: the rows hold the direct members and, with each   *)
(* of the first k members, what that one has; and nothing out of reach.    *)
ClosedUpTo(rows, row, n, k) ==
  /\ rows \in [1 .. n -> SUBSET (1 .. n)]
  /\ \A i \in 1 .. n : row[i] \subseteq rows[i]
  /\ \A i \in 1 .. n : \A m \in 1 .. k : m \in rows[i] => rows[m] \subseteq rows[i]
  /\ \A i \in 1 .. n, S \in SUBSET (1 .. n) :
       row[i] \subseteq S /\ (\A z \in S : row[z] \subseteq S) => rows[i] \subseteq S

(* One round closes the rows under one more member. *)
LEMMA RoundCloses ==
  ASSUME NEW n \in Nat, NEW row \in [1 .. n -> SUBSET (1 .. n)], NEW prev, NEW k \in 1 .. n,
         ClosedUpTo(prev, row, n, k - 1)
  PROVE  ClosedUpTo(Round(prev, k, n), row, n, k)
<1> DEFINE next == Round(prev, k, n)
<1>0. prev \in [1 .. n -> SUBSET (1 .. n)]
  BY DEF ClosedUpTo
<1>1. \A i \in 1 .. n : next[i] = IF k \in prev[i] THEN prev[i] \cup prev[k] ELSE prev[i]
  BY DEF Round
<1>2. next \in [1 .. n -> SUBSET (1 .. n)]
  BY <1>0 DEF Round
<1> HIDE DEF next
<1>3. \A i \in 1 .. n : row[i] \subseteq next[i]
  BY <1>1 DEF ClosedUpTo
<1>4. ASSUME NEW i \in 1 .. n, NEW m \in 1 .. k, m \in next[i]
      PROVE  next[m] \subseteq next[i]
  <2>0. m \in 1 .. n
    OBVIOUS
  <2>1. \A a \in 1 .. n : m # k /\ m \in prev[a] => prev[m] \subseteq prev[a]
    <3>1. m # k => m \in 1 .. (k - 1)
      OBVIOUS
    <3> QED
      BY <3>1 DEF ClosedUpTo
  <2>2. CASE m = k
    BY <1>1, <1>4, <2>0, <2>2
  <2>3. CASE m # k
    BY <1>1, <1>4, <2>0, <2>1, <2>3
  <2> QED
    BY <2>2, <2>3
<1>5. ASSUME NEW i \in 1 .. n, NEW S \in SUBSET (1 .. n), row[i] \subseteq S,
             \A z \in S : row[z] \subseteq S
      PROVE  next[i] \subseteq S
  <2>1. prev[i] \subseteq S
    BY <1>5 DEF ClosedUpTo
  <2>2. k \in S => prev[k] \subseteq S
    BY <1>5 DEF ClosedUpTo
  <2> QED
    BY <1>1, <2>1, <2>2
<1>6. ClosedUpTo(next, row, n, k)
  BY <1>2, <1>3, <1>4, <1>5 DEF ClosedUpTo
<1> QED
  BY <1>6 DEF next

(* Warshall's closure, as the validator computes it, is reachability: for   *)
(* any number of tasks, a row of the closure is the least set that has the *)
(* direct members and is closed under taking members.                      *)
LEMMA ClosureIsClosed ==
  ASSUME NEW n \in Nat, NEW row \in [1 .. n -> SUBSET (1 .. n)]
  PROVE  ClosedUpTo(Closure(row, n), row, n, n)
<1>1. PICK g : IsRounds(g, row, n, n) /\ Closure(row, n) = g[n]
  BY ClosureIsLastRound
<1> DEFINE Bad == {k \in 0 .. n : ~ClosedUpTo(g[k], row, n, k)}
<1> SUFFICES ASSUME Bad # {} PROVE FALSE
  BY <1>1
<1>2. PICK k \in Bad : \A m \in Bad : k <= m
  <2>1. Bad \subseteq Nat
    OBVIOUS
  <2> HIDE DEF Bad
  <2> QED
    BY <2>1, LeastNatural
<1>3. CASE k = 0
  <2>1. ClosedUpTo(row, row, n, 0)
    BY DEF ClosedUpTo
  <2>2. g[k] = row
    BY <1>1, <1>3 DEF IsRounds
  <2> QED
    BY <1>2, <1>3, <2>1, <2>2
<1>4. CASE k # 0
  <2>1. k \in 1 .. n /\ k - 1 \in 0 .. n /\ k - 1 \notin Bad
    BY <1>2, <1>4
  <2>2. ClosedUpTo(g[k - 1], row, n, k - 1) /\ g[k] = Round(g[k - 1], k, n)
    BY <1>1, <2>1 DEF IsRounds
  <2> QED
    BY <2>1, <2>2, RoundCloses
<1> QED
  BY <1>3, <1>4

-----------------------------------------------------------------------------
(* An accepted plan *)

(* Of the rules that a plan passes, those the execution depends on. *)
Accepted(p) ==
  /\ \A i \in Indices(p) :
       /\ p.tasks[i].id # ""
       /\ \A j \in Indices(p) : p.tasks[j].id = p.tasks[i].id => j = i
       /\ p.tasks[i].deps \subseteq TaskIds(p)
       /\ p.tasks[i].type = "implementation" => "test" \in DepTypes(p, i)
       /\ p.tasks[i].type = "verification" => DepTypes(p, i) \cap {"implementation", "refactor"} # {}
  /\ LET depends == Closure(TaskDeps(p), Len(p.tasks))
     IN /\ \A i \in Indices(p) : i \notin depends[i]
        /\ \A i, j \in Indices(p) :
             i < j /\ j \notin depends[i] /\ i \notin depends[j] =>
               p.tasks[i].files \cap p.tasks[j].files = {}

(* The rows the closure starts from are relations on the tasks. *)
LEMMA TaskDepsType ==
  ASSUME NEW p \in Plans
  PROVE  /\ Len(p.tasks) \in Nat /\ Indices(p) = 1 .. Len(p.tasks)
         /\ TaskDeps(p) \in [1 .. Len(p.tasks) -> SUBSET (1 .. Len(p.tasks))]
         /\ ClosedUpTo(Closure(TaskDeps(p), Len(p.tasks)), TaskDeps(p), Len(p.tasks), Len(p.tasks))
<1>1. p.tasks \in Seq(Tasks)
  BY DEF Plans
<1>2. Len(p.tasks) \in Nat /\ Indices(p) = 1 .. Len(p.tasks)
  BY <1>1 DEF Indices
<1>3. TaskDeps(p) \in [1 .. Len(p.tasks) -> SUBSET (1 .. Len(p.tasks))]
  BY <1>2 DEF TaskDeps
<1> QED
  BY <1>2, <1>3, ClosureIsClosed

(* A plan the validator accepts has those properties. *)
LEMMA PlanAccepts ==
  ASSUME NEW p \in Plans, ~isTerminalStatus(p.status), Plan(p) = {}
  PROVE  Accepted(p)
<1>1. /\ p.tasks \in Seq(Tasks) /\ Indices(p) = 1 .. Len(p.tasks) /\ Len(p.tasks) \in Nat
  BY TaskDepsType DEF Plans
<1>2. validatePhases(p) = {}
  BY DEF Plan
<1>3. /\ TaskRules(p) = {} /\ validateTDD(p) = {} /\ validateVerificationDeps(p) = {}
      /\ checkFileExclusivity(p) = {}
  BY <1>2 DEF validatePhases
<1>4. ASSUME NEW i \in Indices(p)
      PROVE  /\ p.tasks[i].id # "" /\ ~Duplicate(p.tasks, i)
             /\ p.tasks[i].deps \subseteq TaskIds(p)
  <2> DEFINE table(k) ==
        [taskIdRequired    |-> p.tasks[k].id = "",
         taskIdDuplicate   |-> Duplicate(p.tasks, k),
         taskFilesEmpty    |-> p.tasks[k].files = {},
         unknownDependency |-> ~(p.tasks[k].deps \subseteq TaskIds(p)),
         taskTypeInvalid   |-> p.tasks[k].type \notin validTaskTypes]
  <2> DEFINE other(k) == p.tasks[k].malformed \cap {"title", "description", "claims", "dependsOn"}
  <2>1. TaskRules(p) = UNION {Raised(table(k)) \cup other(k) : k \in Indices(p)}
    BY DEF TaskRules
  <2>2. Raised(table(i)) = {}
    <3> HIDE DEF table, other
    <3>1. Raised(table(i)) \cup other(i) \subseteq TaskRules(p)
      BY <2>1
    <3> QED
      BY <1>3, <3>1
  <2>3. ~table(i)["taskIdRequired"] /\ ~table(i)["taskIdDuplicate"] /\ ~table(i)["unknownDependency"]
    BY <2>2 DEF Raised
  <2> QED
    BY <2>3
<1>5. ASSUME NEW i \in Indices(p), NEW j \in Indices(p), p.tasks[j].id = p.tasks[i].id
      PROVE  j = i
  <2>1. ~Duplicate(p.tasks, i) /\ ~Duplicate(p.tasks, j) /\ p.tasks[i].id # "" /\ p.tasks[j].id # ""
    BY <1>4
  <2>2. (j < i => j \in 1 .. i - 1) /\ (i < j => i \in 1 .. j - 1)
    BY <1>1
  <2>3. ~(j < i) /\ ~(i < j)
    BY <1>5, <2>1, <2>2 DEF Duplicate
  <2> QED
    BY <1>1, <2>3
<1>6. ASSUME NEW i \in Indices(p), p.tasks[i].type = "implementation"
      PROVE  "test" \in DepTypes(p, i)
  <2> DEFINE missing == \E k \in Indices(p) :
                          p.tasks[k].type = "implementation" /\ "test" \notin DepTypes(p, k)
  <2>1. Raised([tddImplRequiresTest |-> missing]) = {}
    BY <1>3 DEF validateTDD
  <2>2. ~missing
    <3> HIDE DEF missing
    <3> QED
      BY <2>1 DEF Raised
  <2> QED
    BY <1>6, <2>2
<1>7. ASSUME NEW i \in Indices(p), p.tasks[i].type = "verification"
      PROVE  DepTypes(p, i) \cap {"implementation", "refactor"} # {}
  <2> DEFINE missing == \E k \in Indices(p) :
                          /\ p.tasks[k].type = "verification"
                          /\ DepTypes(p, k) \cap {"implementation", "refactor"} = {}
  <2>1. Raised([verificationRequiresImpl |-> missing]) = {}
    BY <1>3 DEF validateVerificationDeps
  <2>2. ~missing
    <3> HIDE DEF missing
    <3> QED
      BY <2>1 DEF Raised
  <2> QED
    BY <1>7, <2>2
<1> DEFINE depends == Closure(TaskDeps(p), Len(p.tasks))
<1>8. /\ \A i \in Indices(p) : i \notin depends[i]
      /\ \A i, j \in Indices(p) :
           i < j /\ j \notin depends[i] /\ i \notin depends[j] =>
             p.tasks[i].files \cap p.tasks[j].files = {}
  <2> HIDE DEF depends
  <2> DEFINE cycle == \E i \in Indices(p) : i \in depends[i]
  <2> DEFINE clash == \E i, j \in Indices(p) :
                        /\ i < j /\ j \notin depends[i] /\ i \notin depends[j]
                        /\ p.tasks[i].files \cap p.tasks[j].files # {}
  <2> DEFINE table == [dependencyCycle |-> cycle, fileExclusivity |-> clash]
  <2>1. Raised(table) = {}
    BY <1>3 DEF checkFileExclusivity, depends
  <2>2. ~table["dependencyCycle"] /\ ~table["fileExclusivity"]
    <3> HIDE DEF cycle, clash
    <3> QED
      BY <2>1 DEF Raised
  <2>3. ~cycle /\ ~clash
    <3> HIDE DEF cycle, clash
    <3> QED
      BY <2>2
  <2> QED
    BY <2>3
<1> QED
  BY <1>4, <1>5, <1>6, <1>7, <1>8 DEF Accepted

(* In an accepted plan an id stands for the one task that has it. *)
LEMMA TypeOfId ==
  ASSUME NEW p \in Plans, Accepted(p), NEW j \in Indices(p)
  PROVE  typeMap(p, p.tasks[j].id) = p.tasks[j].type
<1>1. p.tasks[j].id \in TaskIds(p)
  BY DEF Accepted, TaskIds
<1>2. \A i \in Indices(p) :
        (/\ p.tasks[i].id = p.tasks[j].id
         /\ \A k \in Indices(p) : k > i => p.tasks[k].id # p.tasks[j].id) <=> i = j
  <2>1. \A k \in Indices(p) : ~(k > k)
    BY TaskDepsType
  <2>2. \A k \in Indices(p) : p.tasks[k].id = p.tasks[j].id => k = j
    BY DEF Accepted
  <2> QED
    BY <2>1, <2>2
<1>3. j = CHOOSE i \in Indices(p) :
            /\ p.tasks[i].id = p.tasks[j].id
            /\ \A k \in Indices(p) : k > i => p.tasks[k].id # p.tasks[j].id
  BY <1>2
<1> QED
  BY <1>1, <1>3 DEF typeMap

-----------------------------------------------------------------------------
(* The execution *)

TypeOK ==
  /\ plan \in Plans
  /\ edits \in Nat
  /\ stage \in {"editing", "running", "finished"}
  /\ started \subseteq Indices(plan)
  /\ done \subseteq started

(* Nobody works on a plan in the making; the plan worked on was accepted;   *)
(* and a task was only started when the tasks it names were done.          *)
ScheduleInv ==
  /\ TypeOK
  /\ stage = "editing" => started = {}
  /\ stage # "editing" => Accepted(plan)
  /\ \A i \in started : plan.tasks[i].deps \subseteq {plan.tasks[j].id : j \in done}

(* The rules look at the tasks, not at the status. *)
LEMMA AcceptedIgnoresStatus ==
  ASSUME NEW p, NEW q, q.tasks = p.tasks, Accepted(p)
  PROVE  Accepted(q)
<1>1. Indices(q) = Indices(p) /\ TaskIds(q) = TaskIds(p) /\ TaskDeps(q) = TaskDeps(p)
  BY DEF Indices, TaskIds, TaskDeps
<1>2. \A id : typeMap(q, id) = typeMap(p, id)
  BY <1>1 DEF typeMap
<1>3. \A i \in Indices(p) : DepTypes(q, i) = DepTypes(p, i)
  BY <1>2 DEF DepTypes
<1> QED
  BY <1>1, <1>3 DEF Accepted

(* A task with another type, other dependencies, files, phase or name. *)
LEMMA EditedTask ==
  ASSUME NEW p \in Plans, NEW i \in Indices(p), NEW t \in Tasks,
         NEW q, q = [p EXCEPT !.tasks[i] = t]
  PROVE  q \in Plans /\ Indices(q) = Indices(p)
<1>1. p.tasks \in Seq(Tasks) /\ i \in 1 .. Len(p.tasks)
  BY DEF Plans, Indices
<1>2. [p.tasks EXCEPT ![i] = t] \in Seq(Tasks) /\ DOMAIN [p.tasks EXCEPT ![i] = t] = DOMAIN p.tasks
  BY <1>1
<1> QED
  BY <1>2 DEF Plans, Indices

(* What any edit does to the plan: it stays a plan with as many tasks. *)
LEMMA EditType ==
  ASSUME TypeOK, NEW i \in Indices(plan),
         SetType(i) \/ EditDeps(i) \/ EditFiles(i) \/ MoveTask(i) \/ Rename(i)
  PROVE  /\ plan' \in Plans /\ Indices(plan') = Indices(plan)
         /\ stage = "editing" /\ edits' \in Nat /\ UNCHANGED <<stage, started, done>>
<1> USE PlanAssumption
<1>0. plan \in Plans /\ plan.tasks \in Seq(Tasks) /\ plan.tasks[i] \in Tasks /\ edits \in Nat
  BY DEF TypeOK, Plans, Indices
<1>1. PICK t \in Tasks : Edit([plan EXCEPT !.tasks[i] = t])
  <2>1. CASE SetType(i)
    <3>1. PICK x \in Types : Edit([plan EXCEPT !.tasks[i].type = x])
      BY <2>1 DEF SetType
    <3>2. [plan.tasks[i] EXCEPT !.type = x] \in Tasks
      BY <1>0 DEF Tasks
    <3> QED
      BY <3>1, <3>2
  <2>2. CASE EditDeps(i)
    <3>1. PICK d \in TaskIds(Authored) \cup {Unknown} :
            Edit([plan EXCEPT !.tasks[i].deps = Toggle(@, d)])
      BY <2>2 DEF EditDeps
    <3>2. d \in STRING
      <4>1. CASE d = Unknown
        BY <4>1
      <4>2. CASE d \in TaskIds(Authored)
        <5>1. PICK k \in Indices(Authored) : d = Authored.tasks[k].id
          BY <4>2 DEF TaskIds
        <5>2. Authored.tasks[k] \in Tasks
          BY <5>1 DEF Indices, Plans
        <5> QED
          BY <5>1, <5>2 DEF Tasks
      <4> QED
        BY <3>1, <4>1, <4>2
    <3>3. [plan.tasks[i] EXCEPT !.deps = Toggle(plan.tasks[i].deps, d)] \in Tasks
      BY <1>0, <3>2 DEF Tasks, Toggle
    <3> QED
      BY <3>1, <3>3
  <2>3. CASE EditFiles(i)
    <3>1. PICK x \in Files : Edit([plan EXCEPT !.tasks[i].files = Toggle(@, x)])
      BY <2>3 DEF EditFiles
    <3>2. [plan.tasks[i] EXCEPT !.files = Toggle(plan.tasks[i].files, x)] \in Tasks
      BY <1>0 DEF Tasks, Toggle
    <3> QED
      BY <3>1, <3>2
  <2>4. CASE MoveTask(i)
    <3>1. PICK k \in DOMAIN plan.phases : Edit([plan EXCEPT !.tasks[i].phase = k])
      BY <2>4 DEF MoveTask
    <3>2. k \in Nat
      BY <1>0 DEF Plans
    <3>3. [plan.tasks[i] EXCEPT !.phase = k] \in Tasks
      BY <1>0, <3>2 DEF Tasks
    <3> QED
      BY <3>1, <3>3
  <2>5. CASE Rename(i)
    <3>1. PICK x \in Names : Edit([plan EXCEPT !.tasks[i].id = x])
      BY <2>5 DEF Rename
    <3>2. [plan.tasks[i] EXCEPT !.id = x] \in Tasks
      BY <1>0 DEF Tasks
    <3> QED
      BY <3>1, <3>2
  <2> QED
    BY <2>1, <2>2, <2>3, <2>4, <2>5
<1> QED
  <2>1. plan' = [plan EXCEPT !.tasks[i] = t]
    BY <1>1 DEF Edit
  <2>2. plan' \in Plans /\ Indices(plan') = Indices(plan)
    BY <1>0, <2>1, EditedTask
  <2> QED
    BY <1>0, <1>1, <2>2 DEF Edit

(* Every step keeps the invariant. *)
LEMMA ScheduleStep == ScheduleInv /\ [Next]_vars => ScheduleInv'
<1> SUFFICES ASSUME ScheduleInv, [Next]_vars PROVE ScheduleInv'
  OBVIOUS
<1>0. TypeOK
  BY DEF ScheduleInv
<1>1. ASSUME NEW i \in Indices(plan),
             SetType(i) \/ EditDeps(i) \/ EditFiles(i) \/ MoveTask(i) \/ Rename(i)
      PROVE  ScheduleInv'
  <2>1. /\ plan' \in Plans /\ Indices(plan') = Indices(plan)
        /\ stage = "editing" /\ edits' \in Nat /\ UNCHANGED <<stage, started, done>>
    BY <1>0, <1>1, EditType
  <2>2. started = {} /\ done = {}
    BY <2>1 DEF ScheduleInv, TypeOK
  <2> QED
    BY <2>1, <2>2 DEF ScheduleInv, TypeOK
<1>2. CASE Approve
  <2>1. plan \in Plans /\ Accepted(plan)
    BY <1>0, <1>2, PlanAccepts DEF Approve, TypeOK
  <2>2. plan' \in Plans /\ plan'.tasks = plan.tasks /\ Accepted(plan')
    <3>1. plan' \in Plans /\ plan'.tasks = plan.tasks
      BY <1>2, <2>1 DEF Approve, Plans, planStatuses
    <3> QED
      BY <2>1, <3>1, AcceptedIgnoresStatus
  <2> QED
    BY <1>2, <2>2 DEF Approve, ScheduleInv, TypeOK, Indices
<1>3. CASE Complete
  <2>1. plan \in Plans /\ Accepted(plan)
    BY <1>3 DEF Complete, ScheduleInv, TypeOK
  <2>2. plan' \in Plans /\ plan'.tasks = plan.tasks /\ Accepted(plan')
    <3>1. plan' \in Plans /\ plan'.tasks = plan.tasks
      BY <1>3, <2>1 DEF Complete, Plans, planStatuses
    <3> QED
      BY <2>1, <3>1, AcceptedIgnoresStatus
  <2> QED
    BY <1>3, <2>2 DEF Complete, ScheduleInv, TypeOK, Indices
<1>4. ASSUME NEW i \in Indices(plan), StartTask(i) PROVE ScheduleInv'
  BY <1>4 DEF StartTask, Ready, ScheduleInv, TypeOK
<1>5. ASSUME NEW i \in Indices(plan), FinishTask(i) PROVE ScheduleInv'
  BY <1>5 DEF FinishTask, ScheduleInv, TypeOK
<1>6. CASE UNCHANGED vars
  BY <1>6 DEF vars, ScheduleInv, TypeOK
<1> QED
  BY <1>1, <1>2, <1>3, <1>4, <1>5, <1>6 DEF Next

(* Nothing has been started in the first state. *)
LEMMA InitHolds == Init => ScheduleInv
BY PlanAssumption DEF Init, ScheduleInv, TypeOK

(* The invariant holds throughout. *)
LEMMA ScheduleHolds == SpecP => []ScheduleInv
BY InitHolds, ScheduleStep, PTL DEF SpecP

-----------------------------------------------------------------------------
(* When a task has been started, all it depends on, however far, is done. *)
LEMMA DependenciesAreDone ==
  ASSUME ScheduleInv, NEW j \in started
  PROVE  Closure(TaskDeps(plan), Len(plan.tasks))[j] \subseteq done
<1>1. plan \in Plans /\ Accepted(plan) /\ started \subseteq Indices(plan) /\ done \subseteq started
  BY DEF ScheduleInv, TypeOK
<1>2. ASSUME NEW i \in started PROVE TaskDeps(plan)[i] \subseteq done
  <2> SUFFICES ASSUME NEW k \in TaskDeps(plan)[i] PROVE k \in done
    OBVIOUS
  <2>1. k \in Indices(plan) /\ plan.tasks[k].id \in plan.tasks[i].deps
    BY <1>1 DEF TaskDeps
  <2>2. PICK l \in done : plan.tasks[l].id = plan.tasks[k].id
    BY <2>1 DEF ScheduleInv
  <2> QED
    BY <1>1, <2>1, <2>2 DEF Accepted
<1>3. /\ Indices(plan) = 1 .. Len(plan.tasks)
      /\ ClosedUpTo(Closure(TaskDeps(plan), Len(plan.tasks)), TaskDeps(plan), Len(plan.tasks),
                    Len(plan.tasks))
  BY <1>1, TaskDepsType
<1>4. done \in SUBSET (1 .. Len(plan.tasks)) /\ j \in 1 .. Len(plan.tasks)
  BY <1>1, <1>3
<1>5. TaskDeps(plan)[j] \subseteq done /\ \A z \in done : TaskDeps(plan)[z] \subseteq done
  BY <1>1, <1>2
<1> QED
  BY <1>3, <1>4, <1>5 DEF ClosedUpTo

(* Whatever the plan and the order of the implementers, two tasks in        *)
(* progress touch no common file: checkFileExclusivity lets a pair share a *)
(* file only if its closure orders them, and then one is done before the   *)
(* other starts.                                                           *)
THEOREM ParallelWorkIsDisjoint == SpecP => []ParallelIsDisjoint
<1>1. ScheduleInv => ParallelIsDisjoint
  <2> SUFFICES ASSUME ScheduleInv, NEW i \in Running, NEW j \in Running, i # j
               PROVE  plan.tasks[i].files \cap plan.tasks[j].files = {}
    BY DEF ParallelIsDisjoint
  <2> DEFINE depends == Closure(TaskDeps(plan), Len(plan.tasks))
  <2>1. /\ i \in started /\ j \in started /\ i \notin done /\ j \notin done
        /\ i \in Indices(plan) /\ j \in Indices(plan)
    BY DEF Running, ScheduleInv, TypeOK
  <2>2. j \notin depends[i] /\ i \notin depends[j]
    BY <2>1, DependenciesAreDone
  <2>3. stage # "editing" /\ plan \in Plans
    BY <2>1 DEF ScheduleInv, TypeOK
  <2>4. Accepted(plan)
    BY <2>3 DEF ScheduleInv
  <2>5. i < j \/ j < i
    BY <2>1, <2>3, TaskDepsType
  <2> QED
    BY <2>1, <2>2, <2>4, <2>5 DEF Accepted
<1> QED
  BY <1>1, ScheduleHolds, PTL

(* A type the rules ask for among the dependencies is the type of a task    *)
(* that is done.                                                           *)
LEMMA DepTypeIsDone ==
  ASSUME ScheduleInv, NEW i \in started, NEW type \in DepTypes(plan, i)
  PROVE  \E j \in done : plan.tasks[j].type = type
<1>1. plan \in Plans /\ Accepted(plan) /\ i \in Indices(plan) /\ done \subseteq Indices(plan)
  BY DEF ScheduleInv, TypeOK
<1>2. PICK d \in plan.tasks[i].deps : type = typeMap(plan, d)
  BY DEF DepTypes
<1>3. PICK j \in done : plan.tasks[j].id = d
  BY DEF ScheduleInv
<1> QED
  BY <1>1, <1>2, <1>3, TypeOfId

(* Whatever the plan: when an implementation starts a test is done, and     *)
(* when a verification starts there is code to verify.                     *)
THEOREM TestsComeFirst == SpecP => []OrderIsKept
<1>1. ScheduleInv => OrderIsKept
  <2> SUFFICES ASSUME ScheduleInv, NEW i \in started
               PROVE  /\ plan.tasks[i].type = "implementation" =>
                           \E j \in done : plan.tasks[j].type = "test"
                      /\ plan.tasks[i].type = "verification" =>
                           \E j \in done : plan.tasks[j].type \in {"implementation", "refactor"}
    BY DEF OrderIsKept
  <2>1. Accepted(plan) /\ i \in Indices(plan)
    BY DEF ScheduleInv, TypeOK
  <2>2. plan.tasks[i].type = "implementation" => "test" \in DepTypes(plan, i)
    BY <2>1 DEF Accepted
  <2>3. plan.tasks[i].type = "verification" =>
          \E type \in DepTypes(plan, i) : type \in {"implementation", "refactor"}
    BY <2>1 DEF Accepted
  <2> QED
    BY <2>2, <2>3, DepTypeIsDone
<1> QED
  BY <1>1, ScheduleHolds, PTL

(* The strictest of a set of tasks: no other one of them has fewer          *)
(* dependencies, as sets.                                                  *)
LEMMA LeastRow ==
  ASSUME NEW n \in Nat, NEW rows \in [1 .. n -> SUBSET (1 .. n)],
         NEW T \in SUBSET (1 .. n), T # {}
  PROVE  \E i \in T : \A j \in T : rows[j] \subseteq rows[i] => rows[j] = rows[i]
<1> DEFINE R == StrictSubsetOrdering(1 .. n)
<1>1. IsFiniteSet(1 .. n)
  BY FS_Interval
<1>2. FiniteSubsetsOf(1 .. n) = SUBSET (1 .. n)
  BY <1>1, FS_FiniteSubsetsOfFinite
<1>3. IsWellFoundedOn(R, SUBSET (1 .. n))
  BY <1>2, FS_StrictSubsetOrderingWellFounded
<1> DEFINE family == {rows[i] : i \in T}
<1>4. family \subseteq SUBSET (1 .. n) /\ family # {}
  OBVIOUS
<1>5. PICK x \in family : \A y \in family : ~(<<y, x>> \in R)
  <2> HIDE DEF R, family
  <2> QED
    BY <1>3, <1>4, WFMin
<1>6. PICK i \in T : x = rows[i]
  OBVIOUS
<1>7. ASSUME NEW j \in T, rows[j] \subseteq rows[i] PROVE rows[j] = rows[i]
  <2>1. ~(<<rows[j], rows[i]>> \in R)
    BY <1>5, <1>6
  <2> QED
    BY <1>7, <2>1 DEF StrictSubsetOrdering
<1> QED
  BY <1>7

(* An accepted plan never runs into a wait of all for all: as long as tasks *)
(* are left, one is in progress or can start.                              *)
THEOREM PlansFinish == SpecP => []NeverStuck
<1>1. ScheduleInv => NeverStuck
  <2> SUFFICES ASSUME ScheduleInv, stage = "running", done # Indices(plan), Running = {},
                      \A i \in Indices(plan) : ~Ready(i)
               PROVE  FALSE
    BY DEF NeverStuck
  <2> DEFINE n == Len(plan.tasks)
  <2> DEFINE depends == Closure(TaskDeps(plan), n)
  <2> DEFINE left == Indices(plan) \ done
  <2>1. /\ plan \in Plans /\ Accepted(plan) /\ started = done /\ done \subseteq Indices(plan)
        /\ n \in Nat /\ Indices(plan) = 1 .. n
        /\ ClosedUpTo(depends, TaskDeps(plan), n, n)
    BY TaskDepsType DEF ScheduleInv, TypeOK, Running
  <2>2. ASSUME NEW i \in left PROVE \E j \in left : j \in depends[i]
    <3>1. PICK d \in plan.tasks[i].deps : d \notin {plan.tasks[j].id : j \in done}
      BY <2>1, <2>2 DEF Ready
    <3>2. PICK j \in Indices(plan) : plan.tasks[j].id = d /\ d # ""
      <4>1. d \in TaskIds(plan)
        BY <2>1, <3>1 DEF Accepted
      <4> QED
        BY <4>1 DEF TaskIds
    <3>3. j \in left /\ j \in TaskDeps(plan)[i]
      BY <2>2, <3>1, <3>2 DEF TaskDeps
    <3> QED
      BY <2>1, <3>3 DEF ClosedUpTo
  <2> HIDE DEF depends, n
  <2>3. depends \in [1 .. n -> SUBSET (1 .. n)] /\ left \in SUBSET (1 .. n) /\ left # {}
    BY <2>1 DEF ClosedUpTo
  <2>4. PICK i \in left : \A j \in left : depends[j] \subseteq depends[i] => depends[j] = depends[i]
    <3> HIDE DEF left
    <3> QED
      BY <2>1, <2>3, LeastRow
  <2>5. PICK j \in left : j \in depends[i]
    BY <2>2
  <2>6. depends[j] \subseteq depends[i]
    BY <2>1, <2>5 DEF ClosedUpTo
  <2>7. j \notin depends[j]
    BY <2>1 DEF Accepted, depends, n
  <2> QED
    BY <2>4, <2>5, <2>6, <2>7
<1> QED
  BY <1>1, ScheduleHolds, PTL

(* One pass of Warshall's rounds over the dependencies of any plan computes *)
(* what a task can reach along them.                                       *)
THEOREM ClosureIsReachability == SpecP => []OrderIsReachability
<1>1. ScheduleInv => OrderIsReachability
  <2> SUFFICES ASSUME ScheduleInv PROVE OrderIsReachability
    OBVIOUS
  <2> DEFINE n == Len(plan.tasks)
  <2> DEFINE direct == TaskDeps(plan)
  <2> DEFINE C == Closure(direct, n)
  <2> DEFINE closed(S) == \A z \in S : direct[z] \subseteq S
  <2> DEFINE reachable(x) ==
        {y \in Indices(plan) :
           \A S \in SUBSET Indices(plan) : direct[x] \subseteq S /\ closed(S) => y \in S}
  <2>1. /\ n \in Nat /\ Indices(plan) = 1 .. n /\ direct \in [1 .. n -> SUBSET (1 .. n)]
        /\ ClosedUpTo(C, direct, n, n)
    BY TaskDepsType DEF ScheduleInv, TypeOK
  <2> HIDE DEF C, direct, n
  <2>2. C \in [1 .. n -> SUBSET (1 .. n)]
    BY <2>1 DEF ClosedUpTo
  <2>3. ASSUME NEW x \in 1 .. n PROVE C[x] = reachable(x)
    <3>1. C[x] \subseteq reachable(x)
      BY <2>1, <2>2 DEF ClosedUpTo
    <3>2. direct[x] \subseteq C[x] /\ C[x] \in SUBSET (1 .. n)
      BY <2>1, <2>2 DEF ClosedUpTo
    <3>3. closed(C[x])
      <4> SUFFICES ASSUME NEW z \in C[x] PROVE direct[z] \subseteq C[x]
        OBVIOUS
      <4>1. z \in 1 .. n
        BY <3>2
      <4> QED
        BY <2>1, <4>1 DEF ClosedUpTo
    <3>4. reachable(x) \subseteq C[x]
      BY <2>1, <3>2, <3>3
    <3> QED
      BY <3>1, <3>4
  <2>4. C = [x \in Indices(plan) |-> reachable(x)]
    <3> HIDE DEF reachable
    <3> QED
      BY <2>1, <2>2, <2>3
  <2> QED
    BY <2>4 DEF OrderIsReachability, C, direct, n
<1> QED
  BY <1>1, ScheduleHolds, PTL

=============================================================================
