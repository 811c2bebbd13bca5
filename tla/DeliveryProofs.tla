---------------------------- MODULE DeliveryProofs -----------------------------
(***************************************************************************)
(* A green gate keeps the project's promises, for any corpus, any history  *)
(* of edits and any toolchain.                                             *)
(*                                                                         *)
(* The argument is about one tree: what each validator excludes when it    *)
(* raises nothing, what the steps of a green run exclude together, and     *)
(* that a version log that validates is ordered.  The one fact about a     *)
(* history is that a merged tree is green on the empty diff.               *)
(*                                                                         *)
(* Last come the remedies: a remedy that only adds references and only     *)
(* moves pins to current versions raises no finding (NothingNew), each of  *)
(* the three is of that kind, and each takes away what its finding says.   *)
(***************************************************************************)
EXTENDS Delivery, WellFoundedInduction, TLAPS

-----------------------------------------------------------------------------
(* What a validator that raises nothing excludes *)

LEMMA NoneRaised ==
  ASSUME NEW table, Raised(table) = {}
  PROVE  \A r \in DOMAIN table : ~table[r]
BY DEF Raised

(* Claims: a list that is not empty, and tests for each of them. *)
LEMMA ClaimsFacts ==
  ASSUME NEW a, validateClaims(a) = {}
  PROVE  /\ a.claimForm = "list" /\ a.claims # <<>>
         /\ \A i \in DOMAIN a.claims : a.claims[i].tests # {}
<1>1. a.claimForm = "list" /\ a.claims # <<>>
  BY DEF validateClaims
<1>2. ASSUME NEW i \in DOMAIN a.claims PROVE a.claims[i].tests # {}
  <2> DEFINE table(j) == [claimIdRequired         |-> a.claims[j].id = "",
                          claimIdDuplicate        |-> Duplicate(a.claims, j),
                          claimRequirementMissing |-> a.claims[j].req = "",
                          claimRequirementInvalid |-> RefersToUnknown(a, a.claims[j]),
                          claimTestsEmpty         |-> a.claims[j].tests = {}]
  <2> DEFINE raised == UNION {Raised(table(j)) : j \in DOMAIN a.claims}
  <2> DEFINE others == Raised([requirementUncovered |->
                         \E r \in ReqIds(a) : \A j \in DOMAIN a.claims : a.claims[j].req # r])
  <2> DEFINE t == table(i)
  <2>a. validateClaims(a) = IF a.claimForm # "list" THEN {"claimsRequired"}
                            ELSE IF a.claims = <<>> THEN {"claimsEmpty"} ELSE raised \cup others
    BY Zenon DEF validateClaims
  <2>b. raised = {}
    <3> HIDE DEF raised, others
    <3> QED
      BY <1>1, <2>a
  <2>1. Raised(t) = {}
    <3> HIDE DEF table
    <3> QED
      BY <2>b
  <2>2. "claimTestsEmpty" \in DOMAIN t /\ t.claimTestsEmpty = (a.claims[i].tests = {})
    OBVIOUS
  <2> HIDE DEF t
  <2> QED
    BY <2>1, <2>2, NoneRaised
<1> QED
  BY <1>1, <1>2

(* Requirements: a list, and pins that are versions. *)
LEMMA RequirementsFacts ==
  ASSUME NEW a, validateRequirements(a) = {}
  PROVE  \A i \in DOMAIN a.reqs : \A p \in a.reqs[i].supports : Len(p.version) = 3
<1>1. RequirementsForm(a) = {}
  BY DEF validateRequirements
<1> SUFFICES ASSUME NEW i \in DOMAIN a.reqs
             PROVE  \A p \in a.reqs[i].supports : Len(p.version) = 3
  OBVIOUS
<1> DEFINE table(j) ==
      [requirementIdRequired  |-> a.reqs[j].id = "",
       requirementIdDuplicate |-> Duplicate(a.reqs, j),
       supportsFormat         |-> \/ a.reqs[j].supForm = "scalar"
                                  \/ \E p \in a.reqs[j].supports : Len(p.version) # 3]
<1> DEFINE t == table(i)
<1>a. UNION {Raised(table(j)) : j \in DOMAIN a.reqs} = {}
  BY <1>1 DEF validateRequirements
<1>2. Raised(t) = {}
  <2> HIDE DEF table
  <2> QED
    BY <1>a
<1>3. /\ "supportsFormat" \in DOMAIN t
      /\ t.supportsFormat = (\/ a.reqs[i].supForm = "scalar"
                             \/ \E p \in a.reqs[i].supports : Len(p.version) # 3)
  OBVIOUS
<1> HIDE DEF t
<1>4. ~t.supportsFormat
  BY <1>2, <1>3, NoneRaised
<1> QED
  BY <1>3, <1>4

(* A live spec: requirements and claims. *)
LEMMA SpecFacts ==
  ASSUME NEW a, Spec(a) = {}, ~isTerminalStatus(a.status)
  PROVE  /\ validateRequirements(a) = {} /\ validateClaims(a) = {}
         /\ validateVerification(a) = {} /\ validateImplementation(a) = {}
         /\ validateContracts(a) = {}
<1>1. UNION {validateVerification(a), validateImplementation(a), validateRequirements(a),
             validateClaims(a), validateContracts(a), validateCapabilities(a)} = {}
  BY DEF Spec
<1> QED
  BY <1>1

(* A live spec: its blocks are what the decoder of its promises needs. *)
LEMMA BlockFacts ==
  ASSUME NEW a, Spec(a) = {}, ~isTerminalStatus(a.status), a.parses, "promises" \in a.fits
  PROVE  parseSpecFrontmatter(a)
<1>1. a.verification = "map"
  BY SpecFacts DEF validateVerification
<1>2. a.implementation = "map"
  BY SpecFacts DEF validateImplementation
<1>3. a.contractForm = "list"
  BY SpecFacts DEF validateContracts
<1>4. a.claimForm = "list"
  BY SpecFacts, ClaimsFacts
<1> QED
  BY <1>1, <1>2, <1>3, <1>4 DEF parseSpecFrontmatter

(* A closed issue: a close pointer that holds, or claims of its own. *)
LEMMA IssueFacts ==
  ASSUME NEW i, NEW a, NEW plan, Issue(i, a, plan) = {}, a.status = "closed"
  PROVE  \/ a.delivered # "absent" /\ validateDeliveredBy(i, a, plan) = {}
         \/ a.delivered = "absent" /\ a.resolved # "absent" /\ validateResolvedBy(a) = {}
         \/ validateClaims(a) = {}
<1>1. a.status \in issueStatuses /\ a.status \in traceabilityRequired /\ ~isTerminalStatus(a.status)
  BY DEF issueStatuses, traceabilityRequired, isTerminalStatus
<1>2. validateIssueTraceability(i, a, plan) = {}
  <2> DEFINE others ==
        UNION {Base(a), SchemaVersion(a), validateIssueBlock(a), validateIssueIDConsistency(a),
               validateRetirementFields(a), validateComplexity(a), validateCapabilities(a)}
  <2>1. Issue(i, a, plan) =
          others \cup (IF a.status \in issueStatuses
                       THEN validateIssueStatusRules(a) \cup validateIssueTraceability(i, a, plan)
                       ELSE {"statusEnum"})
    BY Zenon DEF Issue
  <2> HIDE DEF others
  <2> QED
    BY <1>1, <2>1
<1>3. CASE a.delivered # "absent" /\ a.resolved # "absent"
  BY <1>1, <1>2, <1>3 DEF validateIssueTraceability
<1>4. CASE a.delivered # "absent" /\ a.resolved = "absent"
  BY <1>1, <1>2, <1>4 DEF validateIssueTraceability
<1>5. CASE a.delivered = "absent" /\ a.resolved # "absent"
  BY <1>1, <1>2, <1>5 DEF validateIssueTraceability
<1>6. CASE a.delivered = "absent" /\ a.resolved = "absent"
  <2>1. UNION {validateVerification(a), validateImplementation(a), validateIssueRequirements(a),
               validateIssueClaims(a), validateContracts(a)} = {}
    BY <1>1, <1>2, <1>6 DEF validateIssueTraceability
  <2> QED
    BY <2>1 DEF validateIssueClaims
<1> QED
  BY <1>3, <1>4, <1>5, <1>6

(* The plan of a close pointer that holds. *)
LEMMA DeliveredByFacts ==
  ASSUME NEW i, NEW a, NEW plan, validateDeliveredBy(i, a, plan) = {}
  PROVE  /\ a.delivered \in DOMAIN plan /\ plan[a.delivered].parses
         /\ plan[a.delivered].status = "completed" /\ plan[a.delivered].source = i
BY DEF validateDeliveredBy

(* A reference that holds. *)
LEMMA ResolvedByFacts ==
  ASSUME NEW a, validateResolvedBy(a) = {}
  PROVE  a.resolved # "malformed" /\ a.resolved # "dangling"
<1> DEFINE t == [resolvedByMalformed |-> a.resolved = "malformed",
                 resolvedByNotFound  |-> a.resolved = "dangling"]
<1>1. Raised(t) = {}
  BY DEF validateResolvedBy
<1>2. /\ "resolvedByMalformed" \in DOMAIN t /\ t.resolvedByMalformed = (a.resolved = "malformed")
      /\ "resolvedByNotFound" \in DOMAIN t /\ t.resolvedByNotFound = (a.resolved = "dangling")
  OBVIOUS
<1> HIDE DEF t
<1>3. ~t.resolvedByMalformed /\ ~t.resolvedByNotFound
  BY <1>1, <1>2, NoneRaised
<1> QED
  BY <1>2, <1>3

(* A live bundle: its requirements have different ids and a version log     *)
(* each.                                                                   *)
LEMMA BundleFacts ==
  ASSUME NEW b, Bundle(b) = {}, ~isTerminalStatus(b.status)
  PROVE  \A i \in DOMAIN b.reqs : ~Duplicate(b.reqs, i) /\ validateReqVersionLog(b.reqs[i]) = {}
<1> DEFINE others ==
      UNION {Base(b), SchemaVersion(b), validateBundleBlock(b), validateStatusBlock(b),
             validateRetirementFields(b), validateNameFilenameConsistency(b),
             validateVersionGatedUpdated(b)}
<1> DEFINE live ==
      UNION {validateMaturityGates(b), validateEpicBlock(b), validatePlaceholderBan(b),
             validateBundleRequirements(b)}
<1>1. Bundle(b) = others \cup (IF isTerminalStatus(b.status) THEN {} ELSE live)
  BY Zenon DEF Bundle
<1>2. validateBundleRequirements(b) = {}
  <2>1. live = {}
    <3> HIDE DEF others, live
    <3> QED
      BY <1>1
  <2> QED
    BY <2>1
<1> SUFFICES ASSUME NEW i \in DOMAIN b.reqs
             PROVE  ~Duplicate(b.reqs, i) /\ validateReqVersionLog(b.reqs[i]) = {}
  OBVIOUS
<1>3. b.reqs # <<>>
  OBVIOUS
<1> DEFINE table(j) == [requirementIdRequired  |-> b.reqs[j].id = "",
                        requirementIdDuplicate |-> Duplicate(b.reqs, j)]
<1> DEFINE t == table(i)
<1>a. UNION {Raised(table(j)) \cup validateReqVersionLog(b.reqs[j]) : j \in DOMAIN b.reqs} = {}
  BY <1>2, <1>3 DEF validateBundleRequirements
<1>4. Raised(t) = {} /\ validateReqVersionLog(b.reqs[i]) = {}
  <2> HIDE DEF table
  <2> QED
    BY <1>a
<1>5. /\ "requirementIdDuplicate" \in DOMAIN t
      /\ t.requirementIdDuplicate = Duplicate(b.reqs, i)
  OBVIOUS
<1> HIDE DEF t
<1>6. ~t.requirementIdDuplicate
  BY <1>4, <1>5, NoneRaised
<1> QED
  BY <1>4, <1>5, <1>6

(* A version log: versions, each newer than the one before, and the newest  *)
(* of them the requirement's own.                                          *)
LEMMA LogFacts ==
  ASSUME NEW r, r.log \in Seq(Semvers), validateReqVersionLog(r) = {}
  PROVE  /\ Len(r.version) = 3
         /\ r.logged => /\ r.log # <<>> /\ \A v \in ToSet(r.log) : Len(v) = 3
                        /\ \A i \in 2 .. Len(r.log) : ~(compareSemver(r.log[i], r.log[i - 1]) <= 0)
                        /\ r.version = Newest(r.log)
<1> DEFINE dup == \E i, j \in DOMAIN r.log : i # j /\ r.log[i] = r.log[j]
<1> DEFINE unordered == \E i \in 2 .. Len(r.log) :
                          /\ Len(r.log[i - 1]) = 3 /\ Len(r.log[i]) = 3
                          /\ compareSemver(r.log[i], r.log[i - 1]) <= 0
<1> DEFINE wellFormed == (\A v \in ToSet(r.log) : Len(v) = 3) /\ ~dup
<1> DEFINE t == [versionFormat |-> ~(Len(r.version) = 3)]
<1> DEFINE u == [entryFormat   |-> \E v \in ToSet(r.log) : ~(Len(v) = 3),
                 duplicate     |-> dup,
                 nonmonotonic  |-> unordered,
                 notNewest     |-> wellFormed /\ r.version # Newest(r.log)]
<1>1. validateReqVersionLog(r) =
        Raised(t) \cup (IF ~r.logged THEN {} ELSE IF r.log = <<>> THEN {"versionsEmpty"} ELSE Raised(u))
  BY Zenon DEF validateReqVersionLog
<1>2. /\ "versionFormat" \in DOMAIN t /\ t.versionFormat = ~(Len(r.version) = 3)
      /\ {"entryFormat", "duplicate", "nonmonotonic", "notNewest"} \subseteq DOMAIN u
  OBVIOUS
<1>3. /\ u.entryFormat = (\E v \in ToSet(r.log) : ~(Len(v) = 3))
      /\ u.duplicate = dup /\ u.nonmonotonic = unordered
      /\ u.notNewest = (wellFormed /\ r.version # Newest(r.log))
  BY Zenon
<1> HIDE DEF t, u, dup, unordered
<1>4. Raised(t) = {} /\ (r.logged => r.log # <<>> /\ Raised(u) = {})
  BY <1>1
<1>5. ~t.versionFormat
  BY <1>2, <1>4, NoneRaised
<1>6. ASSUME r.logged
      PROVE  ~u.entryFormat /\ ~u.duplicate /\ ~u.nonmonotonic /\ ~u.notNewest
  BY <1>2, <1>4, <1>6, NoneRaised
<1>7. ASSUME r.logged
      PROVE  /\ \A v \in ToSet(r.log) : Len(v) = 3
             /\ \A i \in 2 .. Len(r.log) : ~(compareSemver(r.log[i], r.log[i - 1]) <= 0)
             /\ r.version = Newest(r.log)
  <2>1. (\A v \in ToSet(r.log) : Len(v) = 3) /\ ~dup /\ ~unordered
    BY <1>3, <1>6, <1>7
  <2>2. r.version = Newest(r.log)
    BY <1>3, <1>6, <1>7, <2>1
  <2>3. ASSUME NEW i \in 2 .. Len(r.log)
        PROVE  ~(compareSemver(r.log[i], r.log[i - 1]) <= 0)
    <3>1. i \in DOMAIN r.log /\ i - 1 \in DOMAIN r.log
      OBVIOUS
    <3>2. Len(r.log[i]) = 3 /\ Len(r.log[i - 1]) = 3
      BY <2>1, <3>1 DEF ToSet
    <3> QED
      BY <2>1, <3>2 DEF unordered
  <2> QED
    BY <2>1, <2>2, <2>3
<1> QED
  BY <1>2, <1>4, <1>5, <1>7

-----------------------------------------------------------------------------
(* Versions *)

(* A set of natural numbers that is not empty has a least element: the form *)
(* of induction the proofs here use.                                       *)
LEMMA LeastNumber ==
  ASSUME NEW S, S \subseteq Nat, S # {}
  PROVE  \E m \in S : \A k \in S : m <= k
<1>1. IsWellFoundedOn(OpToRel(<, Nat), Nat)
  BY NatLessThanWellFounded
<1>2. PICK x \in S : \A y \in S : ~(<<y, x>> \in OpToRel(<, Nat))
  BY <1>1, WFMin
<1>3. \A y \in S : ~(y < x)
  BY <1>2 DEF OpToRel
<1> QED
  BY <1>3

(* The components of a version are numbers. *)
LEMMA SemverParts ==
  ASSUME NEW a \in Semvers, Len(a) = 3
  PROVE  a[1] \in Nat /\ a[2] \in Nat /\ a[3] \in Nat
<1>1. a \in Seq(Nat)
  BY DEF Semvers
<1>2. \A i \in 1 .. Len(a) : a[i] \in Nat
  BY <1>1
<1>3. 1 \in 1 .. Len(a) /\ 2 \in 1 .. Len(a) /\ 3 \in 1 .. Len(a)
  OBVIOUS
<1> QED
  BY <1>2, <1>3

(* Versions with three components are ordered by compareSemver. *)
LEMMA SemverOrder ==
  ASSUME NEW a \in Semvers, NEW b \in Semvers, NEW c \in Semvers,
         Len(a) = 3, Len(b) = 3, Len(c) = 3
  PROVE  /\ compareSemver(a, b) \in Int /\ compareSemver(a, a) = 0
         /\ compareSemver(b, a) > 0 /\ compareSemver(b, c) <= 0 => compareSemver(a, c) <= 0
<1>1. /\ a[1] \in Nat /\ a[2] \in Nat /\ a[3] \in Nat /\ b[1] \in Nat /\ b[2] \in Nat /\ b[3] \in Nat
      /\ c[1] \in Nat /\ c[2] \in Nat /\ c[3] \in Nat
  BY SemverParts
<1> QED
  BY <1>1 DEF compareSemver

(* In a log that validates no version is newer than the newest. *)
LEMMA NewestIsNewest ==
  ASSUME NEW log \in Seq(Semvers), log # <<>>, \A v \in ToSet(log) : Len(v) = 3,
         \A i \in 2 .. Len(log) : ~(compareSemver(log[i], log[i - 1]) <= 0)
  PROVE  \A v \in ToSet(log) : compareSemver(v, Newest(log)) <= 0
<1>0. /\ Len(log) \in Nat \ {0} /\ DOMAIN log = 1 .. Len(log)
      /\ \A i \in 1 .. Len(log) : log[i] \in Semvers
  OBVIOUS
<1> DEFINE n == Len(log)
<1>1. \A i \in 1 .. n : log[i] \in ToSet(log) /\ Len(log[i]) = 3
  BY <1>0 DEF ToSet
<1>2. ASSUME NEW i \in 1 .. n PROVE compareSemver(log[i], log[n]) <= 0
  <2> DEFINE S == {k \in Nat : k < n /\ ~(compareSemver(log[n - k], log[n]) <= 0)}
  <2>1. SUFFICES ASSUME S # {} PROVE FALSE
    <3>1. n - i \in Nat /\ n - i < n /\ n - (n - i) = i
      BY <1>0
    <3> QED
      BY <3>1
  <2>2. PICK m \in S : \A k \in S : m <= k
    BY <2>1, LeastNumber
  <2>3. m \in Nat /\ m < n /\ n \in 1 .. n /\ n - m \in 1 .. n
    BY <1>0, <2>2
  <2>4. m # 0
    <3>1. compareSemver(log[n], log[n]) = 0
      BY <1>0, <1>1, <2>3, SemverOrder
    <3> QED
      BY <1>0, <2>2, <3>1
  <2>5. m - 1 \in Nat /\ m - 1 < n /\ n - (m - 1) \in 2 .. n /\ n - (m - 1) - 1 = n - m
        /\ m - 1 \notin S /\ n - (m - 1) \in 1 .. n
    BY <1>0, <2>2, <2>3, <2>4
  <2> DEFINE j == n - (m - 1)
  <2>6. compareSemver(log[j], log[n]) <= 0 /\ ~(compareSemver(log[j], log[j - 1]) <= 0)
    BY <2>5
  <2>7. log[j - 1] = log[n - m]
    BY <2>5
  <2>8. compareSemver(log[j], log[n - m]) > 0
    <3>1. compareSemver(log[j], log[n - m]) \in Int
      BY <1>0, <1>1, <2>3, <2>5, SemverOrder
    <3> QED
      BY <2>6, <2>7, <3>1
  <2>9. compareSemver(log[n - m], log[n]) <= 0
    BY <1>0, <1>1, <2>3, <2>5, <2>6, <2>8, SemverOrder
  <2> QED
    BY <2>2, <2>9
<1>3. \A w \in ToSet(log) : compareSemver(w, log[n]) <= 0
  BY <1>0, <1>2 DEF ToSet
<1>4. log[n] \in ToSet(log)
  BY <1>0, <1>1
<1> QED
  BY <1>3, <1>4 DEF Newest

-----------------------------------------------------------------------------
(* What a green run excludes *)

(* Without a finding of artifact_validation every artifact parses and       *)
(* passes its validator, and every reference resolves.                     *)
LEMMA ValidFacts ==
  ASSUME NEW v, v = ValidateArtifacts(tree), ~v.config, v.findings = {}
  PROVE  /\ \A k \in Kinds : \A x \in DOMAIN tree[k] :
              tree[k][x].parses /\ RouteValidator(tree, k, x) = {}
         /\ buildResolutionViolations(tree) = {}
<1> DEFINE unparsed == \E k \in Kinds : \E x \in DOMAIN tree[k] : ~tree[k][x].parses
<1> DEFINE own == UNION {UNION {{[rule |-> r, file |-> x] : r \in RouteValidator(tree, k, x)} :
                                  x \in DOMAIN tree[k]} : k \in Kinds}
<1>1. ValidateArtifacts(tree) =
        IF unparsed THEN [config |-> TRUE, findings |-> {}]
        ELSE [config |-> FALSE, findings |-> own \cup buildResolutionViolations(tree)]
  BY Zenon DEF ValidateArtifacts
<1>2. ~unparsed /\ own = {} /\ buildResolutionViolations(tree) = {}
  <2> HIDE DEF unparsed, own
  <2>1. ~unparsed
    BY <1>1
  <2>2. v.findings = own \cup buildResolutionViolations(tree)
    BY <1>1, <2>1
  <2> QED
    BY <2>1, <2>2
<1>3. ASSUME NEW k \in Kinds, NEW x \in DOMAIN tree[k] PROVE RouteValidator(tree, k, x) = {}
  <2>1. SUFFICES ASSUME NEW r \in RouteValidator(tree, k, x) PROVE FALSE
    OBVIOUS
  <2>2. [rule |-> r, file |-> x] \in own
    OBVIOUS
  <2> QED
    BY <1>2, <2>2
<1> QED
  BY <1>2, <1>3

(* A green run, whatever its scope: every artifact parses, and there is no  *)
(* drift, no blocking gap and no test to complain about.                   *)
LEMMA GreenFacts ==
  ASSUME NEW scope, Green(tree, scope)
  PROVE  /\ \A k \in Kinds : \A x \in DOMAIN tree[k] : tree[k][x].parses
         /\ ClassifyStatusDrift(tree) = {} /\ StepRequirementTraceability(tree) = {}
         /\ StepTestVerification(tree, scope) = {} /\ StepArtifactValidation(tree, scope) = {}
<1>1. /\ StepArtifactValidation(tree, scope) = {} /\ StepTestVerification(tree, scope) = {}
      /\ ClassifyStatusDrift(tree) = {} /\ StepRequirementTraceability(tree) = {}
  BY DEF Green
<1>2. ASSUME NEW k \in Kinds, NEW x \in DOMAIN tree[k], ~tree[k][x].parses PROVE FALSE
  <2>1. ValidateArtifacts(tree) = [config |-> TRUE, findings |-> {}]
    BY <1>2 DEF ValidateArtifacts
  <2>2. ValidateArtifacts(tree).config
    BY <2>1
  <2> QED
    BY <1>1, <2>2 DEF StepArtifactValidation
<1> QED
  BY <1>1, <1>2

(* A green run over the whole project has no finding of artifact_validation *)
(* either.                                                                 *)
LEMMA SweepFacts ==
  ASSUME Green(tree, AllFiles)
  PROVE  ~ValidateArtifacts(tree).config /\ ValidateArtifacts(tree).findings = {}
<1>1. StepArtifactValidation(tree, AllFiles) = {}
  BY GreenFacts
<1>2. ~ValidateArtifacts(tree).config
  BY <1>1 DEF StepArtifactValidation
<1>3. ASSUME NEW g \in ValidateArtifacts(tree).findings PROVE FALSE
  <2>1. InScope(AllFiles, Filename(g.file))
    BY DEF InScope, AllFiles
  <2> QED
    BY <1>1, <1>2, <2>1 DEF StepArtifactValidation
<1> QED
  BY <1>2, <1>3

(* No drift: what an artifact that claims success mandates is there. *)
LEMMA NoDriftFacts ==
  ASSUME ClassifyStatusDrift(tree) = {}, NEW k \in Promising, NEW x \in Records(tree, k),
         Class(tree, k, x) = "success"
  PROVE  MandatedNames(tree, k, x) \subseteq ResolvePresentTestNames(tree)
<1>1. SUFFICES ASSUME NEW t \in MandatedNames(tree, k, x), t \notin ResolvePresentTestNames(tree)
               PROVE  FALSE
  OBVIOUS
<1>2. [step |-> "artifact_status_drift", rule |-> "drift", at |-> x, on |-> <<t>>]
        \in ClassifyStatusDrift(tree)
  BY <1>1 DEF ClassifyStatusDrift
<1> QED
  BY <1>2

(* No blocking gap: a requirement of a delivered bundle is covered. *)
LEMMA NoGapFacts ==
  ASSUME StepRequirementTraceability(tree) = {}, NEW b \in Records(tree, "bundle"),
         Class(tree, "bundle", b) = "success", NEW q \in ReqIds(tree.bundle[b])
  PROVE  <<b, q>> \in coveredReqs(tree)
<1>1. SUFFICES ASSUME <<b, q>> \notin coveredReqs(tree) PROVE FALSE
  OBVIOUS
<1> DEFINE lapsed == lapsedCiter(tree)
<1> DEFINE g == Gap(IF <<b, q>> \in lapsed THEN "coverage_lapsed" ELSE "uncovered",
                    IF <<b, q>> \in lapsed THEN "restate_supports" ELSE "author_spec",
                    b, q, b, b, IF Delivered(tree, b) THEN "error" ELSE "warning")
<1>2. Class(tree, "bundle", b) # "retired" /\ Delivered(tree, b)
  BY DEF Delivered
<1>3. g \in ClassifyRequirementTraceability(tree)
  BY <1>1, <1>2 DEF ClassifyRequirementTraceability
<1>4. g.severity = "error"
  BY <1>2 DEF Gap
<1> HIDE DEF g
<1> QED
  BY <1>3, <1>4 DEF StepRequirementTraceability

(* A reference by a spec is one of its pins. *)
LEMMA RefIsPin ==
  ASSUME NEW r \in collectTraceRefs(tree), r.citer \in DOMAIN tree.spec
  PROVE  \E i \in DOMAIN tree.spec[r.citer].reqs : \E p \in tree.spec[r.citer].reqs[i].supports :
           p.bundle = r.bundle /\ p.req = r.req /\ p.version = r.version
<1>1. PICK c \in DOMAIN Citers(tree) : \E i \in DOMAIN Citers(tree)[c].reqs :
         \E p \in Citers(tree)[c].reqs[i].supports :
           r = [bundle |-> p.bundle, req |-> p.req, version |-> p.version, citer |-> c]
  BY DEF collectTraceRefs, CollectSupportRefs
<1>2. r.citer = c
  BY <1>1
<1>3. Citers(tree)[c] = tree.spec[c]
  BY <1>2 DEF Citers
<1> QED
  BY <1>1, <1>2, <1>3

(* A covered requirement: an implemented spec pins it, and the pin has not  *)
(* been outrun.                                                            *)
LEMMA CoveredFacts ==
  ASSUME NEW b, NEW q, <<b, q>> \in coveredReqs(tree)
  PROVE  \E r \in LiveRefs(tree) :
           LET s == r.citer IN
           /\ s \in Records(tree, "spec") /\ s \in DOMAIN tree.spec
           /\ tree.spec[s].status = "implemented" /\ Class(tree, "spec", s) = "success"
           /\ r.bundle = b /\ r.req = q
           /\ ~Stale(StalePinVerdict(r.version, Current(b, q)))
<1>1. PICK r \in LiveRefs(tree) : /\ <<b, q>> = <<r.bundle, r.req>> /\ BySpec(tree, r)
                                  /\ CiterClass(tree, r) = "success" /\ ~Outrun(tree, r)
  BY DEF coveredReqs
<1>2. b = r.bundle /\ q = r.req
  BY <1>1
<1>3. KindOf(tree, r.citer) = "spec" /\ r.citer \in DOMAIN tree.spec
  BY <1>1 DEF BySpec, KindOf
<1>4. r.citer \in Records(tree, "spec") /\ Class(tree, "spec", r.citer) = "success"
  BY <1>1, <1>3 DEF LiveRefs, ResolvedRefs, CiterClass
<1>5. tree.spec[r.citer].status = "implemented"
  BY <1>4 DEF Class, ClassifyArtifactStatus
<1>6. ~Stale(StalePinVerdict(r.version, Current(b, q)))
  BY <1>1, <1>2 DEF Outrun, Current
<1> QED
  BY <1>1, <1>2, <1>3, <1>4, <1>5, <1>6

(* What an implemented spec mandates, if its promises are read, is what its *)
(* claims name.                                                            *)
LEMMA SpecMandates ==
  ASSUME NEW s \in DOMAIN tree.spec, tree.spec[s].status = "implemented",
         parseSpecFrontmatter(tree.spec[s])
  PROVE  \A t \in OwnTests(tree.spec[s]) :
           \E m \in ExtractMandatedTests(tree) :
             m.spec = s /\ m.test = t /\ m.status = "implemented"
<1> SUFFICES ASSUME NEW t \in OwnTests(tree.spec[s])
             PROVE  \E m \in ExtractMandatedTests(tree) :
                      m.spec = s /\ m.test = t /\ m.status = "implemented"
  OBVIOUS
<1>1. PICK i \in DOMAIN tree.spec[s].claims : t \in tree.spec[s].claims[i].tests
  BY DEF OwnTests
<1> DEFINE n == <<tree.spec[s].claims[i].id, t>>
<1>2. n \in claimsToMandatedTests(tree.spec[s]) /\ n[1] = tree.spec[s].claims[i].id /\ n[2] = t
  BY <1>1 DEF claimsToMandatedTests
<1>3. ~isTerminalSpecStatus(tree.spec[s].status)
  BY DEF isTerminalSpecStatus
<1> HIDE DEF n
<1> DEFINE m == [spec |-> s, claim |-> n[1], test |-> n[2], status |-> tree.spec[s].status]
<1>4. m \in ExtractMandatedTests(tree)
  BY <1>2, <1>3 DEF ExtractMandatedTests
<1>5. m.spec = s /\ m.test = t /\ m.status = "implemented"
  BY <1>2
<1> HIDE DEF m
<1> QED
  BY <1>4, <1>5

(* The tests that are found exist. *)
LEMMA PresentFacts ==
  ResolvePresentTestNames(tree) \subseteq {t \in Tests : tree.tests[t] # "absent"} \cup PackClaims
BY DEF ResolvePresentTestNames, Found

(* The tests of an implemented spec are there when the gate sees no drift. *)
LEMMA SpecTestsPresent ==
  ASSUME ClassifyStatusDrift(tree) = {}, NEW s \in Records(tree, "spec"),
         tree.spec[s].status = "implemented", Class(tree, "spec", s) = "success",
         parseSpecFrontmatter(tree.spec[s])
  PROVE  OwnTests(tree.spec[s]) \subseteq {t \in Tests : tree.tests[t] # "absent"} \cup PackClaims
<1>1. MandatedNames(tree, "spec", s) \subseteq ResolvePresentTestNames(tree)
  BY NoDriftFacts DEF Promising
<1>2. OwnTests(tree.spec[s]) \subseteq MandatedNames(tree, "spec", s)
  <2> SUFFICES ASSUME NEW t \in OwnTests(tree.spec[s]) PROVE t \in MandatedNames(tree, "spec", s)
    OBVIOUS
  <2>1. PICK m \in ExtractMandatedTests(tree) : m.spec = s /\ m.test = t
    BY SpecMandates DEF Records
  <2>2. <<m.claim, m.test>> \in RecordedTests(tree, "spec", s)
    BY <2>1 DEF RecordedTests
  <2>3. <<m.claim, m.test>>[2] = t
    BY <2>1
  <2>4. t \in {n[2] : n \in RecordedTests(tree, "spec", s)}
    BY <2>2, <2>3
  <2> QED
    BY <2>4 DEF MandatedNames
<1> QED
  BY <1>1, <1>2, PresentFacts

-----------------------------------------------------------------------------
(* The promises *)

LEMMA SeqElement ==
  ASSUME NEW S, NEW s \in Seq(S), NEW i \in DOMAIN s
  PROVE  s[i] \in S
OBVIOUS

(* A delivered bundle is on record in a tree in which everything parses. *)
LEMMA DeliveredOnRecord ==
  ASSUME TypeOK, \A k \in Kinds : \A x \in DOMAIN tree[k] : tree[k][x].parses,
         NEW b \in DeliveredBundles
  PROVE  b \in Records(tree, "bundle") /\ Class(tree, "bundle", b) = "success"
<1>1. /\ b \in DOMAIN tree.bundle /\ tree.bundle[b].status = "delivered"
      /\ "record" \in tree.bundle[b].fits
  BY DEF DeliveredBundles
<1>2. Class(tree, "bundle", b) = "success"
  BY <1>1 DEF Class, ClassifyArtifactStatus, isTerminalStatus
<1>3. tree.bundle[b].parses /\ tree.bundle[b].kind = "bundle"
  BY <1>1 DEF Kinds, TypeOK, Shaped, BundleShape
<1> QED
  BY <1>1, <1>2, <1>3 DEF Records, Typed

(* A tree that is green in any scope keeps what it delivered. *)
LEMMA GreenDelivers ==
  ASSUME TypeOK, NEW scope, Green(tree, scope),
         NEW b \in DeliveredBundles, NEW q \in ReqIds(tree.bundle[b])
  PROVE  \E s \in DOMAIN tree.spec :
           /\ tree.spec[s].status = "implemented"
           /\ PinsAt(s, b, q, LAMBDA v : ~Stale(StalePinVerdict(v, Current(b, q))))
           /\ parseSpecFrontmatter(tree.spec[s]) =>
                OwnTests(tree.spec[s]) \subseteq
                  {t \in Tests : tree.tests[t] # "absent"} \cup PackClaims
<1>0. /\ \A k \in Kinds : \A x \in DOMAIN tree[k] : tree[k][x].parses
      /\ ClassifyStatusDrift(tree) = {} /\ StepRequirementTraceability(tree) = {}
  BY GreenFacts
<1>1. <<b, q>> \in coveredReqs(tree)
  BY <1>0, DeliveredOnRecord, NoGapFacts
<1>2. PICK r \in LiveRefs(tree) :
         LET s == r.citer IN
         /\ s \in Records(tree, "spec") /\ s \in DOMAIN tree.spec
         /\ tree.spec[s].status = "implemented" /\ Class(tree, "spec", s) = "success"
         /\ r.bundle = b /\ r.req = q
         /\ ~Stale(StalePinVerdict(r.version, Current(b, q)))
  BY <1>1, CoveredFacts
<1> DEFINE s == r.citer
<1>3. /\ s \in Records(tree, "spec") /\ s \in DOMAIN tree.spec
      /\ tree.spec[s].status = "implemented" /\ Class(tree, "spec", s) = "success"
  BY <1>2
<1>4. PinsAt(s, b, q, LAMBDA v : ~Stale(StalePinVerdict(v, Current(b, q))))
  <2>1. PICK i \in DOMAIN tree.spec[s].reqs : \E p \in tree.spec[s].reqs[i].supports :
           p.bundle = r.bundle /\ p.req = r.req /\ p.version = r.version
    BY <1>2, RefIsPin DEF LiveRefs, ResolvedRefs
  <2> QED
    BY <1>2, <2>1 DEF PinsAt
<1>5. ASSUME parseSpecFrontmatter(tree.spec[s])
      PROVE  OwnTests(tree.spec[s]) \subseteq
               {t \in Tests : tree.tests[t] # "absent"} \cup PackClaims
  BY <1>0, <1>3, <1>5, SpecTestsPresent
<1> QED
  BY <1>3, <1>4, <1>5

(* Requirements with different ids: the one with an id, wherever it is      *)
(* looked up.                                                              *)
LEMMA RequirementFacts ==
  ASSUME NEW b, BundleShape(b), \A i \in DOMAIN b.reqs : ~Duplicate(b.reqs, i), NEW q \in ReqIds(b)
  PROVE  \E i \in DOMAIN b.reqs :
           /\ b.reqs[i].id = q /\ bundleReqVersion(b, q) = b.reqs[i].version
           /\ (CHOOSE e \in ToSet(b.reqs) : e.id = q) = b.reqs[i]
<1>0. DOMAIN b.reqs = 1 .. Len(b.reqs) /\ Len(b.reqs) \in Nat
  BY DEF BundleShape
<1>1. PICK i \in DOMAIN b.reqs : b.reqs[i].id = q /\ q # ""
  BY DEF ReqIds
<1>2. ASSUME NEW j \in DOMAIN b.reqs, b.reqs[j].id = q PROVE j = i
  <2>1. ~(j < i)
    <3>1. ~Duplicate(b.reqs, i)
      OBVIOUS
    <3>2. j < i => j \in 1 .. i - 1
      BY <1>0
    <3> QED
      BY <1>1, <1>2, <3>1, <3>2 DEF Duplicate
  <2>2. ~(i < j)
    <3>1. ~Duplicate(b.reqs, j)
      OBVIOUS
    <3>2. i < j => i \in 1 .. j - 1
      BY <1>0
    <3> QED
      BY <1>1, <1>2, <3>1, <3>2 DEF Duplicate
  <2> QED
    BY <1>0, <2>1, <2>2
<1>3. bundleReqVersion(b, q) = b.reqs[i].version
  <2> DEFINE First(j) == b.reqs[j].id = q /\ \A k \in 1 .. j - 1 : b.reqs[k].id # q
  <2>1. First(i)
    <3>1. \A k \in 1 .. i - 1 : k \in DOMAIN b.reqs /\ k # i
      BY <1>0
    <3> QED
      BY <1>1, <1>2, <3>1
  <2>2. \A j \in DOMAIN b.reqs : First(j) => j = i
    BY <1>2
  <2>3. bundleReqVersion(b, q) = b.reqs[CHOOSE j \in DOMAIN b.reqs : First(j)].version
    BY <1>1 DEF bundleReqVersion
  <2> HIDE DEF First
  <2>4. (CHOOSE j \in DOMAIN b.reqs : First(j)) = i
    BY <2>1, <2>2
  <2> QED
    BY <2>3, <2>4
<1>4. (CHOOSE e \in ToSet(b.reqs) : e.id = q) = b.reqs[i]
  <2>1. b.reqs[i] \in ToSet(b.reqs) /\ b.reqs[i].id = q
    BY <1>1 DEF ToSet
  <2>2. \A e \in ToSet(b.reqs) : e.id = q => e = b.reqs[i]
    BY <1>2 DEF ToSet
  <2> QED
    BY <2>1, <2>2
<1> QED
  BY <1>1, <1>3, <1>4

(* A bundle in force that validates: the current version of a requirement   *)
(* is a version.                                                           *)
LEMMA CurrentFacts ==
  ASSUME TypeOK, NEW b \in DOMAIN tree.bundle, Bundle(tree.bundle[b]) = {},
         ~isTerminalStatus(tree.bundle[b].status), NEW q \in ReqIds(tree.bundle[b])
  PROVE  \E i \in DOMAIN tree.bundle[b].reqs :
           LET r == tree.bundle[b].reqs[i] IN
           /\ Current(b, q) = r.version /\ Len(r.version) = 3 /\ r.version \in Semvers
           /\ (CHOOSE e \in ToSet(tree.bundle[b].reqs) : e.id = q) = r
           /\ r.log \in Seq(Semvers) /\ validateReqVersionLog(r) = {}
<1>0. BundleShape(tree.bundle[b])
  BY DEF TypeOK, Shaped
<1>1. \A i \in DOMAIN tree.bundle[b].reqs :
        /\ ~Duplicate(tree.bundle[b].reqs, i)
        /\ validateReqVersionLog(tree.bundle[b].reqs[i]) = {}
  BY BundleFacts
<1>2. PICK i \in DOMAIN tree.bundle[b].reqs :
         /\ tree.bundle[b].reqs[i].id = q
         /\ bundleReqVersion(tree.bundle[b], q) = tree.bundle[b].reqs[i].version
         /\ (CHOOSE e \in ToSet(tree.bundle[b].reqs) : e.id = q) = tree.bundle[b].reqs[i]
  BY <1>0, <1>1, RequirementFacts
<1> DEFINE r == tree.bundle[b].reqs[i]
<1>3. r.version \in Semvers /\ r.log \in Seq(Semvers)
  <2>a. tree.bundle[b].reqs \in
          Seq([id : STRING, version : Semvers, logged : BOOLEAN, log : Seq(Semvers)])
    BY <1>0 DEF BundleShape
  <2>1. r \in [id : STRING, version : Semvers, logged : BOOLEAN, log : Seq(Semvers)]
    BY <1>2, <2>a, SeqElement
  <2> QED
    BY <2>1
<1>4. Len(r.version) = 3
  BY <1>1, <1>2, <1>3, LogFacts
<1> QED
  BY <1>1, <1>2, <1>3, <1>4 DEF Current

(* Pins of a spec that validates are versions. *)
LEMMA PinFacts ==
  ASSUME TypeOK, NEW r \in collectTraceRefs(tree), r.citer \in DOMAIN tree.spec,
         validateRequirements(tree.spec[r.citer]) = {}
  PROVE  Len(r.version) = 3 /\ r.version \in Semvers
<1>1. PICK i \in DOMAIN tree.spec[r.citer].reqs : \E p \in tree.spec[r.citer].reqs[i].supports :
         p.bundle = r.bundle /\ p.req = r.req /\ p.version = r.version
  BY RefIsPin
<1>2. PICK p \in tree.spec[r.citer].reqs[i].supports : p.version = r.version
  BY <1>1
<1>3. Len(p.version) = 3
  BY <1>1, <1>2, RequirementsFacts
<1>4. p.version \in Semvers
  <2>1. tree.spec[r.citer].reqs \in CitedReqs
    BY DEF TypeOK, Shaped, WorkShape
  <2>a. tree.spec[r.citer].reqs[i] \in
          [id : STRING, supForm : {"list", "absent", "scalar"},
           supports : SUBSET [bundle : STRING, req : STRING, version : Semvers]]
    BY <1>1, <2>1, SeqElement DEF CitedReqs
  <2>2. tree.spec[r.citer].reqs[i].supports \in
          SUBSET [bundle : STRING, req : STRING, version : Semvers]
    BY <2>a
  <2> QED
    BY <1>2, <2>2
<1> QED
  BY <1>2, <1>3, <1>4

(* A sweep that is green: the pin has the current major and minor, there    *)
(* are tests, and none of them is absent or known to fail.                 *)
LEMMA SweepDelivers == TypeOK => SweepIsTotal
<1> SUFFICES ASSUME TypeOK, Green(tree, AllFiles),
                    NEW b \in DeliveredBundles, NEW q \in ReqIds(tree.bundle[b])
             PROVE  \E s \in DOMAIN tree.spec :
                      /\ tree.spec[s].status = "implemented"
                      /\ PinsAt(s, b, q, LAMBDA v : /\ Len(v) = 3
                                                    /\ v[1] = Current(b, q)[1]
                                                    /\ v[2] = Current(b, q)[2])
                      /\ OwnTests(tree.spec[s]) # {}
                      /\ "promises" \in tree.spec[s].fits =>
                           \A t \in OwnTests(tree.spec[s]) \cap Tests :
                             /\ t \in PackClaims \/ tree.tests[t] # "absent"
                             /\ toolchain.verdict => tree.tests[t] # "failing"
  BY DEF SweepIsTotal
<1>0. /\ \A k \in Kinds : \A x \in DOMAIN tree[k] : tree[k][x].parses
      /\ ClassifyStatusDrift(tree) = {} /\ StepRequirementTraceability(tree) = {}
      /\ StepTestVerification(tree, AllFiles) = {}
  BY GreenFacts
<1>a. /\ \A s \in DOMAIN tree.spec : Spec(tree.spec[s]) = {}
      /\ \A x \in DOMAIN tree.bundle : Bundle(tree.bundle[x]) = {}
  <2>1. \A k \in Kinds : \A x \in DOMAIN tree[k] : RouteValidator(tree, k, x) = {}
    BY SweepFacts, ValidFacts
  <2> QED
    BY <2>1 DEF Kinds, RouteValidator
<1>1. <<b, q>> \in coveredReqs(tree)
  BY <1>0, DeliveredOnRecord, NoGapFacts
<1>2. PICK r \in LiveRefs(tree) :
         LET s == r.citer IN
         /\ s \in Records(tree, "spec") /\ s \in DOMAIN tree.spec
         /\ tree.spec[s].status = "implemented" /\ Class(tree, "spec", s) = "success"
         /\ r.bundle = b /\ r.req = q
         /\ ~Stale(StalePinVerdict(r.version, Current(b, q)))
  BY <1>1, CoveredFacts
<1> DEFINE s == r.citer
<1>3. /\ s \in Records(tree, "spec") /\ s \in DOMAIN tree.spec
      /\ tree.spec[s].status = "implemented" /\ Class(tree, "spec", s) = "success"
  BY <1>2
<1>4. validateRequirements(tree.spec[s]) = {} /\ validateClaims(tree.spec[s]) = {}
  <2>1. ~isTerminalStatus(tree.spec[s].status)
    BY <1>3 DEF isTerminalStatus
  <2> QED
    BY <1>3, <1>a, <2>1, SpecFacts
<1>5. PinsAt(s, b, q, LAMBDA v : /\ Len(v) = 3 /\ v[1] = Current(b, q)[1]
                                 /\ v[2] = Current(b, q)[2])
  <2>0. r \in collectTraceRefs(tree)
    BY DEF LiveRefs, ResolvedRefs
  <2>1. Len(r.version) = 3
    BY <1>3, <1>4, <2>0, PinFacts
  <2>2. Len(Current(b, q)) = 3
    <3>1. b \in DOMAIN tree.bundle /\ ~isTerminalStatus(tree.bundle[b].status)
      BY DEF DeliveredBundles, isTerminalStatus
    <3> QED
      BY <1>a, <3>1, CurrentFacts
  <2>3. r.version[1] = Current(b, q)[1] /\ r.version[2] = Current(b, q)[2]
    BY <1>2, <2>1, <2>2 DEF Stale, StalePinVerdict
  <2>4. PICK i \in DOMAIN tree.spec[s].reqs : \E p \in tree.spec[s].reqs[i].supports :
           p.bundle = r.bundle /\ p.req = r.req /\ p.version = r.version
    BY <1>3, <2>0, RefIsPin
  <2> QED
    BY <1>2, <2>1, <2>3, <2>4 DEF PinsAt
<1>6. OwnTests(tree.spec[s]) # {}
  <2>1. /\ tree.spec[s].claims # <<>>
        /\ \A i \in DOMAIN tree.spec[s].claims : tree.spec[s].claims[i].tests # {}
    BY <1>4, ClaimsFacts
  <2>2. tree.spec[s].claims \in Claims
    BY <1>3 DEF TypeOK, Shaped, WorkShape
  <2>3. 1 \in DOMAIN tree.spec[s].claims
    BY <2>1, <2>2 DEF Claims
  <2> QED
    BY <2>1, <2>3 DEF OwnTests
<1>7. ASSUME "promises" \in tree.spec[s].fits, NEW t \in OwnTests(tree.spec[s]) \cap Tests
      PROVE  /\ t \in PackClaims \/ tree.tests[t] # "absent"
             /\ toolchain.verdict => tree.tests[t] # "failing"
  <2>0. parseSpecFrontmatter(tree.spec[s])
    <3>1. ~isTerminalStatus(tree.spec[s].status) /\ Spec(tree.spec[s]) = {}
      BY <1>3, <1>a DEF isTerminalStatus
    <3>2. tree.spec[s].parses
      BY <1>0, <1>3 DEF Kinds
    <3> QED
      BY <1>7, <3>1, <3>2, BlockFacts
  <2>1. t \in PackClaims \/ tree.tests[t] # "absent"
    BY <1>0, <1>3, <2>0, SpecTestsPresent
  <2>2. ASSUME toolchain.verdict, tree.tests[t] = "failing" PROVE FALSE
    <3>1. PICK m \in ExtractMandatedTests(tree) :
             m.spec = s /\ m.test = t /\ m.status = "implemented"
      BY <1>3, <2>0, SpecMandates
    <3>2. contractsAreDue(m.status) /\ InTestScope(tree, AllFiles, m) /\ m.test \in Tests
      BY <3>1 DEF contractsAreDue, InTestScope, AllFiles
    <3>3. verdictNamesTest(tree, m.test)
      BY <2>2, <3>1 DEF verdictNamesTest
    <3> DEFINE counted == {x \in {y \in ExtractMandatedTests(tree) : contractsAreDue(y.status)} :
                             ~toolchain.discovery \/ InTestScope(tree, AllFiles, x)}
    <3>4. m \in counted
      BY <3>2
    <3>5. MandatedTestFailures(tree, counted) = {}
      BY <1>0 DEF StepTestVerification
    <3> HIDE DEF counted
    <3> QED
      BY <3>2, <3>3, <3>4, <3>5 DEF MandatedTestFailures
  <2> QED
    BY <2>1, <2>2
<1> HIDE DEF s
<1> QED
  BY <1>3, <1>5, <1>6, <1>7 DEF PinsAt

(* A sweep that is green: every closed issue is backed. *)
LEMMA SweepBacks == TypeOK => ClosedIsBacked
<1> SUFFICES ASSUME TypeOK, Green(tree, AllFiles),
                    NEW i \in DOMAIN tree.issue, tree.issue[i].status = "closed"
             PROVE  Backed(i)
  BY DEF ClosedIsBacked
<1> DEFINE a == tree.issue[i]
<1>0. /\ \A k \in Kinds : \A x \in DOMAIN tree[k] : tree[k][x].parses
      /\ ClassifyStatusDrift(tree) = {}
  BY GreenFacts
<1>1. Issue(i, a, tree.plan) = {}
  <2>1. \A k \in Kinds : \A x \in DOMAIN tree[k] : RouteValidator(tree, k, x) = {}
    BY SweepFacts, ValidFacts
  <2> QED
    BY <2>1 DEF Kinds, RouteValidator
<1>2. IssueShape(a)
  BY DEF TypeOK, Shaped
<1> HIDE DEF a
<1>3. CASE validateDeliveredBy(i, a, tree.plan) = {}
  <2>1. /\ a.delivered \in DOMAIN tree.plan /\ tree.plan[a.delivered].parses
        /\ tree.plan[a.delivered].status = "completed" /\ tree.plan[a.delivered].source = i
    BY <1>3, DeliveredByFacts
  <2> DEFINE p == a.delivered
  <2>2. Class(tree, "plan", p) = "success"
    BY <2>1 DEF Class, ClassifyArtifactStatus, isTerminalStatus
  <2>3. tree.plan[p].kind = "plan"
    BY <2>1 DEF TypeOK, Shaped, PlanShape
  <2>6. ASSUME "record" \in tree.plan[p].fits
        PROVE  planMandatedTests(tree, p) \subseteq ResolvePresentTestNames(tree)
    <3>1. p \in Records(tree, "plan")
      BY <2>1, <2>3, <2>6 DEF Records, Typed
    <3>2. MandatedNames(tree, "plan", p) \subseteq ResolvePresentTestNames(tree)
      BY <1>0, <2>2, <3>1, NoDriftFacts DEF Promising
    <3> QED
      BY <3>2 DEF MandatedNames
  <2> QED
    BY <2>1, <2>6 DEF Backed, a
<1>4. CASE a.resolved # "absent" /\ validateResolvedBy(a) = {}
  <2>1. a.resolved \in {"external", "found"}
    BY <1>2, <1>4, ResolvedByFacts DEF IssueShape
  <2> QED
    BY <2>1 DEF Backed, a
<1>5. CASE validateClaims(a) = {}
  <2>1. /\ a.claimForm = "list" /\ a.claims # <<>>
        /\ \A j \in DOMAIN a.claims : a.claims[j].tests # {}
    BY <1>5, ClaimsFacts
  <2>2. 1 \in DOMAIN a.claims
    BY <1>2, <2>1 DEF IssueShape, WorkShape, Claims
  <2>3. OwnTests(a) # {}
    BY <2>1, <2>2 DEF OwnTests
  <2>4. ASSUME "record" \in a.fits PROVE OwnTests(a) \subseteq ResolvePresentTestNames(tree)
    <3>1. i \in Records(tree, "issue")
      BY <1>0, <2>1, <2>4 DEF Records, Typed, Kinds, a
    <3>2. Class(tree, "issue", i) = "success"
      BY DEF Class, ClassifyArtifactStatus, isTerminalStatus
    <3>3. MandatedNames(tree, "issue", i) \subseteq ResolvePresentTestNames(tree)
      BY <1>0, <3>1, <3>2, NoDriftFacts DEF Promising
    <3>4. ASSUME NEW t \in OwnTests(a) PROVE t \in MandatedNames(tree, "issue", i)
      <4>1. PICK j \in DOMAIN a.claims : t \in a.claims[j].tests
        BY DEF OwnTests
      <4>2. <<a.claims[j].id, t>> \in claimsToMandatedTests(a)
        BY <4>1 DEF claimsToMandatedTests
      <4>3. <<a.claims[j].id, t>>[2] = t
        OBVIOUS
      <4>4. t \in {m[2] : m \in claimsToMandatedTests(a)}
        BY <4>2, <4>3
      <4> QED
        BY <4>4 DEF MandatedNames, RecordedTests, a
    <3> QED
      BY <3>3, <3>4
  <2> QED
    BY <2>3, <2>4 DEF Backed, a
<1>6. a.status = "closed"
  BY DEF a
<1> QED
  BY <1>1, <1>3, <1>4, <1>5, <1>6, IssueFacts

(* In a tree that validates, a stale pin is older than the requirement. *)
LEMMA ValidatedPinsAreOlder == TypeOK => StaleMeansOlder
<1> SUFFICES ASSUME TypeOK, NEW r \in LiveRefs(tree),
                    Stale(StalePinVerdict(r.version, Current(r.bundle, r.req))),
                    compareSemver(r.version, Current(r.bundle, r.req)) >= 0,
                    ~ValidateArtifacts(tree).config, ValidateArtifacts(tree).findings = {}
             PROVE  FALSE
  BY DEF StaleMeansOlder
<1> DEFINE b == r.bundle
<1> DEFINE q == r.req
<1>0. /\ \A x \in DOMAIN tree.bundle : Bundle(tree.bundle[x]) = {} /\ tree.bundle[x].parses
      /\ buildResolutionViolations(tree) = {}
  <2>1. /\ \A k \in Kinds : \A x \in DOMAIN tree[k] :
             RouteValidator(tree, k, x) = {} /\ tree[k][x].parses
        /\ buildResolutionViolations(tree) = {}
    BY ValidFacts
  <2> QED
    BY <2>1 DEF Kinds, RouteValidator
<1>1. /\ r \in collectTraceRefs(tree) /\ b \in DOMAIN tree.bundle
      /\ ~isTerminalStatus(tree.bundle[b].status)
  BY DEF LiveRefs, ResolvedRefs, Records, Class, ClassifyArtifactStatus
<1> DEFINE catalog == BuildBundleReqCatalog(tree.bundle)
<1>2. b \in DOMAIN catalog /\ q \in DOMAIN catalog[b] /\ r.version \in catalog[b][q]
  <2>1. CollectSupportRefs(Citers(tree)) = collectTraceRefs(tree)
    BY DEF collectTraceRefs
  <2>2. ResolveSupports(catalog, collectTraceRefs(tree)) = {}
    BY <1>0, <2>1 DEF buildResolutionViolations
  <2> HIDE DEF catalog
  <2> QED
    BY <1>1, <2>2 DEF ResolveSupports
<1>3. /\ q \in ReqIds(tree.bundle[b])
      /\ catalog[b][q] = effectiveVersionSet(CHOOSE e \in ToSet(tree.bundle[b].reqs) : e.id = q)
  BY <1>1, <1>2 DEF BuildBundleReqCatalog
<1>4. PICK i \in DOMAIN tree.bundle[b].reqs :
         LET e == tree.bundle[b].reqs[i] IN
         /\ Current(b, q) = e.version /\ Len(e.version) = 3 /\ e.version \in Semvers
         /\ (CHOOSE x \in ToSet(tree.bundle[b].reqs) : x.id = q) = e
         /\ e.log \in Seq(Semvers) /\ validateReqVersionLog(e) = {}
  BY <1>0, <1>1, <1>3, CurrentFacts
<1> DEFINE e == tree.bundle[b].reqs[i]
<1>5. /\ Current(b, q) = e.version /\ Len(e.version) = 3 /\ e.version \in Semvers
      /\ e.log \in Seq(Semvers) /\ validateReqVersionLog(e) = {}
      /\ r.version \in effectiveVersionSet(e)
  BY <1>2, <1>3, <1>4
<1> HIDE DEF e, b, q, catalog
<1>6. Stale(StalePinVerdict(r.version, e.version)) /\ compareSemver(r.version, e.version) >= 0
  BY <1>5 DEF b, q
<1>7. CASE ~(e.logged /\ e.log # <<>>)
  <2>1. r.version = e.version
    BY <1>5, <1>7 DEF effectiveVersionSet
  <2> QED
    BY <1>6, <2>1 DEF Stale, StalePinVerdict
<1>8. CASE e.logged /\ e.log # <<>>
  <2>1. r.version \in ToSet(e.log)
    BY <1>5, <1>8 DEF effectiveVersionSet
  <2>2. /\ \A v \in ToSet(e.log) : Len(v) = 3
        /\ \A j \in 2 .. Len(e.log) : ~(compareSemver(e.log[j], e.log[j - 1]) <= 0)
        /\ e.version = Newest(e.log)
    BY <1>5, <1>8, LogFacts
  <2>3. compareSemver(r.version, e.version) <= 0
    BY <1>5, <1>8, <2>1, <2>2, NewestIsNewest
  <2>4. Len(r.version) = 3 /\ r.version \in Semvers
    <3>1. PICK j \in DOMAIN e.log : r.version = e.log[j]
      BY <2>1 DEF ToSet
    <3> QED
      BY <1>5, <2>1, <2>2, <3>1, SeqElement
  <2>5. /\ r.version[1] \in Nat /\ r.version[2] \in Nat /\ r.version[3] \in Nat
        /\ e.version[1] \in Nat /\ e.version[2] \in Nat /\ e.version[3] \in Nat
    BY <1>5, <2>4, SemverParts
  <2>6. r.version[1] # e.version[1] \/ r.version[2] # e.version[2]
    BY <1>5, <1>6, <2>4 DEF Stale, StalePinVerdict
  <2> QED
    BY <1>5, <1>6, <2>3, <2>4, <2>5, <2>6 DEF compareSemver
<1> QED
  BY <1>7, <1>8

-----------------------------------------------------------------------------
(* Edits keep the shape of the project *)

(* Another artifact in the place of one, of the same kind and shape. *)
LEMMA WithSpec ==
  ASSUME NEW T, Shaped(T), NEW s \in DOMAIN T.spec, NEW a, WorkShape(a, "spec"),
         NEW q, q = [T EXCEPT !.spec[s] = a]
  PROVE  Shaped(q)
<1>1. /\ DOMAIN q = DOMAIN T /\ \A k \in DOMAIN T : k # "spec" => q[k] = T[k]
      /\ q.spec = [T.spec EXCEPT ![s] = a]
  BY DEF Shaped, Kinds
<1> QED
  BY <1>1 DEF Shaped, Kinds

LEMMA WithIssue ==
  ASSUME NEW T, Shaped(T), NEW i \in DOMAIN T.issue, NEW a, IssueShape(a),
         NEW q, q = [T EXCEPT !.issue[i] = a]
  PROVE  Shaped(q)
<1>1. /\ DOMAIN q = DOMAIN T /\ \A k \in DOMAIN T : k # "issue" => q[k] = T[k]
      /\ q.issue = [T.issue EXCEPT ![i] = a]
  BY DEF Shaped, Kinds
<1> QED
  BY <1>1 DEF Shaped, Kinds

LEMMA WithBundle ==
  ASSUME NEW T, Shaped(T), NEW b \in DOMAIN T.bundle, NEW a, BundleShape(a),
         NEW q, q = [T EXCEPT !.bundle[b] = a]
  PROVE  Shaped(q)
<1>1. /\ DOMAIN q = DOMAIN T /\ \A k \in DOMAIN T : k # "bundle" => q[k] = T[k]
      /\ q.bundle = [T.bundle EXCEPT ![b] = a]
  BY DEF Shaped, Kinds
<1> QED
  BY <1>1 DEF Shaped, Kinds

LEMMA WithPlan ==
  ASSUME NEW T, Shaped(T), NEW p \in DOMAIN T.plan, NEW a, PlanShape(a),
         NEW q, q = [T EXCEPT !.plan[p] = a]
  PROVE  Shaped(q)
<1>1. /\ DOMAIN q = DOMAIN T /\ \A k \in DOMAIN T : k # "plan" => q[k] = T[k]
      /\ q.plan = [T.plan EXCEPT ![p] = a]
  BY DEF Shaped, Kinds
<1> QED
  BY <1>1 DEF Shaped, Kinds

LEMMA WithTest ==
  ASSUME NEW T, Shaped(T), NEW t \in Tests, NEW st, NEW q, q = [T EXCEPT !.tests[t] = st]
  PROVE  Shaped(q)
<1>1. /\ DOMAIN q = DOMAIN T /\ \A k \in DOMAIN T : k # "tests" => q[k] = T[k]
      /\ DOMAIN q.tests = DOMAIN T.tests
  BY DEF Shaped, Kinds
<1> QED
  BY <1>1 DEF Shaped, Kinds

LEMMA WithBlocks ==
  ASSUME NEW T, Shaped(T), NEW k \in Kinds \ {"plan"}, NEW x \in DOMAIN T[k], NEW m,
         NEW q, q = [T EXCEPT ![k][x].malformed = m]
  PROVE  Shaped(q)
<1> DEFINE a == [T[k][x] EXCEPT !.malformed = m]
<1>0. /\ DOMAIN q = DOMAIN T /\ \A j \in DOMAIN T : j # k => q[j] = T[j]
      /\ q[k] = [T[k] EXCEPT ![x] = a]
  BY DEF Shaped, Kinds
<1>1. DOMAIN a = DOMAIN T[k][x] /\ \A f \in DOMAIN T[k][x] : f # "malformed" => a[f] = T[k][x][f]
  OBVIOUS
<1> HIDE DEF a
<1>2. CASE k = "spec"
  <2>1. WorkShape(a, "spec")
    BY <1>1, <1>2 DEF Shaped, WorkShape
  <2> QED
    BY <1>0, <1>2, <2>1 DEF Shaped, Kinds
<1>3. CASE k = "issue"
  <2>1. IssueShape(a)
    BY <1>1, <1>3 DEF Shaped, WorkShape, IssueShape
  <2> QED
    BY <1>0, <1>3, <2>1 DEF Shaped, Kinds
<1>4. CASE k = "bundle"
  <2>1. BundleShape(a)
    BY <1>1, <1>4 DEF Shaped, BundleShape
  <2> QED
    BY <1>0, <1>4, <2>1 DEF Shaped, Kinds
<1>5. CASE k \in {"adr", "directive"}
  BY <1>0, <1>5 DEF Shaped, Kinds
<1> QED
  BY <1>2, <1>3, <1>4, <1>5 DEF Kinds

LEMMA WithFits ==
  ASSUME NEW T, Shaped(T), NEW k \in Promising, NEW x \in DOMAIN T[k], NEW f,
         NEW q, q = [T EXCEPT ![k][x].fits = f]
  PROVE  Shaped(q)
<1> DEFINE a == [T[k][x] EXCEPT !.fits = f]
<1>0. /\ DOMAIN q = DOMAIN T /\ \A j \in DOMAIN T : j # k => q[j] = T[j]
      /\ q[k] = [T[k] EXCEPT ![x] = a]
  BY DEF Shaped, Kinds, Promising
<1>1. DOMAIN a = DOMAIN T[k][x] /\ \A g \in DOMAIN T[k][x] : g # "fits" => a[g] = T[k][x][g]
  OBVIOUS
<1> HIDE DEF a
<1>2. CASE k = "spec"
  <2>1. WorkShape(a, "spec")
    BY <1>1, <1>2 DEF Shaped, WorkShape
  <2> QED
    BY <1>0, <1>2, <2>1 DEF Shaped, Kinds
<1>3. CASE k = "issue"
  <2>1. IssueShape(a)
    BY <1>1, <1>3 DEF Shaped, WorkShape, IssueShape
  <2> QED
    BY <1>0, <1>3, <2>1 DEF Shaped, Kinds
<1>4. CASE k = "bundle"
  <2>1. BundleShape(a)
    BY <1>1, <1>4 DEF Shaped, BundleShape
  <2> QED
    BY <1>0, <1>4, <2>1 DEF Shaped, Kinds
<1>5. CASE k = "plan"
  <2>1. PlanShape(a)
    BY <1>1, <1>5 DEF Shaped, PlanShape
  <2> QED
    BY <1>0, <1>5, <2>1 DEF Shaped, Kinds
<1> QED
  BY <1>2, <1>3, <1>4, <1>5 DEF Promising

(* Moved pins are pins. *)
LEMMA PinsMove ==
  ASSUME NEW a, NEW kind, WorkShape(a, kind), NEW v \in Semvers, NEW q, q = WithPins(a, v)
  PROVE  /\ WorkShape(q, kind) /\ DOMAIN q = DOMAIN a
         /\ \A f \in DOMAIN a : f # "reqs" => q[f] = a[f]
<1> DEFINE Pin == [bundle : STRING, req : STRING, version : Semvers]
<1> DEFINE Req == [id : STRING, supForm : {"list", "absent", "scalar"}, supports : SUBSET Pin]
<1> DEFINE reqs == [i \in DOMAIN a.reqs |->
                      [a.reqs[i] EXCEPT !.supports =
                         {[p EXCEPT !.version = v] : p \in a.reqs[i].supports}]]
<1>1. q = [a EXCEPT !.reqs = reqs]
  BY Zenon DEF WithPins
<1>2. a.reqs \in Seq(Req)
  BY DEF WorkShape, CitedReqs
<1>3. ASSUME NEW i \in DOMAIN a.reqs PROVE reqs[i] \in Req
  <2>1. a.reqs[i] \in Req
    BY <1>2, SeqElement
  <2> DEFINE moved == {[p EXCEPT !.version = v] : p \in a.reqs[i].supports}
  <2>2. moved \subseteq Pin
    BY <2>1
  <2>3. reqs[i] = [a.reqs[i] EXCEPT !.supports = moved]
    BY Zenon
  <2> HIDE DEF moved, reqs
  <2> QED
    BY <2>1, <2>2, <2>3
<1>4. reqs \in Seq(Req)
  <2>1. DOMAIN a.reqs = 1 .. Len(a.reqs) /\ Len(a.reqs) \in Nat
    BY <1>2
  <2>2. reqs \in [1 .. Len(a.reqs) -> Req]
    BY <1>3, <2>1
  <2> HIDE DEF reqs, Req
  <2> QED
    BY <2>1, <2>2
<1> HIDE DEF reqs
<1>5. DOMAIN q = DOMAIN a /\ q.reqs = reqs /\ \A f \in DOMAIN a : f # "reqs" => q[f] = a[f]
  BY <1>1 DEF WorkShape
<1> QED
  BY <1>4, <1>5 DEF WorkShape, CitedReqs

(* An edit to a tree of the right shape. *)
LEMMA EditKeeps ==
  ASSUME TypeOK, NEW T, NEW file, Shaped(T), Edit(T, file)
  PROVE  TypeOK'
<1>1. tree' = T /\ edits' = edits + 1 /\ edits < MaxEdits /\ toolchain' = toolchain
  BY DEF Edit
<1>2. edits' \in 0 .. MaxEdits
  BY <1>1, DeliveryAssumption DEF TypeOK
<1>3. Shaped(tree)'
  BY <1>1 DEF Shaped
<1> QED
  BY <1>1, <1>2, <1>3 DEF TypeOK

(* Each edit puts an artifact of the same shape in the place of another. *)
LEMMA SpecEditKeeps ==
  ASSUME TypeOK, NEW s \in DOMAIN tree.spec, NEW a, WorkShape(a, "spec"), EditSpec(s, a)
  PROVE  TypeOK'
<1> DEFINE q == [tree EXCEPT !.spec[s] = a]
<1>1. Shaped(tree) /\ Edit(q, Path("spec", s))
  BY DEF TypeOK, EditSpec
<1>2. Shaped(q)
  BY <1>1, WithSpec
<1> HIDE DEF q
<1> QED
  BY <1>1, <1>2, EditKeeps

LEMMA IssueEditKeeps ==
  ASSUME TypeOK, NEW i \in DOMAIN tree.issue, NEW a, IssueShape(a), EditIssue(i, a)
  PROVE  TypeOK'
<1> DEFINE q == [tree EXCEPT !.issue[i] = a]
<1>1. Shaped(tree) /\ Edit(q, Path("issue", i))
  BY DEF TypeOK, EditIssue
<1>2. Shaped(q)
  BY <1>1, WithIssue
<1> HIDE DEF q
<1> QED
  BY <1>1, <1>2, EditKeeps

LEMMA BundleEditKeeps ==
  ASSUME TypeOK, NEW b \in DOMAIN tree.bundle, NEW a, BundleShape(a), EditBundle(b, a)
  PROVE  TypeOK'
<1> DEFINE q == [tree EXCEPT !.bundle[b] = a]
<1>1. Shaped(tree) /\ Edit(q, Path("bundle", b))
  BY DEF TypeOK, EditBundle
<1>2. Shaped(q)
  BY <1>1, WithBundle
<1> HIDE DEF q
<1> QED
  BY <1>1, <1>2, EditKeeps

(* A spec's status, pins, claims or blocks change, or it is put back. *)
LEMMA SpecActionsKeep ==
  ASSUME TypeOK, NEW s \in DOMAIN tree.spec,
         \/ SetSpecStatus(s) \/ RePinSpec(s) \/ DropClaims(s)
         \/ MistypeSpec(s) \/ CorruptSpec(s) \/ RestoreSpec(s) \/ MistypeBlock(s)
  PROVE  TypeOK'
<1>0. WorkShape(tree.spec[s], "spec")
  BY DEF TypeOK, Shaped
<1>1. CASE SetSpecStatus(s)
  <2>1. PICK st \in SpecStatuses, ptr \in {"absent", "typed"} :
          EditSpec(s, [tree.spec[s] EXCEPT !.status = st, !.pointer = ptr])
    BY <1>1 DEF SetSpecStatus
  <2>2. WorkShape([tree.spec[s] EXCEPT !.status = st, !.pointer = ptr], "spec")
    BY <1>0 DEF WorkShape
  <2> QED
    BY <2>1, <2>2, SpecEditKeeps
<1>2. CASE RePinSpec(s)
  <2>1. PICK v \in Versions \cup {<<>>} : EditSpec(s, WithPins(tree.spec[s], v))
    BY <1>2 DEF RePinSpec
  <2>2. v \in Semvers
    <3>1. <<>> \in Semvers
      BY DEF Semvers
    <3> QED
      BY <2>1, <3>1, DeliveryAssumption
  <2>3. WorkShape(WithPins(tree.spec[s], v), "spec")
    BY <1>0, <2>2, PinsMove
  <2> QED
    BY <2>1, <2>3, SpecEditKeeps
<1>3. CASE DropClaims(s)
  <2>1. WorkShape([tree.spec[s] EXCEPT !.claims = <<>>], "spec")
    BY <1>0 DEF WorkShape, Claims
  <2> QED
    BY <1>3, <2>1, SpecEditKeeps DEF DropClaims
<1>4. CASE MistypeSpec(s)
  <2>1. WorkShape([tree.spec[s] EXCEPT !.claimForm = "scalar", !.claims = <<>>], "spec")
    BY <1>0 DEF WorkShape, Claims
  <2> QED
    BY <1>4, <2>1, SpecEditKeeps DEF MistypeSpec
<1>5. CASE CorruptSpec(s)
  <2>1. WorkShape([tree.spec[s] EXCEPT !.parses = FALSE], "spec")
    BY <1>0 DEF WorkShape
  <2> QED
    BY <1>5, <2>1, SpecEditKeeps DEF CorruptSpec
<1>6. CASE RestoreSpec(s)
  <2>1. WorkShape(InitTree.spec[s], "spec")
    BY DeliveryAssumption DEF TypeOK, Shaped, Kinds
  <2> QED
    BY <1>6, <2>1, SpecEditKeeps DEF RestoreSpec
<1>7. CASE MistypeBlock(s)
  <2>1. /\ WorkShape([tree.spec[s] EXCEPT !.verification = "scalar"], "spec")
        /\ WorkShape([tree.spec[s] EXCEPT !.implementation = "scalar"], "spec")
        /\ WorkShape([tree.spec[s] EXCEPT !.contractForm = "scalar", !.contracts = <<>>], "spec")
    BY <1>0 DEF WorkShape
  <2> QED
    BY <1>7, <2>1, SpecEditKeeps DEF MistypeBlock
<1> QED
  BY <1>1, <1>2, <1>3, <1>4, <1>5, <1>6, <1>7

(* An issue's status or pins change. *)
LEMMA IssueActionsKeep ==
  ASSUME TypeOK, NEW i \in DOMAIN tree.issue, SetIssueStatus(i) \/ RePinIssue(i)
  PROVE  TypeOK'
<1>0. IssueShape(tree.issue[i]) /\ WorkShape(tree.issue[i], "issue")
  BY DEF TypeOK, Shaped, IssueShape
<1>1. CASE SetIssueStatus(i)
  <2>1. PICK st \in IssueStatuses, by \in {"absent"} \cup DOMAIN tree.plan :
          EditIssue(i, [tree.issue[i] EXCEPT !.status = st, !.delivered = by])
    BY <1>1 DEF SetIssueStatus
  <2>2. IssueShape([tree.issue[i] EXCEPT !.status = st, !.delivered = by])
    BY <1>0 DEF IssueShape, WorkShape
  <2> QED
    BY <2>1, <2>2, IssueEditKeeps
<1>2. CASE RePinIssue(i)
  <2>1. PICK v \in Versions : EditIssue(i, WithPins(tree.issue[i], v))
    BY <1>2 DEF RePinIssue
  <2>2. v \in Semvers
    BY <2>1, DeliveryAssumption
  <2>3. IssueShape(WithPins(tree.issue[i], v))
    <3> DEFINE q == WithPins(tree.issue[i], v)
    <3>1. /\ WorkShape(q, "issue") /\ DOMAIN q = DOMAIN tree.issue[i]
          /\ \A f \in DOMAIN tree.issue[i] : f # "reqs" => q[f] = tree.issue[i][f]
      BY <1>0, <2>2, PinsMove
    <3>2. IssueShape(q)
      <4> HIDE DEF q
      <4> QED
        BY <1>0, <3>1 DEF IssueShape
    <3> QED
      BY <3>2
  <2> QED
    BY <2>1, <2>3, IssueEditKeeps
<1> QED
  BY <1>1, <1>2

(* A bundle's maturity changes, or one of its requirements moves on. *)
LEMMA BundleActionsKeep ==
  ASSUME TypeOK, NEW b \in DOMAIN tree.bundle, SetMaturity(b) \/ BumpRequirement(b)
  PROVE  TypeOK'
<1>0. BundleShape(tree.bundle[b])
  BY DEF TypeOK, Shaped
<1>1. CASE SetMaturity(b)
  <2>1. PICK m \in Maturities : EditBundle(b, [tree.bundle[b] EXCEPT !.status = m])
    BY <1>1 DEF SetMaturity
  <2>2. BundleShape([tree.bundle[b] EXCEPT !.status = m])
    BY <1>0 DEF BundleShape
  <2> QED
    BY <2>1, <2>2, BundleEditKeeps
<1>2. CASE BumpRequirement(b)
  <2> DEFINE Entry == [id : STRING, version : Semvers, logged : BOOLEAN, log : Seq(Semvers)]
  <2>1. PICK i \in DOMAIN tree.bundle[b].reqs, v \in Versions, log \in BOOLEAN :
          LET r == tree.bundle[b].reqs[i]
              entry == IF log THEN Append(r.log, v) ELSE r.log
          IN EditBundle(b, [tree.bundle[b] EXCEPT !.reqs[i] = [r EXCEPT !.version = v, !.log = entry]])
    BY <1>2 DEF BumpRequirement
  <2> DEFINE r == tree.bundle[b].reqs[i]
  <2> DEFINE entry == IF log THEN Append(r.log, v) ELSE r.log
  <2> DEFINE moved == [r EXCEPT !.version = v, !.log = entry]
  <2> DEFINE a == [tree.bundle[b] EXCEPT !.reqs[i] = moved]
  <2>2. EditBundle(b, a)
    BY <2>1
  <2>3. tree.bundle[b].reqs \in Seq(Entry)
    BY <1>0 DEF BundleShape
  <2>4. r \in Entry
    BY <2>3, SeqElement
  <2>5. v \in Semvers
    BY DeliveryAssumption
  <2>6. entry \in Seq(Semvers)
    <3>1. r.log \in Seq(Semvers)
      BY <2>4
    <3> HIDE DEF r
    <3> QED
      BY <2>5, <3>1
  <2>7. moved \in Entry
    <3> HIDE DEF r, entry
    <3> QED
      BY <2>4, <2>5, <2>6
  <2>8. [tree.bundle[b].reqs EXCEPT ![i] = moved] \in Seq(Entry)
    <3> HIDE DEF moved, Entry
    <3> QED
      BY <2>3, <2>7
  <2>9. BundleShape(a)
    <3>1. /\ DOMAIN a = DOMAIN tree.bundle[b] /\ a.kind = tree.bundle[b].kind
          /\ a.reqs = [tree.bundle[b].reqs EXCEPT ![i] = moved]
      <4> HIDE DEF moved
      <4> QED
        BY <1>0 DEF BundleShape
    <3> HIDE DEF a, moved
    <3> QED
      BY <1>0, <2>8, <3>1 DEF BundleShape
  <2> HIDE DEF a
  <2> QED
    BY <2>2, <2>9, BundleEditKeeps
<1> QED
  BY <1>1, <1>2

(* A plan moves, a block or a type of an artifact breaks or is repaired, a    *)
(* test changes.                                                           *)
LEMMA OtherEditsKeep ==
  ASSUME TypeOK,
         \/ \E p \in DOMAIN tree.plan : SetPlanStatus(p)
         \/ \E k \in Promising : \E x \in DOMAIN tree[k] : EditFits(k, x)
         \/ \E k \in Kinds \ {"plan"} : \E x \in DOMAIN tree[k] : EditBlock(k, x)
         \/ \E t \in Tests : SetTest(t)
  PROVE  TypeOK'
<1>0. Shaped(tree)
  BY DEF TypeOK
<1>1. ASSUME NEW p \in DOMAIN tree.plan, SetPlanStatus(p) PROVE TypeOK'
  <2>1. PICK st \in PlanStatuses : EditPlan(p, [tree.plan[p] EXCEPT !.status = st])
    BY <1>1 DEF SetPlanStatus
  <2> DEFINE a == [tree.plan[p] EXCEPT !.status = st]
  <2> DEFINE q == [tree EXCEPT !.plan[p] = a]
  <2>2. PlanShape(a)
    BY <1>0 DEF Shaped, PlanShape
  <2>3. Edit(q, Path("plan", p))
    BY <2>1 DEF EditPlan
  <2>4. Shaped(q)
    <3> HIDE DEF a
    <3> QED
      BY <1>0, <2>2, WithPlan
  <2> HIDE DEF q
  <2> QED
    BY <2>3, <2>4, EditKeeps
<1>2. ASSUME NEW k \in Kinds \ {"plan"}, NEW x \in DOMAIN tree[k], EditBlock(k, x) PROVE TypeOK'
  <2>1. PICK block \in Blocks :
          LET a == tree[k][x]
              m == IF block \in a.malformed THEN a.malformed \ {block}
                   ELSE a.malformed \cup {block}
          IN Edit([tree EXCEPT ![k][x].malformed = m], Path(k, x))
    BY <1>2 DEF EditBlock
  <2> DEFINE m == IF block \in tree[k][x].malformed THEN tree[k][x].malformed \ {block}
                  ELSE tree[k][x].malformed \cup {block}
  <2> DEFINE q == [tree EXCEPT ![k][x].malformed = m]
  <2>2. Edit(q, Path(k, x))
    BY <2>1
  <2>3. Shaped(q)
    <3> HIDE DEF m
    <3> QED
      BY <1>0, WithBlocks
  <2> HIDE DEF q
  <2> QED
    BY <2>2, <2>3, EditKeeps
<1>3. ASSUME NEW t \in Tests, SetTest(t) PROVE TypeOK'
  <2>1. PICK st \in {"absent", "passing", "failing"} :
          Edit([tree EXCEPT !.tests[t] = st], Path("test", t))
    BY <1>3 DEF SetTest
  <2> DEFINE q == [tree EXCEPT !.tests[t] = st]
  <2>2. Shaped(q)
    BY <1>0, WithTest
  <2> HIDE DEF q
  <2> QED
    BY <2>1, <2>2, EditKeeps DEF q
<1>4. ASSUME NEW k \in Promising, NEW x \in DOMAIN tree[k], EditFits(k, x) PROVE TypeOK'
  <2>1. PICK f : Edit([tree EXCEPT ![k][x].fits = f], Path(k, x))
    BY <1>4 DEF EditFits
  <2> DEFINE q == [tree EXCEPT ![k][x].fits = f]
  <2>2. Shaped(q)
    BY <1>0, WithFits
  <2> HIDE DEF q
  <2> QED
    BY <2>1, <2>2, EditKeeps DEF q
<1> QED
  BY <1>1, <1>2, <1>3, <1>4

LEMMA TypeInit == Init => TypeOK
BY DeliveryAssumption DEF Init, TypeOK

LEMMA TypeNext == TypeOK /\ [Next]_vars => TypeOK'
<1> SUFFICES ASSUME TypeOK, [Next]_vars PROVE TypeOK'
  OBVIOUS
<1>1. ASSUME UNCHANGED <<tree, edits, toolchain>> PROVE TypeOK'
  BY <1>1 DEF TypeOK, Shaped
<1>2. CASE Merge \/ UNCHANGED vars
  BY <1>1, <1>2 DEF Merge, vars
<1>3. CASE Next /\ ~Merge
  BY <1>3, SpecActionsKeep, IssueActionsKeep, BundleActionsKeep, OtherEditsKeep DEF Next
<1> QED
  BY <1>2, <1>3

-----------------------------------------------------------------------------
(* What every state of the specification satisfies *)

(* The project keeps the shape the parsers give it, whatever is edited. *)
THEOREM ProjectKeepsShape == SpecD => []TypeOK
  BY TypeInit, TypeNext, PTL DEF SpecD

(* A run over the whole project is red while a delivered bundle has a        *)
(* requirement that no implemented spec answers for with a real pin and with *)
(* tests, which exist if the decoder of promises takes the spec              *)
(* (stepArtifactStatusDrift, stepRequirementTraceability,                    *)
(* stepTestVerification and the artifact validators together).               *)
THEOREM SweepMissesNothing == SpecD => []SweepIsTotal
  BY ProjectKeepsShape, SweepDelivers, PTL

(* A run over the whole project is red while a closed issue has nothing      *)
(* behind it.                                                                *)
THEOREM ClosedIssuesAreBacked == SpecD => []ClosedIsBacked
  BY ProjectKeepsShape, SweepBacks, PTL

(* In a project that validates, a stale pin is older than its requirement.   *)
THEOREM StalePinsAreOlder == SpecD => []StaleMeansOlder
  BY ProjectKeepsShape, ValidatedPinsAreOlder, PTL

(* What a green run, of any scope, says of the tree it ran on. *)
Answered ==
  \A b \in DeliveredBundles : \A q \in ReqIds(tree.bundle[b]) :
    \E s \in DOMAIN tree.spec :
      /\ tree.spec[s].status = "implemented"
      /\ PinsAt(s, b, q, LAMBDA v : ~Stale(StalePinVerdict(v, Current(b, q))))
      /\ parseSpecFrontmatter(tree.spec[s]) =>
           OwnTests(tree.spec[s]) \subseteq
             {t \in Tests : tree.tests[t] # "absent"} \cup PackClaims

LEMMA GreenAnswers ==
  ASSUME TypeOK, NEW scope, Green(tree, scope)
  PROVE  Answered
BY GreenDelivers DEF Answered

LEMMA SameTreeAnswers ==
  ASSUME Answered, UNCHANGED tree
  PROVE  Answered'
<1>1. DeliveredBundles' = DeliveredBundles
  BY DEF DeliveredBundles
<1>2. ASSUME NEW b \in DeliveredBundles, NEW q \in ReqIds(tree.bundle[b])
      PROVE  \E s \in DOMAIN tree.spec :
               /\ tree.spec[s].status = "implemented"
               /\ PinsAt(s, b, q, LAMBDA v : ~Stale(StalePinVerdict(v, Current(b, q))))'
               /\ parseSpecFrontmatter(tree.spec[s]) =>
                    OwnTests(tree.spec[s]) \subseteq
                      {t \in Tests : tree.tests[t] # "absent"} \cup PackClaims
  BY <1>2 DEF Answered, PinsAt, Current
<1>3. ASSUME NEW s
      PROVE  /\ parseSpecFrontmatter(tree.spec[s])' = parseSpecFrontmatter(tree.spec[s])
             /\ OwnTests(tree.spec[s])' = OwnTests(tree.spec[s])
  BY DEF parseSpecFrontmatter, OwnTests
<1> QED
  BY <1>1, <1>2, <1>3 DEF Answered, PinsAt, Current

LEMMA MergedNext ==
  ASSUME TypeOK, MergedIsDelivered, [Next]_vars
  PROVE  MergedIsDelivered'
<1>0. ASSUME Answered' PROVE MergedIsDelivered'
  BY <1>0 DEF MergedIsDelivered, Answered
<1>1. CASE Merge
  <2>1. Answered /\ UNCHANGED tree
    BY <1>1, GreenAnswers DEF Merge
  <2> QED
    BY <1>0, <2>1, SameTreeAnswers
<1>2. CASE UNCHANGED vars
  <2>1. CASE changed = {}
    <3>1. Answered
      BY <2>1 DEF MergedIsDelivered, Answered
    <3> QED
      BY <1>0, <1>2, <3>1, SameTreeAnswers DEF vars
  <2>2. CASE changed # {}
    BY <1>2, <2>2 DEF MergedIsDelivered, vars
  <2> QED
    BY <2>1, <2>2
<1>3. CASE Next /\ ~Merge
  <2>1. PICK T, file : Edit(T, file)
    BY <1>3 DEF Next, SetSpecStatus, RePinSpec, DropClaims, MistypeSpec, CorruptSpec,
         RestoreSpec, MistypeBlock, EditFits, SetIssueStatus, RePinIssue, SetMaturity, BumpRequirement, SetPlanStatus,
         EditBlock, SetTest, EditSpec, EditIssue, EditBundle, EditPlan
  <2>2. changed' # {}
    BY <2>1 DEF Edit
  <2> QED
    BY <2>2 DEF MergedIsDelivered
<1> QED
  BY <1>1, <1>2, <1>3

(* Main of a project that answered for its requirements when it adopted the  *)
(* gate, as any green run on it shows (GreenAnswers), never has a delivered  *)
(* bundle with a requirement nobody answers for, although a merge is checked *)
(* by a run that looks at the diff.                                          *)
THEOREM MainIsDelivered == Answered /\ SpecD => []MergedIsDelivered
<1>1. Answered => MergedIsDelivered
  BY DEF MergedIsDelivered, Answered
<1>2. TypeOK /\ MergedIsDelivered /\ [Next]_vars => MergedIsDelivered'
  BY MergedNext
<1>3. SpecD => Init /\ [][Next]_vars
  BY DEF SpecD
<1> QED
  BY <1>1, <1>2, <1>3, ProjectKeepsShape, PTL

-----------------------------------------------------------------------------
(* Remedies *)

Unfinished(T) ==
  {r \in LiveRefs(T) : Delivered(T, r.bundle) /\ BySpec(T, r) /\ CiterClass(T, r) # "success"}

LivePlans(T) == {p \in Records(T, "plan") : Class(T, "plan", p) # "retired"}

LiveBundles(T) == {b \in Records(T, "bundle") : Class(T, "bundle", b) # "retired"}

UnfinishedGap(r) ==
  Gap("citing_spec_not_implemented", "implement_spec", r.bundle, r.req, r.citer, r.citer, "error")

StaleGap(T, r) ==
  Gap("stale_pin", IF Delivered(T, r.bundle) THEN "new_spec" ELSE "re_pin",
      r.bundle, r.req, r.citer, r.citer, "error")

ChainGap(p, r) ==
  Gap("chain_outrun", "resolve_upstream", r.bundle, r.req, p, r.citer, "error")

UncoveredGap(T, b, q) ==
  Gap(IF <<b, q>> \in lapsedCiter(T) THEN "coverage_lapsed" ELSE "uncovered",
      IF <<b, q>> \in lapsedCiter(T) THEN "restate_supports" ELSE "author_spec",
      b, q, b, b, IF Delivered(T, b) THEN "error" ELSE "warning")

(* The plan p carries out a spec with a stale pin. *)
Chained(T, p, r) == r \in StaleRefs(T) /\ BySpec(T, r) /\ r.citer = T.plan[p].source

(* Where a traceability finding comes from. *)
LEMMA FindingCases ==
  ASSUME NEW T, NEW g \in ClassifyRequirementTraceability(T)
  PROVE  \/ \E r \in Unfinished(T) : g = UnfinishedGap(r)
         \/ \E r \in StaleRefs(T) : g = StaleGap(T, r)
         \/ \E p \in LivePlans(T) : \E r \in StaleRefs(T) : Chained(T, p, r) /\ g = ChainGap(p, r)
         \/ \E b \in LiveBundles(T) : \E q \in ReqIds(T.bundle[b]) :
              <<b, q>> \notin coveredReqs(T) /\ g = UncoveredGap(T, b, q)
<1> DEFINE stale == StaleRefs(T)
           Named(p) == CHOOSE x \in stale : BySpec(T, x) /\ x.citer = T.plan[p].source
<1>1. CASE \E r \in Unfinished(T) : g = UnfinishedGap(r)
  BY <1>1
<1>2. CASE \E r \in StaleRefs(T) : g = StaleGap(T, r)
  BY <1>2
<1>3. CASE \E p \in LivePlans(T) : /\ \E x \in stale : BySpec(T, x) /\ x.citer = T.plan[p].source
                                   /\ g = ChainGap(p, Named(p))
  <2>1. PICK p \in LivePlans(T) : /\ \E x \in stale : BySpec(T, x) /\ x.citer = T.plan[p].source
                                  /\ g = ChainGap(p, Named(p))
    BY <1>3
  <2>2. Named(p) \in stale /\ BySpec(T, Named(p)) /\ Named(p).citer = T.plan[p].source
    BY <2>1
  <2> HIDE DEF Named
  <2>3. Chained(T, p, Named(p))
    BY <2>2 DEF Chained
  <2> QED
    BY <2>1, <2>2, <2>3
<1>4. CASE \E b \in LiveBundles(T) : \E q \in ReqIds(T.bundle[b]) :
             <<b, q>> \notin coveredReqs(T) /\ g = UncoveredGap(T, b, q)
  BY <1>4
<1> QED
  BY <1>1, <1>2, <1>3, <1>4
     DEF ClassifyRequirementTraceability, Unfinished, UnfinishedGap, StaleGap, ChainGap,
         UncoveredGap, LivePlans, LiveBundles

(* The gap a finding names tells where it comes from. *)
LEMMA GapTells ==
  ASSUME NEW T, NEW g \in ClassifyRequirementTraceability(T)
  PROVE  /\ g.gap = "citing_spec_not_implemented" => \E r \in Unfinished(T) : g = UnfinishedGap(r)
         /\ g.gap = "stale_pin" => \E r \in StaleRefs(T) : g = StaleGap(T, r)
         /\ g.gap = "chain_outrun" =>
              \E p \in LivePlans(T) : \E r \in StaleRefs(T) : Chained(T, p, r) /\ g = ChainGap(p, r)
         /\ g.gap \in {"uncovered", "coverage_lapsed"} =>
              \E b \in LiveBundles(T) : \E q \in ReqIds(T.bundle[b]) :
                <<b, q>> \notin coveredReqs(T) /\ g = UncoveredGap(T, b, q)
<1>1. \A r : UnfinishedGap(r).gap = "citing_spec_not_implemented"
  BY DEF UnfinishedGap, Gap
<1>2. \A r : StaleGap(T, r).gap = "stale_pin"
  BY DEF StaleGap, Gap
<1>3. \A p, r : ChainGap(p, r).gap = "chain_outrun"
  BY DEF ChainGap, Gap
<1>4. \A b, q : UncoveredGap(T, b, q).gap \in {"uncovered", "coverage_lapsed"}
  BY DEF UncoveredGap, Gap
<1>5. CASE \E r \in Unfinished(T) : g = UnfinishedGap(r)
  BY <1>1, <1>5
<1>6. CASE \E r \in StaleRefs(T) : g = StaleGap(T, r)
  BY <1>2, <1>6
<1>7. CASE \E p \in LivePlans(T) : \E r \in StaleRefs(T) : Chained(T, p, r) /\ g = ChainGap(p, r)
  BY <1>3, <1>7
<1>8. CASE \E b \in LiveBundles(T) : \E q \in ReqIds(T.bundle[b]) :
             <<b, q>> \notin coveredReqs(T) /\ g = UncoveredGap(T, b, q)
  BY <1>4, <1>8
<1> QED
  BY <1>5, <1>6, <1>7, <1>8, FindingCases

(* And what there is a finding for. *)
LEMMA FindingsOf ==
  ASSUME NEW T
  PROVE  /\ \A r \in Unfinished(T) : UnfinishedGap(r) \in ClassifyRequirementTraceability(T)
         /\ \A r \in StaleRefs(T) : StaleGap(T, r) \in ClassifyRequirementTraceability(T)
         /\ \A p \in LivePlans(T), r \in StaleRefs(T) : Chained(T, p, r) =>
              \E h \in ClassifyRequirementTraceability(T) : h.gap = "chain_outrun" /\ h.at = p
         /\ \A b \in LiveBundles(T) : \A q \in ReqIds(T.bundle[b]) :
              <<b, q>> \notin coveredReqs(T) =>
                UncoveredGap(T, b, q) \in ClassifyRequirementTraceability(T)
<1>1. \A r \in Unfinished(T) : UnfinishedGap(r) \in ClassifyRequirementTraceability(T)
  BY DEF ClassifyRequirementTraceability, Unfinished, UnfinishedGap
<1>2. \A r \in StaleRefs(T) : StaleGap(T, r) \in ClassifyRequirementTraceability(T)
  BY DEF ClassifyRequirementTraceability, StaleGap
<1>3. ASSUME NEW p \in LivePlans(T), NEW r \in StaleRefs(T), Chained(T, p, r)
      PROVE  \E h \in ClassifyRequirementTraceability(T) : h.gap = "chain_outrun" /\ h.at = p
  <2> DEFINE n == CHOOSE x \in StaleRefs(T) : BySpec(T, x) /\ x.citer = T.plan[p].source
  <2>1. ChainGap(p, n) \in ClassifyRequirementTraceability(T)
    BY <1>3 DEF ClassifyRequirementTraceability, ChainGap, Chained, LivePlans
  <2>2. ChainGap(p, n).gap = "chain_outrun" /\ ChainGap(p, n).at = p
    BY DEF ChainGap, Gap
  <2> QED
    BY <2>1, <2>2
<1>4. ASSUME NEW b \in LiveBundles(T), NEW q \in ReqIds(T.bundle[b]), <<b, q>> \notin coveredReqs(T)
      PROVE  UncoveredGap(T, b, q) \in ClassifyRequirementTraceability(T)
  BY <1>4 DEF ClassifyRequirementTraceability, UncoveredGap, LiveBundles
<1> QED
  BY <1>1, <1>2, <1>3, <1>4

(* A reference after a remedy and the one before it: the pin is the same, or *)
(* the current version.                                                    *)
SameRef(r, x) ==
  /\ r.bundle = x.bundle /\ r.req = x.req /\ r.citer = x.citer
  /\ r = x \/ r.version = Current(x.bundle, x.req)

(* What a remedy T of the tree may change: pins become current, a citer gets *)
(* implemented, an implemented spec is new.                                *)
Repairs(T) ==
  /\ T.bundle = tree.bundle /\ T.plan = tree.plan
  /\ \A r \in collectTraceRefs(T) :
       \/ /\ BySpec(T, r) /\ CiterClass(T, r) = "success"
          /\ r.version = Current(r.bundle, r.req)
       \/ \E x \in collectTraceRefs(tree) : SameRef(r, x)
  /\ \A x \in collectTraceRefs(tree) : \E r \in collectTraceRefs(T) : SameRef(r, x)
  /\ \A x \in collectTraceRefs(tree) :
       LET k == KindOf(tree, x.citer)
       IN /\ KindOf(T, x.citer) = k
          /\ x.citer \in Records(T, k) <=> x.citer \in Records(tree, k)
          /\ \/ Class(T, k, x.citer) = Class(tree, k, x.citer)
             \/ Class(T, k, x.citer) = "success" /\ Class(tree, k, x.citer) # "retired"

(* A pin of the current version is not outrun. *)
LEMMA CurrentPins ==
  ASSUME NEW T, T.bundle = tree.bundle, NEW r, r.version = Current(r.bundle, r.req)
  PROVE  ~Outrun(T, r)
BY DEF Outrun, Current, Stale, StalePinVerdict

(* What a reference is, seen from the tree before the remedy. *)
LEMMA RefsBefore ==
  ASSUME NEW T, Repairs(T), NEW x \in collectTraceRefs(tree), NEW r \in collectTraceRefs(T),
         SameRef(r, x)
  PROVE  /\ r \in ResolvedRefs(T) <=> x \in ResolvedRefs(tree)
         /\ BySpec(T, r) <=> BySpec(tree, x)
         /\ Delivered(T, r.bundle) <=> Delivered(tree, x.bundle)
         /\ CiterClass(T, r) = "retired" <=> CiterClass(tree, x) = "retired"
         /\ CiterClass(tree, x) = "success" => CiterClass(T, r) = "success"
         /\ Outrun(T, r) => r = x /\ Outrun(tree, x)
         /\ ~Outrun(tree, x) => ~Outrun(T, r)
<1>1. /\ r.bundle = x.bundle /\ r.req = x.req /\ r.citer = x.citer
      /\ r = x \/ r.version = Current(x.bundle, x.req)
  BY DEF SameRef
<1>2. T.bundle = tree.bundle
  BY DEF Repairs
<1>3. \A b : /\ b \in Records(T, "bundle") <=> b \in Records(tree, "bundle")
             /\ Class(T, "bundle", b) = Class(tree, "bundle", b)
  BY <1>2 DEF Records, Class
<1>4. /\ KindOf(T, r.citer) = KindOf(tree, x.citer)
      /\ r.citer \in Records(T, KindOf(tree, x.citer))
           <=> x.citer \in Records(tree, KindOf(tree, x.citer))
      /\ \/ CiterClass(T, r) = CiterClass(tree, x)
         \/ CiterClass(T, r) = "success" /\ CiterClass(tree, x) # "retired"
  BY <1>1 DEF Repairs, CiterClass
<1>5. Outrun(T, r) => r = x /\ Outrun(tree, x)
  <2>1. CASE r = x
    BY <1>2, <2>1 DEF Outrun
  <2>2. CASE r.version = Current(r.bundle, r.req)
    BY <1>2, <2>2, CurrentPins
  <2> QED
    BY <1>1, <2>1, <2>2
<1>6. ~Outrun(tree, x) => ~Outrun(T, r)
  BY <1>5
<1> QED
  BY <1>1, <1>3, <1>4, <1>5, <1>6 DEF ResolvedRefs, BySpec, Delivered

(* A remedy leaves no reference outrun that was not, uncovers nothing, and   *)
(* leaves no spec unfinished that was not.                                 *)
LEMMA RepairsKeep ==
  ASSUME NEW T, Repairs(T)
  PROVE  /\ coveredReqs(tree) \subseteq coveredReqs(T)
         /\ lapsedCiter(T) = lapsedCiter(tree)
         /\ \A r \in StaleRefs(T) : r \in StaleRefs(tree) /\ (BySpec(T, r) => BySpec(tree, r))
         /\ \A r \in Unfinished(T) : \E x \in Unfinished(tree) : UnfinishedGap(r) = UnfinishedGap(x)
<1>0. ASSUME NEW r \in collectTraceRefs(T)
      PROVE  \/ BySpec(T, r) /\ CiterClass(T, r) = "success" /\ ~Outrun(T, r)
             \/ \E x \in collectTraceRefs(tree) : SameRef(r, x)
  BY <1>0, CurrentPins DEF Repairs
<1>1. ASSUME NEW x \in LiveRefs(tree), BySpec(tree, x), CiterClass(tree, x) = "success",
             ~Outrun(tree, x)
      PROVE  <<x.bundle, x.req>> \in coveredReqs(T)
  <2>1. x \in collectTraceRefs(tree) /\ x \in ResolvedRefs(tree)
    BY DEF LiveRefs, ResolvedRefs
  <2>2. PICK r \in collectTraceRefs(T) : SameRef(r, x)
    BY <2>1 DEF Repairs
  <2>3. /\ r \in ResolvedRefs(T) /\ BySpec(T, r) /\ CiterClass(T, r) = "success" /\ ~Outrun(T, r)
    BY <1>1, <2>1, <2>2, RefsBefore
  <2>4. r \in LiveRefs(T)
    BY <2>3 DEF LiveRefs
  <2>5. r.bundle = x.bundle /\ r.req = x.req
    BY <2>2 DEF SameRef
  <2>6. <<r.bundle, r.req>> \in coveredReqs(T)
    BY <2>3, <2>4 DEF coveredReqs
  <2> QED
    BY <2>5, <2>6
<1>2. coveredReqs(tree) \subseteq coveredReqs(T)
  BY <1>1 DEF coveredReqs
<1>3. ASSUME NEW r \in ResolvedRefs(T), BySpec(T, r), CiterClass(T, r) = "retired"
      PROVE  <<r.bundle, r.req>> \in lapsedCiter(tree)
  <2>1. r \in collectTraceRefs(T)
    BY DEF ResolvedRefs
  <2>2. PICK x \in collectTraceRefs(tree) : SameRef(r, x)
    BY <1>0, <1>3, <2>1
  <2>3. x \in ResolvedRefs(tree) /\ BySpec(tree, x) /\ CiterClass(tree, x) = "retired"
    BY <1>3, <2>1, <2>2, RefsBefore
  <2>4. <<x.bundle, x.req>> \in lapsedCiter(tree)
    BY <2>3 DEF lapsedCiter
  <2> QED
    BY <2>2, <2>4 DEF SameRef
<1>4. ASSUME NEW x \in ResolvedRefs(tree), BySpec(tree, x), CiterClass(tree, x) = "retired"
      PROVE  <<x.bundle, x.req>> \in lapsedCiter(T)
  <2>1. x \in collectTraceRefs(tree)
    BY DEF ResolvedRefs
  <2>2. PICK r \in collectTraceRefs(T) : SameRef(r, x)
    BY <2>1 DEF Repairs
  <2>3. r \in ResolvedRefs(T) /\ BySpec(T, r) /\ CiterClass(T, r) = "retired"
    BY <1>4, <2>1, <2>2, RefsBefore
  <2>4. <<r.bundle, r.req>> \in lapsedCiter(T)
    BY <2>3 DEF lapsedCiter
  <2> QED
    BY <2>2, <2>4 DEF SameRef
<1>5. lapsedCiter(T) = lapsedCiter(tree)
  BY <1>3, <1>4 DEF lapsedCiter
<1>6. ASSUME NEW r \in StaleRefs(T)
      PROVE  r \in StaleRefs(tree) /\ (BySpec(T, r) => BySpec(tree, r))
  <2>1. /\ r \in collectTraceRefs(T) /\ r \in ResolvedRefs(T) /\ CiterClass(T, r) # "retired"
        /\ Outrun(T, r) /\ <<r.bundle, r.req>> \notin coveredReqs(T)
    BY DEF StaleRefs, LiveRefs, ResolvedRefs
  <2>2. PICK x \in collectTraceRefs(tree) : SameRef(r, x)
    BY <1>0, <2>1
  <2>3. /\ r = x /\ Outrun(tree, x) /\ x \in ResolvedRefs(tree) /\ CiterClass(tree, x) # "retired"
        /\ BySpec(T, r) => BySpec(tree, x)
    BY <2>1, <2>2, RefsBefore
  <2> QED
    BY <1>2, <2>1, <2>3 DEF StaleRefs, LiveRefs
<1>7. ASSUME NEW r \in Unfinished(T)
      PROVE  \E x \in Unfinished(tree) : UnfinishedGap(r) = UnfinishedGap(x)
  <2>1. /\ r \in collectTraceRefs(T) /\ r \in ResolvedRefs(T) /\ CiterClass(T, r) # "retired"
        /\ Delivered(T, r.bundle) /\ BySpec(T, r) /\ CiterClass(T, r) # "success"
    BY DEF Unfinished, LiveRefs, ResolvedRefs
  <2>2. PICK x \in collectTraceRefs(tree) : SameRef(r, x)
    BY <1>0, <2>1
  <2>3. /\ x \in ResolvedRefs(tree) /\ CiterClass(tree, x) \notin {"retired", "success"}
        /\ Delivered(tree, x.bundle) /\ BySpec(tree, x)
    BY <2>1, <2>2, RefsBefore
  <2>4. x \in Unfinished(tree)
    BY <2>3 DEF Unfinished, LiveRefs
  <2> QED
    BY <2>2, <2>4 DEF UnfinishedGap, SameRef
<1> QED
  BY <1>2, <1>5, <1>6, <1>7

(* A remedy raises no finding, except that a plan's names another pin. *)
LEMMA NothingNew ==
  ASSUME NEW T, Repairs(T), NEW g \in ClassifyRequirementTraceability(T)
  PROVE  \/ g \in ClassifyRequirementTraceability(tree)
         \/ /\ g.gap = "chain_outrun"
            /\ \E h \in ClassifyRequirementTraceability(tree) : h.gap = "chain_outrun" /\ h.at = g.at
            /\ \E h \in ClassifyRequirementTraceability(tree) :
                 /\ h.gap = "stale_pin" /\ h.at = g.via
                 /\ h.bundle = g.bundle /\ h.req = g.req
<1>0. T.bundle = tree.bundle /\ T.plan = tree.plan
  BY DEF Repairs
<1>1. /\ \A b : Delivered(T, b) <=> Delivered(tree, b)
      /\ LiveBundles(T) = LiveBundles(tree) /\ LivePlans(T) = LivePlans(tree)
  BY <1>0 DEF Delivered, Class, LiveBundles, LivePlans, Records
<1>2. CASE \E r \in Unfinished(T) : g = UnfinishedGap(r)
  BY <1>2, RepairsKeep, FindingsOf
<1>3. CASE \E r \in StaleRefs(T) : g = StaleGap(T, r)
  <2>1. PICK r \in StaleRefs(T) : g = StaleGap(T, r)
    BY <1>3
  <2>2. r \in StaleRefs(tree)
    BY RepairsKeep
  <2>3. StaleGap(T, r) = StaleGap(tree, r)
    BY <1>1 DEF StaleGap
  <2> QED
    BY <2>1, <2>2, <2>3, FindingsOf
<1>4. CASE \E p \in LivePlans(T) : \E r \in StaleRefs(T) : Chained(T, p, r) /\ g = ChainGap(p, r)
  <2>1. PICK p \in LivePlans(T), r \in StaleRefs(T) : Chained(T, p, r) /\ g = ChainGap(p, r)
    BY <1>4
  <2>2. r \in StaleRefs(tree) /\ Chained(tree, p, r)
    BY <1>0, <2>1, RepairsKeep DEF Chained
  <2>3. g.gap = "chain_outrun" /\ g.at = p /\ g.via = r.citer /\ g.bundle = r.bundle /\ g.req = r.req
    BY <2>1 DEF ChainGap, Gap
  <2>4. StaleGap(tree, r) \in ClassifyRequirementTraceability(tree)
    BY <2>2, FindingsOf
  <2>5. /\ StaleGap(tree, r).gap = "stale_pin" /\ StaleGap(tree, r).at = r.citer
        /\ StaleGap(tree, r).bundle = r.bundle /\ StaleGap(tree, r).req = r.req
    BY DEF StaleGap, Gap
  <2>6. \E h \in ClassifyRequirementTraceability(tree) : h.gap = "chain_outrun" /\ h.at = p
    BY <1>1, <2>1, <2>2, FindingsOf
  <2> QED
    BY <2>3, <2>4, <2>5, <2>6
<1>5. CASE \E b \in LiveBundles(T) : \E q \in ReqIds(T.bundle[b]) :
             <<b, q>> \notin coveredReqs(T) /\ g = UncoveredGap(T, b, q)
  <2>0. PICK b \in LiveBundles(T) : \E q \in ReqIds(T.bundle[b]) :
          <<b, q>> \notin coveredReqs(T) /\ g = UncoveredGap(T, b, q)
    BY <1>5
  <2>1. PICK q \in ReqIds(T.bundle[b]) :
          <<b, q>> \notin coveredReqs(T) /\ g = UncoveredGap(T, b, q)
    BY <2>0
  <2>2. <<b, q>> \notin coveredReqs(tree) /\ lapsedCiter(T) = lapsedCiter(tree)
    BY <2>1, RepairsKeep
  <2>3. UncoveredGap(T, b, q) = UncoveredGap(tree, b, q)
    BY <1>1, <2>2 DEF UncoveredGap
  <2> QED
    BY <1>0, <1>1, <2>1, <2>2, <2>3, FindingsOf
<1> QED
  BY <1>2, <1>3, <1>4, <1>5, FindingCases

-----------------------------------------------------------------------------
(* A citer whose pins count. *)
Cites(a) == a.parses /\ ~isTerminalStatus(a.status) /\ a.reqForm = "list"

Ref(p, c) == [bundle |-> p.bundle, req |-> p.req, version |-> p.version, citer |-> c]

(* The references are the pins of the citers. *)
LEMMA RefsArePins ==
  ASSUME NEW T, NEW r
  PROVE  r \in collectTraceRefs(T) <=>
           \E c \in DOMAIN Citers(T) : /\ Cites(Citers(T)[c])
                                       /\ \E i \in DOMAIN Citers(T)[c].reqs :
                                            \E p \in Citers(T)[c].reqs[i].supports : r = Ref(p, c)
BY DEF collectTraceRefs, CollectSupportRefs, Cites, Ref

(* Whether a citer is on record, and what it promises, is up to a few fields. *)
SameStanding(a, o) ==
  /\ a.kind = o.kind /\ a.parses = o.parses /\ a.fits = o.fits
  /\ a.claimForm = o.claimForm /\ a.reqForm = o.reqForm
  /\ \/ a.status = o.status
     \/ a.kind = "spec" /\ a.status = "implemented" /\ ~isTerminalStatus(o.status)

(* A remedy that keeps it, or implements a spec, keeps every citer where it was or advances it. *)
LEMMA StandingFacts ==
  ASSUME NEW T, T.bundle = tree.bundle, T.plan = tree.plan, DOMAIN T = DOMAIN tree, TypeOK,
         DOMAIN T.issue = DOMAIN tree.issue, DOMAIN tree.spec \subseteq DOMAIN T.spec,
         DOMAIN T.spec \cap DOMAIN tree.issue \subseteq DOMAIN tree.spec,
         \A s \in DOMAIN tree.spec : SameStanding(T.spec[s], tree.spec[s]),
         \A i \in DOMAIN tree.issue : SameStanding(T.issue[i], tree.issue[i]),
         NEW c \in DOMAIN Citers(tree)
  PROVE  /\ c \in DOMAIN Citers(T) /\ KindOf(T, c) = KindOf(tree, c)
         /\ Cites(Citers(T)[c]) <=> Cites(Citers(tree)[c])
         /\ c \in Records(T, KindOf(tree, c)) <=> c \in Records(tree, KindOf(tree, c))
         /\ \/ Class(T, KindOf(tree, c), c) = Class(tree, KindOf(tree, c), c)
            \/ /\ Class(T, KindOf(tree, c), c) = "success"
               /\ Class(tree, KindOf(tree, c), c) # "retired"
<1>1. c \in DOMAIN tree.spec \cup DOMAIN tree.issue
  BY DEF Citers
<1>2. KindOf(T, c) = KindOf(tree, c) /\ c \in DOMAIN Citers(T)
  BY <1>1 DEF KindOf, Citers
<1>3. /\ Citers(T)[c] = T[KindOf(tree, c)][c] /\ Citers(tree)[c] = tree[KindOf(tree, c)][c]
      /\ KindOf(tree, c) \in {"spec", "issue"}
  <2>1. CASE c \in DOMAIN tree.spec
    BY <2>1, <1>1 DEF KindOf, Citers
  <2>2. CASE c \notin DOMAIN tree.spec
    BY <2>2, <1>1 DEF KindOf, Citers
  <2> QED
    BY <2>1, <2>2
<1>4. SameStanding(T[KindOf(tree, c)][c], tree[KindOf(tree, c)][c])
  BY <1>1 DEF KindOf
<1>5. ~isTerminalStatus("implemented")
  BY DEF isTerminalStatus
<1>6. Cites(Citers(T)[c]) <=> Cites(Citers(tree)[c])
  BY <1>3, <1>4, <1>5 DEF SameStanding, Cites
<1>7. /\ c \in DOMAIN T[KindOf(tree, c)] /\ c \in DOMAIN tree[KindOf(tree, c)]
      /\ tree[KindOf(tree, c)][c].kind = KindOf(tree, c)
  BY <1>1 DEF KindOf, TypeOK, Shaped, WorkShape, IssueShape
<1>8. c \in Records(T, KindOf(tree, c)) <=> c \in Records(tree, KindOf(tree, c))
  BY <1>4, <1>7 DEF SameStanding, Records, Typed
<1>9. \/ Class(T, KindOf(tree, c), c) = Class(tree, KindOf(tree, c), c)
      \/ /\ Class(T, KindOf(tree, c), c) = "success"
         /\ Class(tree, KindOf(tree, c), c) # "retired"
  BY <1>4, <1>5, <1>7 DEF SameStanding, Class, ClassifyArtifactStatus
<1> QED
  BY <1>2, <1>6, <1>8, <1>9

(* Implementing a citing spec. *)
LEMMA ImplementRepairs ==
  ASSUME TypeOK, NEW c \in DOMAIN tree.spec, ~isTerminalStatus(tree.spec[c].status),
         NEW T, T = [tree EXCEPT !.spec[c].status = "implemented"]
  PROVE  Repairs(T) /\ Class(T, "spec", c) = "success"
<1> DEFINE a == [tree.spec[c] EXCEPT !.status = "implemented"]
<1>0. "spec" \in DOMAIN tree /\ WorkShape(tree.spec[c], "spec")
  BY DEF TypeOK, Shaped, Kinds
<1>1. /\ DOMAIN T = DOMAIN tree /\ T.spec = [tree.spec EXCEPT ![c] = a]
      /\ T.bundle = tree.bundle /\ T.plan = tree.plan /\ T.issue = tree.issue
  BY <1>0 DEF TypeOK, Shaped, Kinds
<1>2. /\ a.kind = "spec" /\ a.kind = tree.spec[c].kind /\ a.parses = tree.spec[c].parses
      /\ a.claimForm = tree.spec[c].claimForm /\ a.reqForm = tree.spec[c].reqForm
      /\ a.reqs = tree.spec[c].reqs /\ a.fits = tree.spec[c].fits /\ a.status = "implemented"
  BY <1>0 DEF WorkShape
<1> HIDE DEF a
<1>3. SameStanding(a, tree.spec[c])
  BY <1>2 DEF SameStanding
<1>4. /\ DOMAIN T.spec = DOMAIN tree.spec
      /\ \A s \in DOMAIN tree.spec : /\ SameStanding(T.spec[s], tree.spec[s])
                                     /\ T.spec[s].reqs = tree.spec[s].reqs
  BY <1>1, <1>2, <1>3 DEF SameStanding
<1>5. \A i \in DOMAIN tree.issue : SameStanding(T.issue[i], tree.issue[i])
  BY <1>1 DEF SameStanding
<1>6. DOMAIN Citers(T) = DOMAIN Citers(tree)
  BY <1>1, <1>4 DEF Citers
<1>7. \A x \in DOMAIN Citers(tree) : Citers(T)[x].reqs = Citers(tree)[x].reqs
  BY <1>1, <1>4 DEF Citers
<1>8. \A x \in DOMAIN Citers(tree) :
        /\ KindOf(T, x) = KindOf(tree, x)
        /\ Cites(Citers(T)[x]) <=> Cites(Citers(tree)[x])
        /\ x \in Records(T, KindOf(tree, x)) <=> x \in Records(tree, KindOf(tree, x))
        /\ \/ Class(T, KindOf(tree, x), x) = Class(tree, KindOf(tree, x), x)
           \/ /\ Class(T, KindOf(tree, x), x) = "success"
              /\ Class(tree, KindOf(tree, x), x) # "retired"
  BY <1>1, <1>4, <1>5, StandingFacts
<1>9. \A r : r \in collectTraceRefs(T) <=> r \in collectTraceRefs(tree)
  BY <1>6, <1>7, <1>8, RefsArePins
<1>10. \A r \in collectTraceRefs(tree) : r.citer \in DOMAIN Citers(tree)
  BY RefsArePins DEF Ref
<1>11. \A r : SameRef(r, r)
  BY DEF SameRef
<1>12. Class(T, "spec", c) = "success"
  BY <1>1, <1>2 DEF Class, ClassifyArtifactStatus, isTerminalStatus
<1> QED
  BY <1>1, <1>8, <1>9, <1>10, <1>11, <1>12 DEF Repairs

(* Moving the pins of a citer to the current version. *)
LEMMA RePinRepairs ==
  ASSUME TypeOK, NEW c \in DOMAIN Citers(tree), NEW b, NEW q, NEW T, T = RePinned(c, b, q)
  PROVE  /\ Repairs(T)
         /\ \A r \in collectTraceRefs(T) :
              r.citer = c /\ r.bundle = b /\ r.req = q => r.version = Current(b, q)
<1> DEFINE k == KindOf(tree, c)
           o == tree[k][c]
           moved == [i \in DOMAIN o.reqs |->
                       [o.reqs[i] EXCEPT !.supports = {Moved(p, b, q) : p \in o.reqs[i].supports}]]
           a == [o EXCEPT !.reqs = moved]
<1>0. /\ k \in {"spec", "issue"} /\ c \in DOMAIN tree[k] /\ DOMAIN tree = Kinds \cup {"tests"}
      /\ WorkShape(o, k)
  BY DEF Citers, KindOf, TypeOK, Shaped, IssueShape
<1>1. /\ DOMAIN T = DOMAIN tree /\ T[k] = [tree[k] EXCEPT ![c] = a]
      /\ \A j \in DOMAIN tree : j # k => T[j] = tree[j]
  <2>1. T = [tree EXCEPT ![k] = [tree[k] EXCEPT ![c] = a]]
    BY DEF RePinned
  <2> HIDE DEF a
  <2> QED
    BY <1>0, <2>1 DEF Kinds
<1>2. /\ a.kind = o.kind /\ a.parses = o.parses /\ a.claimForm = o.claimForm
      /\ a.reqForm = o.reqForm /\ a.status = o.status /\ a.fits = o.fits /\ a.reqs = moved
  BY <1>0 DEF WorkShape
<1>3. /\ o.reqs \in CitedReqs
      /\ \A i \in DOMAIN o.reqs :
           o.reqs[i] \in [id : STRING, supForm : {"list", "absent", "scalar"},
                          supports : SUBSET [bundle : STRING, req : STRING, version : Semvers]]
  BY <1>0, SeqElement DEF WorkShape, CitedReqs
<1>4. /\ DOMAIN moved = DOMAIN o.reqs
      /\ \A i \in DOMAIN o.reqs : moved[i].supports = {Moved(p, b, q) : p \in o.reqs[i].supports}
  <2>1. ASSUME NEW i \in DOMAIN o.reqs
        PROVE  moved[i].supports = {Moved(p, b, q) : p \in o.reqs[i].supports}
    <3>1. "supports" \in DOMAIN o.reqs[i]
      BY <1>3
    <3> QED
      BY <3>1
  <2> QED
    BY <2>1
<1> HIDE DEF a, moved
<1>5. /\ T.bundle = tree.bundle /\ T.plan = tree.plan
      /\ DOMAIN T.spec = DOMAIN tree.spec /\ DOMAIN T.issue = DOMAIN tree.issue
  BY <1>0, <1>1 DEF Kinds
<1>6. /\ \A s \in DOMAIN tree.spec : SameStanding(T.spec[s], tree.spec[s])
      /\ \A i \in DOMAIN tree.issue : SameStanding(T.issue[i], tree.issue[i])
  BY <1>0, <1>1, <1>2 DEF SameStanding, Kinds
<1>7. \A x \in DOMAIN Citers(tree) :
        /\ KindOf(T, x) = KindOf(tree, x)
        /\ Cites(Citers(T)[x]) <=> Cites(Citers(tree)[x])
        /\ x \in Records(T, KindOf(tree, x)) <=> x \in Records(tree, KindOf(tree, x))
        /\ \/ Class(T, KindOf(tree, x), x) = Class(tree, KindOf(tree, x), x)
           \/ /\ Class(T, KindOf(tree, x), x) = "success"
              /\ Class(tree, KindOf(tree, x), x) # "retired"
  BY <1>1, <1>5, <1>6, StandingFacts
<1>8. DOMAIN Citers(T) = DOMAIN Citers(tree)
  BY <1>5 DEF Citers
<1>9. Citers(T)[c].reqs = moved /\ Citers(tree)[c].reqs = o.reqs
  BY <1>0, <1>1, <1>2, <1>5 DEF Citers, KindOf
<1>10. \A x \in DOMAIN Citers(tree) : x # c => Citers(T)[x].reqs = Citers(tree)[x].reqs
  BY <1>0, <1>1, <1>5 DEF Citers, Kinds
<1>11. ASSUME NEW p, NEW i \in DOMAIN o.reqs, p \in o.reqs[i].supports
       PROVE  /\ Moved(p, b, q).bundle = p.bundle /\ Moved(p, b, q).req = p.req
              /\ p.bundle = b /\ p.req = q => Moved(p, b, q).version = Current(b, q)
              /\ ~(p.bundle = b /\ p.req = q) => Moved(p, b, q) = p
  <2>1. p \in [bundle : STRING, req : STRING, version : Semvers]
    BY <1>3, <1>11
  <2> QED
    BY <2>1 DEF Moved
<1>12. ASSUME NEW p, NEW i \in DOMAIN o.reqs, p \in o.reqs[i].supports
       PROVE  /\ SameRef(Ref(Moved(p, b, q), c), Ref(p, c))
              /\ p.bundle = b /\ p.req = q => Ref(Moved(p, b, q), c).version = Current(b, q)
  BY <1>11, <1>12 DEF SameRef, Ref
<1>13. ASSUME NEW r \in collectTraceRefs(T)
       PROVE  /\ \E x \in collectTraceRefs(tree) : SameRef(r, x)
              /\ r.citer = c /\ r.bundle = b /\ r.req = q => r.version = Current(b, q)
  <2>1. PICK d \in DOMAIN Citers(T) : /\ Cites(Citers(T)[d])
                                      /\ \E i \in DOMAIN Citers(T)[d].reqs :
                                           \E p \in Citers(T)[d].reqs[i].supports : r = Ref(p, d)
    BY RefsArePins
  <2>2. r.citer = d
    BY <2>1 DEF Ref
  <2>3. CASE d # c
    <3>1. r \in collectTraceRefs(tree)
      BY <1>7, <1>8, <1>10, <2>1, <2>3, RefsArePins
    <3> QED
      BY <2>2, <2>3, <3>1 DEF SameRef
  <2>4. CASE d = c
    <3>1. PICK i \in DOMAIN o.reqs : \E n \in moved[i].supports : r = Ref(n, c)
      BY <1>4, <1>9, <2>1, <2>4
    <3>2. PICK p \in o.reqs[i].supports : r = Ref(Moved(p, b, q), c)
      BY <1>4, <3>1
    <3>3. Ref(p, c) \in collectTraceRefs(tree)
      BY <1>7, <1>8, <1>9, <2>1, <2>4, RefsArePins
    <3>4. r.bundle = p.bundle /\ r.req = p.req
      BY <1>11, <3>2 DEF Ref
    <3> QED
      BY <1>12, <3>2, <3>3, <3>4
  <2> QED
    BY <2>3, <2>4
<1>14. ASSUME NEW x \in collectTraceRefs(tree)
       PROVE  x.citer \in DOMAIN Citers(tree) /\ \E r \in collectTraceRefs(T) : SameRef(r, x)
  <2>1. PICK d \in DOMAIN Citers(tree) :
          /\ Cites(Citers(tree)[d])
          /\ \E i \in DOMAIN Citers(tree)[d].reqs :
               \E p \in Citers(tree)[d].reqs[i].supports : x = Ref(p, d)
    BY RefsArePins
  <2>2. x.citer = d
    BY <2>1 DEF Ref
  <2>3. CASE d # c
    <3>1. x \in collectTraceRefs(T)
      BY <1>7, <1>8, <1>10, <2>1, <2>3, RefsArePins
    <3> QED
      BY <2>2, <3>1 DEF SameRef
  <2>4. CASE d = c
    <3>1. PICK i \in DOMAIN o.reqs : \E p \in o.reqs[i].supports : x = Ref(p, c)
      BY <1>9, <2>1, <2>4
    <3>2. PICK p \in o.reqs[i].supports : x = Ref(p, c)
      BY <3>1
    <3>3. Moved(p, b, q) \in moved[i].supports /\ i \in DOMAIN moved
      BY <1>4
    <3>4. Ref(Moved(p, b, q), c) \in collectTraceRefs(T)
      BY <1>7, <1>8, <1>9, <2>1, <2>4, <3>3, RefsArePins
    <3> QED
      BY <1>12, <2>2, <3>2, <3>4
  <2> QED
    BY <2>3, <2>4
<1>15. Repairs(T)
  BY <1>5, <1>7, <1>13, <1>14 DEF Repairs
<1> QED
  BY <1>13, <1>15

(* A new spec, implemented, that pins the requirement as it is now. *)
LEMMA FreshRepairs ==
  ASSUME TypeOK, NEW b \in LiveBundles(tree), NEW q, NEW T, T = WithFreshSpec(b, q)
  PROVE  Repairs(T) /\ <<b, q>> \in coveredReqs(T)
<1> DEFINE pin == [bundle |-> b, req |-> q, version |-> Current(b, q)]
           a == [kind |-> "spec", parses |-> TRUE, malformed |-> {}, status |-> "implemented",
                 pointer |-> "absent", verification |-> "map", level |-> "unit", threshold |-> 90,
                 command |-> TRUE, implementation |-> "map", subject |-> TRUE, reqForm |-> "list",
                 reqs |-> <<[id |-> "R1", supForm |-> "list", supports |-> {pin}]>>,
                 claimForm |-> "list", claims |-> <<>>, contractForm |-> "list",
                 contracts |-> <<>>, fits |-> Readers]
           fresh == Ref(pin, FreshSpec)
<1>0. /\ DOMAIN tree = Kinds \cup {"tests"} /\ FreshSpec \notin DOMAIN tree.spec
      /\ FreshSpec \notin DOMAIN tree.issue
  BY DeliveryAssumption DEF TypeOK, Shaped, Kinds
<1>1. /\ DOMAIN T = DOMAIN tree /\ T.spec = [s \in DOMAIN tree.spec \cup {FreshSpec} |->
                  IF s # FreshSpec THEN tree.spec[s] ELSE a]
      /\ \A j \in DOMAIN tree : j # "spec" => T[j] = tree[j]
  BY <1>0 DEF WithFreshSpec, Kinds
<1>2. /\ a.kind = "spec" /\ a.parses /\ a.claimForm = "list" /\ a.reqForm = "list"
      /\ a.fits = Readers
      /\ a.status = "implemented" /\ a.reqs = <<[id |-> "R1", supForm |-> "list", supports |-> {pin}]>>
  OBVIOUS
<1> HIDE DEF a
<1>3. DOMAIN a.reqs = {1} /\ a.reqs[1].supports = {pin}
  BY <1>2
<1>4. /\ DOMAIN T.spec = DOMAIN tree.spec \cup {FreshSpec} /\ T.spec[FreshSpec] = a
      /\ \A s \in DOMAIN tree.spec : T.spec[s] = tree.spec[s]
  BY <1>0, <1>1
<1>5. /\ T.bundle = tree.bundle /\ T.plan = tree.plan /\ T.issue = tree.issue
  BY <1>0, <1>1 DEF Kinds
<1>6. \A o : SameStanding(o, o)
  BY DEF SameStanding
<1>7. \A x \in DOMAIN Citers(tree) :
        /\ x \in DOMAIN Citers(T) /\ KindOf(T, x) = KindOf(tree, x)
        /\ Cites(Citers(T)[x]) <=> Cites(Citers(tree)[x])
        /\ x \in Records(T, KindOf(tree, x)) <=> x \in Records(tree, KindOf(tree, x))
        /\ \/ Class(T, KindOf(tree, x), x) = Class(tree, KindOf(tree, x), x)
           \/ /\ Class(T, KindOf(tree, x), x) = "success"
              /\ Class(tree, KindOf(tree, x), x) # "retired"
  BY <1>0, <1>1, <1>4, <1>5, <1>6, StandingFacts
<1>8. /\ DOMAIN Citers(T) = DOMAIN Citers(tree) \cup {FreshSpec}
      /\ FreshSpec \notin DOMAIN Citers(tree) /\ Citers(T)[FreshSpec] = a
      /\ \A x \in DOMAIN Citers(tree) : Citers(T)[x] = Citers(tree)[x]
  BY <1>0, <1>4, <1>5 DEF Citers
<1>9. Cites(a) /\ ~isTerminalStatus("implemented")
  BY <1>2 DEF Cites, isTerminalStatus
<1>10. KindOf(T, FreshSpec) = "spec" /\ FreshSpec \in Records(T, "spec")
       /\ Class(T, "spec", FreshSpec) = "success"
  BY <1>2, <1>4, <1>9 DEF KindOf, Records, Typed, Readers, Class, ClassifyArtifactStatus
<1>11. /\ fresh.citer = FreshSpec /\ fresh.bundle = b /\ fresh.req = q
       /\ fresh.version = Current(fresh.bundle, fresh.req)
  BY DEF Ref
<1> HIDE DEF fresh
<1>12. fresh \in collectTraceRefs(T)
  <2>1. \E i \in DOMAIN a.reqs : \E p \in a.reqs[i].supports : fresh = Ref(p, FreshSpec)
    BY <1>3 DEF fresh
  <2> HIDE DEF pin
  <2> QED
    BY <1>8, <1>9, <2>1, RefsArePins
<1>13. ASSUME NEW r \in collectTraceRefs(T) PROVE r = fresh \/ r \in collectTraceRefs(tree)
  <2>1. PICK d \in DOMAIN Citers(T) : /\ Cites(Citers(T)[d])
                                      /\ \E i \in DOMAIN Citers(T)[d].reqs :
                                           \E p \in Citers(T)[d].reqs[i].supports : r = Ref(p, d)
    BY RefsArePins
  <2>2. CASE d = FreshSpec
    BY <1>3, <1>8, <2>1, <2>2 DEF fresh
  <2>3. CASE d # FreshSpec
    BY <1>7, <1>8, <2>1, <2>3, RefsArePins
  <2> QED
    BY <2>2, <2>3
<1>14. ASSUME NEW x \in collectTraceRefs(tree)
       PROVE  x.citer \in DOMAIN Citers(tree) /\ x \in collectTraceRefs(T)
  <2>1. PICK d \in DOMAIN Citers(tree) :
          /\ Cites(Citers(tree)[d])
          /\ \E i \in DOMAIN Citers(tree)[d].reqs :
               \E p \in Citers(tree)[d].reqs[i].supports : x = Ref(p, d)
    BY RefsArePins
  <2>2. x.citer = d
    BY <2>1 DEF Ref
  <2> QED
    BY <1>7, <1>8, <2>1, <2>2, RefsArePins
<1>15. BySpec(T, fresh) /\ CiterClass(T, fresh) = "success"
  BY <1>10, <1>11 DEF BySpec, CiterClass
<1>16. \A r : SameRef(r, r)
  BY DEF SameRef
<1>17. Repairs(T)
  BY <1>5, <1>7, <1>11, <1>13, <1>14, <1>15, <1>16 DEF Repairs
<1>18. ~Outrun(T, fresh)
  BY <1>5, <1>11, CurrentPins
<1>19. fresh \in LiveRefs(T)
  <2>1. b \in Records(T, "bundle") /\ Class(T, "bundle", b) # "retired"
    BY <1>5 DEF LiveBundles, Records, Class
  <2> QED
    BY <1>10, <1>11, <1>12, <1>15, <2>1 DEF LiveRefs, ResolvedRefs
<1> QED
  BY <1>11, <1>15, <1>17, <1>18, <1>19 DEF coveredReqs

-----------------------------------------------------------------------------
(* Doing what a finding asks for. *)

(* The citer of a reference is one whose pins count. *)
LEMMA CiterFacts ==
  ASSUME NEW r \in collectTraceRefs(tree)
  PROVE  /\ r.citer \in DOMAIN Citers(tree)
         /\ BySpec(tree, r) => /\ r.citer \in DOMAIN tree.spec
                               /\ ~isTerminalStatus(tree.spec[r.citer].status)
<1>1. PICK c \in DOMAIN Citers(tree) : /\ Cites(Citers(tree)[c])
                                       /\ \E i \in DOMAIN Citers(tree)[c].reqs :
                                            \E p \in Citers(tree)[c].reqs[i].supports : r = Ref(p, c)
  BY RefsArePins
<1>2. r.citer = c
  BY <1>1 DEF Ref
<1> QED
  BY <1>1, <1>2 DEF BySpec, KindOf, Citers, Cites

(* An implemented spec has no unfinished reference. *)
LEMMA ImplementCloses ==
  ASSUME TypeOK, NEW r \in Unfinished(tree), NEW f, f = UnfinishedGap(r),
         NEW T, T = Remedied(f)
  PROVE  /\ Repairs(T)
         /\ \A g \in ClassifyRequirementTraceability(T) : Identity(g) # Identity(f)
<1>1. /\ f.gap = "citing_spec_not_implemented" /\ f.remedy = "implement_spec" /\ f.at = r.citer
  BY DEF UnfinishedGap, Gap
<1>2. r \in collectTraceRefs(tree) /\ BySpec(tree, r)
  BY DEF Unfinished, LiveRefs, ResolvedRefs
<1>3. T = [tree EXCEPT !.spec[r.citer].status = "implemented"]
  BY <1>1 DEF Remedied
<1>4. Repairs(T) /\ Class(T, "spec", r.citer) = "success"
  BY <1>2, <1>3, CiterFacts, ImplementRepairs
<1>5. ASSUME NEW g \in ClassifyRequirementTraceability(T), Identity(g) = Identity(f) PROVE FALSE
  <2>1. g.gap = "citing_spec_not_implemented" /\ g.at = r.citer
    BY <1>1, <1>5 DEF Identity
  <2>2. PICK s \in Unfinished(T) : g = UnfinishedGap(s)
    BY <2>1, GapTells
  <2>3. s.citer = r.citer /\ BySpec(T, s) /\ CiterClass(T, s) # "success"
    BY <2>1, <2>2 DEF UnfinishedGap, Gap, Unfinished
  <2> QED
    BY <1>4, <2>3 DEF BySpec, CiterClass
<1> QED
  BY <1>4, <1>5

(* A pin moved to the current version is not stale, and neither is the chain *)
(* of the plan that carries out its spec.                                  *)
LEMMA RePinCloses ==
  ASSUME TypeOK, NEW r \in StaleRefs(tree), NEW f, NEW T,
         \/ f = StaleGap(tree, r) /\ ~Delivered(tree, r.bundle)
         \/ \E p \in LivePlans(tree) : Chained(tree, p, r) /\ f = ChainGap(p, r),
         T = Remedied(f)
  PROVE  /\ Repairs(T)
         /\ \A g \in ClassifyRequirementTraceability(T) : Identity(g) # Identity(f)
<1>1. f.remedy \in {"re_pin", "resolve_upstream"} /\ f.via = r.citer
      /\ f.bundle = r.bundle /\ f.req = r.req
  BY DEF StaleGap, ChainGap, Gap
<1>2. T = RePinned(r.citer, r.bundle, r.req)
  BY <1>1 DEF Remedied
<1>3. r \in collectTraceRefs(tree)
  BY DEF StaleRefs, LiveRefs, ResolvedRefs
<1>4. /\ Repairs(T)
      /\ \A s \in collectTraceRefs(T) :
           s.citer = r.citer /\ s.bundle = r.bundle /\ s.req = r.req
             => s.version = Current(r.bundle, r.req)
  BY <1>2, <1>3, CiterFacts, RePinRepairs
<1>5. ASSUME NEW s \in StaleRefs(T), s.citer = r.citer, s.bundle = r.bundle, s.req = r.req
      PROVE  FALSE
  <2>1. s \in collectTraceRefs(T) /\ Outrun(T, s)
    BY DEF StaleRefs, LiveRefs, ResolvedRefs
  <2>2. T.bundle = tree.bundle
    BY <1>4 DEF Repairs
  <2> QED
    BY <1>4, <1>5, <2>1, <2>2, CurrentPins
<1>6. ASSUME NEW g \in ClassifyRequirementTraceability(T), Identity(g) = Identity(f) PROVE FALSE
  <2>1. g.gap = f.gap /\ g.at = f.at /\ g.bundle = r.bundle /\ g.req = r.req
    BY <1>1, <1>6 DEF Identity
  <2>2. CASE f = StaleGap(tree, r)
    <3>1. g.gap = "stale_pin" /\ g.at = r.citer
      BY <2>1, <2>2 DEF StaleGap, Gap
    <3>2. PICK s \in StaleRefs(T) : g = StaleGap(T, s)
      BY <3>1, GapTells
    <3>3. s.citer = r.citer /\ s.bundle = r.bundle /\ s.req = r.req
      BY <2>1, <3>1, <3>2 DEF StaleGap, Gap
    <3> QED
      BY <1>5, <3>3
  <2>3. CASE \E p \in LivePlans(tree) : Chained(tree, p, r) /\ f = ChainGap(p, r)
    <3>1. PICK p \in LivePlans(tree) : Chained(tree, p, r) /\ f = ChainGap(p, r)
      BY <2>3
    <3>2. g.gap = "chain_outrun" /\ g.at = p
      BY <2>1, <3>1 DEF ChainGap, Gap
    <3>3. PICK n \in LivePlans(T) : \E s \in StaleRefs(T) : Chained(T, n, s) /\ g = ChainGap(n, s)
      BY <3>2, GapTells
    <3>4. PICK s \in StaleRefs(T) : Chained(T, n, s) /\ g = ChainGap(n, s)
      BY <3>3
    <3>5. n = p /\ s.bundle = r.bundle /\ s.req = r.req
      BY <2>1, <3>2, <3>4 DEF ChainGap, Gap
    <3>6. s.citer = r.citer
      BY <1>4, <3>1, <3>4, <3>5 DEF Chained, Repairs
    <3> QED
      BY <1>5, <3>5, <3>6
  <2> QED
    BY <2>2, <2>3
<1> QED
  BY <1>4, <1>6

(* A requirement with a spec of its own is covered. *)
LEMMA FreshCloses ==
  ASSUME TypeOK, NEW b \in LiveBundles(tree), NEW q, NEW f, NEW T,
         f.bundle = b, f.req = q,
         f.gap \in {"stale_pin", "uncovered", "coverage_lapsed"},
         f.remedy \in {"new_spec", "author_spec", "restate_supports"},
         T = Remedied(f)
  PROVE  /\ Repairs(T)
         /\ \A g \in ClassifyRequirementTraceability(T) : Identity(g) # Identity(f)
<1>1. T = WithFreshSpec(b, q)
  BY DEF Remedied
<1>2. Repairs(T) /\ <<b, q>> \in coveredReqs(T)
  BY <1>1, FreshRepairs
<1>3. ASSUME NEW g \in ClassifyRequirementTraceability(T), Identity(g) = Identity(f) PROVE FALSE
  <2>1. /\ g.gap \in {"stale_pin", "uncovered", "coverage_lapsed"} /\ g.bundle = b /\ g.req = q
    BY <1>3 DEF Identity
  <2>2. CASE \E r \in StaleRefs(T) : g = StaleGap(T, r)
    <3>1. PICK r \in StaleRefs(T) : g = StaleGap(T, r)
      BY <2>2
    <3>2. r.bundle = b /\ r.req = q
      BY <2>1, <3>1 DEF StaleGap, Gap
    <3> QED
      BY <1>2, <3>2 DEF StaleRefs
  <2>3. CASE \E d \in LiveBundles(T) : \E n \in ReqIds(T.bundle[d]) :
               <<d, n>> \notin coveredReqs(T) /\ g = UncoveredGap(T, d, n)
    <3>1. PICK d \in LiveBundles(T) : \E n \in ReqIds(T.bundle[d]) :
                 <<d, n>> \notin coveredReqs(T) /\ g = UncoveredGap(T, d, n)
      BY <2>3
    <3>2. PICK n \in ReqIds(T.bundle[d]) :
                 <<d, n>> \notin coveredReqs(T) /\ g = UncoveredGap(T, d, n)
      BY <3>1
    <3>3. d = b /\ n = q
      BY <2>1, <3>2 DEF UncoveredGap, Gap
    <3> QED
      BY <1>2, <3>2, <3>3
  <2> QED
    BY <2>1, <2>2, <2>3, GapTells
<1> QED
  BY <1>2, <1>3

(* Every finding's remedy does away with it. *)
LEMMA RemedyCloses ==
  ASSUME TypeOK, NEW f \in ClassifyRequirementTraceability(tree)
  PROVE  /\ Repairs(Remedied(f))
         /\ \A g \in ClassifyRequirementTraceability(Remedied(f)) : Identity(g) # Identity(f)
<1>1. CASE \E r \in Unfinished(tree) : f = UnfinishedGap(r)
  BY <1>1, ImplementCloses
<1>2. CASE \E r \in StaleRefs(tree) : f = StaleGap(tree, r)
  <2>1. PICK r \in StaleRefs(tree) : f = StaleGap(tree, r)
    BY <1>2
  <2>2. CASE ~Delivered(tree, r.bundle)
    BY <2>1, <2>2, RePinCloses
  <2>3. CASE Delivered(tree, r.bundle)
    <3>1. /\ f.gap = "stale_pin" /\ f.remedy = "new_spec" /\ f.bundle = r.bundle /\ f.req = r.req
      BY <2>1, <2>3 DEF StaleGap, Gap
    <3>2. r.bundle \in LiveBundles(tree)
      BY DEF StaleRefs, LiveRefs, ResolvedRefs, LiveBundles
    <3> QED
      BY <3>1, <3>2, FreshCloses
  <2> QED
    BY <2>2, <2>3
<1>3. CASE \E p \in LivePlans(tree) : \E r \in StaleRefs(tree) :
             Chained(tree, p, r) /\ f = ChainGap(p, r)
  BY <1>3, RePinCloses
<1>4. CASE \E b \in LiveBundles(tree) : \E q \in ReqIds(tree.bundle[b]) :
             <<b, q>> \notin coveredReqs(tree) /\ f = UncoveredGap(tree, b, q)
  <2>1. PICK b \in LiveBundles(tree) : \E q \in ReqIds(tree.bundle[b]) :
             <<b, q>> \notin coveredReqs(tree) /\ f = UncoveredGap(tree, b, q)
    BY <1>4
  <2>2. PICK q \in ReqIds(tree.bundle[b]) : f = UncoveredGap(tree, b, q)
    BY <2>1
  <2>3. /\ f.gap \in {"stale_pin", "uncovered", "coverage_lapsed"}
        /\ f.remedy \in {"new_spec", "author_spec", "restate_supports"}
        /\ f.bundle = b /\ f.req = q
    BY <2>2 DEF UncoveredGap, Gap
  <2> QED
    BY <2>3, FreshCloses
<1> QED
  BY <1>1, <1>2, <1>3, <1>4, FindingCases

(* Each traceability finding, of any kind and in any corpus, goes away when *)
(* its remedy is done, and no new one is raised: the remedies the code       *)
(* names are the right ones.                                               *)
THEOREM RemediesWork == SpecD => []RemedyClosesGap
<1>1. TypeOK => RemedyClosesGap
  BY RemedyCloses, NothingNew DEF RemedyClosesGap
<1> QED
  BY <1>1, ProjectKeepsShape, PTL
=============================================================================
