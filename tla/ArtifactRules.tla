---------------------------- MODULE ArtifactRules ----------------------------
(***************************************************************************)
(* The artifact validators (pkg/validate) as functions of an artifact's    *)
(* frontmatter, and the resolution of `supports` references.               *)
(*                                                                         *)
(* A frontmatter is a record.  What only a pattern, an enumeration of      *)
(* labels or the presence of text decides (file name, slug, title, dates,  *)
(* categories) is abstracted to a.malformed, the set of the blocks that    *)
(* fail; what other parts of the gate read later (status, requirements,    *)
(* claims, tests, pins, version logs, close pointers, thresholds,          *)
(* contracts) is kept.  A list or a map that is not one in YAML is          *)
(* recorded by its form: "list" or "map", "absent" or "scalar".  A validator returns the set of *)
(* the rules it raises; every one has severity error.                      *)
(***************************************************************************)
EXTENDS Integers, Sequences, SequencesExt

\* No coverage_threshold key.
NoThreshold == -1

\* The rules of a table rule |-> condition whose condition holds.
Raised(table) == {r \in DOMAIN table : table[r]}

\* End-of-life states: retired work is exempt from the live-work rules.
isTerminalStatus(status) ==
  status \in {"replaced", "canceled", "deprecated", "obsoleted"}

\* `replaced` and `obsoleted` need the pointer that names the absorbing work:
\* a.pointer is "absent", "typed" or "malformed".
validateRetirementFields(a) ==
  IF a.status \in {"replaced", "obsoleted"}
  THEN Raised([pointerRequired  |-> a.pointer = "absent",
               pointerMalformed |-> a.pointer = "malformed"])
  ELSE {}

------------------------------------------------------------------------------
(* Blocks whose detail is abstracted.                                       *)

\* Title, metadata and sections the schema asks for, in every kind but a
\* directive and a plan.
Base(a) == a.malformed \cap {"title", "metadata", "section"}

\* File name, and what is compared with it once it has the right pattern.
FileIdentity(a, parts) ==
  IF "filename" \in a.malformed THEN {"filename"} ELSE a.malformed \cap parts

SchemaVersion(a) == a.malformed \cap {"schemaVersion"}

validateCapabilities(a) == a.malformed \cap {"capabilities"}

validateIssueBlock(a) == a.malformed \cap {"issueId", "issueTitle", "issueType", "issueCreated"}

validateIssueIDConsistency(a) == FileIdentity(a, {"idFilenameMismatch"})

validateComplexity(a) == a.malformed \cap {"complexity"}

validateBundleBlock(a) ==
  a.malformed \cap {"bundleName", "bundleVersion", "bundleCreated", "bundleCategory"}

validateNameFilenameConsistency(a) == FileIdentity(a, {"nameFilenameMismatch"})

validateVersionGatedUpdated(a) == a.malformed \cap {"updated"}

validateEpicBlock(a) == a.malformed \cap {"epic"}

------------------------------------------------------------------------------
(* Blocks shared by specs and issues.                                       *)

verificationLevels ==
  {"static", "build", "unit", "integration", "performance", "security"}

thresholdRules(level) ==
  CASE level \in {"unit", "security"}           -> 90
    [] level \in {"integration", "performance"} -> 80
    [] OTHER                                    -> NoThreshold

\* a.verification is "map", "absent" (no block, or null) or "scalar" (another value).
validateVerification(a) ==
  LET known == a.level \in verificationLevels
      rule  == thresholdRules(a.level)
  IN IF a.verification # "map" THEN {"verificationRequired"}
     ELSE Raised(
       [levelRequired       |-> a.level = "absent",
        levelInvalid        |-> a.level # "absent" /\ ~known,
        thresholdNotAllowed |-> known /\ rule = NoThreshold /\ a.threshold # NoThreshold,
        thresholdRequired   |-> known /\ rule # NoThreshold /\ a.threshold = NoThreshold,
        thresholdValue      |-> known /\ rule # NoThreshold
                                  /\ a.threshold \notin {NoThreshold, rule},
        testCommandRequired |-> ~a.command])

\* a.implementation likewise; a.subject: subject or package given.
validateImplementation(a) ==
  IF a.implementation # "map" THEN {"implementationRequired"}
  ELSE Raised([subjectRequired |-> ~a.subject])

\* The well-formed, first occurrences: what the validators collect as the set
\* of requirement ids that claims may refer to.  id "" stands for a missing or
\* malformed id.
ReqIds(a) == {a.reqs[i].id : i \in DOMAIN a.reqs} \ {""}

Duplicate(s, i) == s[i].id # "" /\ \E j \in 1 .. i - 1 : s[j].id = s[i].id

\* Requirements of a spec or an issue.  A supports value is a set of pins
\* (bundle, req, version); version <<>> is one the format rule rejects, and
\* supForm = "scalar" an entry with no usable value.
RequirementsForm(a) ==
  Raised([requirementsRequired |-> a.reqForm # "list",
          requirementsEmpty    |-> a.reqForm = "list" /\ a.reqs = <<>>])

validateRequirements(a) ==
  IF RequirementsForm(a) # {} THEN RequirementsForm(a)
  ELSE UNION {Raised(
         [requirementIdRequired  |-> a.reqs[i].id = "",
          requirementIdDuplicate |-> Duplicate(a.reqs, i),
          supportsFormat         |-> \/ a.reqs[i].supForm = "scalar"
                                     \/ \E p \in a.reqs[i].supports : Len(p.version) # 3])
         : i \in DOMAIN a.reqs}

\* An issue's claims are checked against the requirement ids only when there
\* is at least one valid id; a spec's always are.
RefersToUnknown(a, c) ==
  c.req # "" /\ c.req \notin ReqIds(a) /\ (a.kind = "spec" \/ ReqIds(a) # {})

\* Claims of a spec (validateClaims) or of an issue (validateIssueClaims).
validateClaims(a) ==
  IF a.claimForm # "list" THEN {"claimsRequired"}
  ELSE IF a.claims = <<>> THEN {"claimsEmpty"}
  ELSE (UNION {Raised(
         [claimIdRequired         |-> a.claims[i].id = "",
          claimIdDuplicate        |-> Duplicate(a.claims, i),
          claimRequirementMissing |-> a.claims[i].req = "",
          claimRequirementInvalid |-> RefersToUnknown(a, a.claims[i]),
          claimTestsEmpty         |-> a.claims[i].tests = {}])
         : i \in DOMAIN a.claims})
       \cup Raised([requirementUncovered |->
              \E r \in ReqIds(a) : \A i \in DOMAIN a.claims : a.claims[i].req # r])

\* An item of a contract: a name and, for `consumes`, a source; a known kind;
\* a signature unless the symbol is promised to be absent.
validateProvidesItem(p) ==
  Raised([providesNameRequired |-> ~p.named, providesKindEnum |-> ~p.kind,
          providesSignatureRequired |-> ~p.absent /\ ~p.signed])

validateConsumesItem(c) ==
  Raised([consumesNameRequired |-> ~c.named, consumesKindEnum |-> ~c.kind])

\* Contracts of a spec or an issue, one entry per file.
validateContracts(a) ==
  IF a.contractForm # "list" THEN {"contractsRequired"}
  ELSE IF a.contracts = <<>> THEN {"contractsEmpty"}
  ELSE UNION {Raised([contractFileRequired  |-> a.contracts[i].id = "",
                      contractFileDuplicate |-> Duplicate(a.contracts, i),
                      contractEmpty         |-> /\ a.contracts[i].provides = {}
                                                /\ a.contracts[i].consumes = {}])
                \cup (UNION {validateProvidesItem(p) : p \in a.contracts[i].provides})
                \cup (UNION {validateConsumesItem(c) : c \in a.contracts[i].consumes})
              : i \in DOMAIN a.contracts}

------------------------------------------------------------------------------
(* Specs.                                                                   *)

specStatuses == {"draft", "ready-for-implementation", "implemented",
                 "replaced", "canceled", "deprecated", "obsoleted"}

SpecHeader(a) ==
  UNION {Base(a), FileIdentity(a, {"slug", "number", "titleNumber"}), SchemaVersion(a),
         a.malformed \cap {"extension"},
         Raised([invalidStatus |-> a.status \notin specStatuses])}

\* A retired spec keeps its header; the rest of it is no longer checked.
Spec(a) ==
  SpecHeader(a) \cup validateRetirementFields(a)
    \cup IF isTerminalStatus(a.status) THEN {}
         ELSE UNION {validateVerification(a), validateImplementation(a), validateRequirements(a),
                     validateClaims(a), validateContracts(a), validateCapabilities(a)}

------------------------------------------------------------------------------
(* Issues.  a.delivered is "absent", "malformed" or the id of a plan;       *)
(* a.resolved is "absent", "malformed", "external" (a commit or a pull      *)
(* request), "found" or "dangling" (a typed reference).                     *)

issueStatuses == {"open", "ready", "in-progress", "blocked", "closed",
                  "replaced", "canceled", "obsoleted"}

\* The same rules under the issue's names.
validateIssueRequirements(a) == validateRequirements(a)
validateIssueClaims(a) == validateClaims(a)

traceabilityRequired == {"ready", "in-progress", "blocked", "closed"}

\* Mutation: the plan need not be completed.
DeliveredByAnyPlan(issueID, a, plan) ==
  IF a.delivered = "malformed" \/ a.delivered \notin DOMAIN plan
  THEN {"deliveredByPlanNotFound"}
  ELSE {}

\* The close pointer must name an existing, parseable and valid plan that is
\* completed and was written for this issue.
validateDeliveredBy(issueID, a, plan) ==
  IF a.delivered = "malformed" \/ a.delivered \notin DOMAIN plan
  THEN {"deliveredByPlanNotFound"}
  ELSE LET p == plan[a.delivered]
       IN IF ~p.parses \/ ~p.valid     THEN {"deliveredByPlanInvalid"}
          ELSE IF p.status # "completed" THEN {"deliveredByPlanNotCompleted"}
          ELSE IF p.source # issueID     THEN {"deliveredBySpecMismatch"}
          ELSE {}

validateResolvedBy(a) ==
  Raised([resolvedByMalformed |-> a.resolved = "malformed",
          resolvedByNotFound  |-> a.resolved = "dangling"])

\* A closed issue is held to its close pointer; without one, and at every
\* other working status, to the live-work rules.
validateIssueTraceability(issueID, a, plan) ==
  LET noResolution == Raised([resolutionRequired |-> ~a.resolution])
  IN IF isTerminalStatus(a.status) \/ a.status \notin traceabilityRequired THEN {}
     ELSE IF a.status = "closed" /\ a.delivered # "absent" /\ a.resolved # "absent"
          THEN {"closePointerConflict"}
     ELSE IF a.status = "closed" /\ a.delivered # "absent"
          THEN validateDeliveredBy(issueID, a, plan) \cup noResolution
     ELSE IF a.status = "closed" /\ a.resolved # "absent"
          THEN validateResolvedBy(a) \cup noResolution
     ELSE UNION {validateVerification(a), validateImplementation(a),
                 validateIssueRequirements(a), validateIssueClaims(a), validateContracts(a)}

\* a.dated: a closed issue carries its date, a blocked one its blockers.
validateIssueStatusRules(a) ==
  Raised([statusDetailRequired |-> a.status \in {"blocked", "closed"} /\ ~a.dated])

\* A status outside the enumeration counts as none for the rules that follow.
Issue(issueID, a, plan) ==
  (UNION {Base(a), SchemaVersion(a), validateIssueBlock(a), validateIssueIDConsistency(a),
          validateRetirementFields(a), validateComplexity(a), validateCapabilities(a)})
    \cup IF a.status \in issueStatuses
         THEN validateIssueStatusRules(a) \cup validateIssueTraceability(issueID, a, plan)
         ELSE {"statusEnum"}

------------------------------------------------------------------------------
(* Bundles.  A version is <<major, minor, patch>>; <<>> is not a semver.    *)

maturityLevels == {"idea", "exploring", "defined", "ready",
                   "delivered", "replaced", "canceled", "deprecated"}

\* < 0, 0 or > 0; component by component.
compareSemver(a, b) ==
  IF Len(a) # 3 \/ Len(b) # 3 THEN 0
  ELSE IF a[1] # b[1] THEN a[1] - b[1]
  ELSE IF a[2] # b[2] THEN a[2] - b[2]
  ELSE a[3] - b[3]

\* The first entry that no later one exceeds, as the scan keeps it.
Newest(log) ==
  CHOOSE v \in ToSet(log) : \A w \in ToSet(log) : compareSemver(w, v) <= 0

\* Mutation: the format is checked, the order of the log is not.
ReqVersionLogUnordered(r) == Raised([versionFormat |-> Len(r.version) # 3])

\* r.log = <<>> with r.logged = FALSE: no versions key.
validateReqVersionLog(r) ==
  LET ok(v)      == Len(v) = 3
      dup        == \E i, j \in DOMAIN r.log : i # j /\ r.log[i] = r.log[j]
      wellFormed == (\A v \in ToSet(r.log) : ok(v)) /\ ~dup
  IN Raised([versionFormat |-> ~ok(r.version)])
       \cup IF ~r.logged THEN {}
            ELSE IF r.log = <<>> THEN {"versionsEmpty"}
            ELSE Raised(
              [entryFormat   |-> \E v \in ToSet(r.log) : ~ok(v),
               duplicate     |-> dup,
               nonmonotonic  |-> \E i \in 2 .. Len(r.log) :
                                   /\ ok(r.log[i - 1]) /\ ok(r.log[i])
                                   /\ compareSemver(r.log[i], r.log[i - 1]) <= 0,
               notNewest     |-> wellFormed /\ r.version # Newest(r.log)])

\* Requirements must exist from `defined` on; ids are unique.
validateBundleRequirements(b) ==
  IF b.reqs = <<>>
  THEN Raised([requirementsRequired |-> b.status \in {"defined", "ready", "delivered"}])
  ELSE UNION {Raised([requirementIdRequired  |-> b.reqs[i].id = "",
                      requirementIdDuplicate |-> Duplicate(b.reqs, i)])
                \cup validateReqVersionLog(b.reqs[i]) : i \in DOMAIN b.reqs}

\* b.filled: the paths and sections its maturity asks for are there.
validateMaturityGates(b) ==
  Raised([maturityGate |-> b.status \in {"defined", "ready"} /\ ~b.filled])

validatePlaceholderBan(b) ==
  IF b.status \in {"defined", "ready"} THEN b.malformed \cap {"placeholder"} ELSE {}

validateStatusBlock(b) == Raised([maturityEnum |-> b.status \notin maturityLevels])

Bundle(b) ==
  (UNION {Base(b), SchemaVersion(b), validateBundleBlock(b), validateStatusBlock(b),
          validateRetirementFields(b), validateNameFilenameConsistency(b),
          validateVersionGatedUpdated(b)})
    \cup IF isTerminalStatus(b.status) THEN {}
         ELSE UNION {validateMaturityGates(b), validateEpicBlock(b), validatePlaceholderBan(b),
                     validateBundleRequirements(b)}

------------------------------------------------------------------------------
(* Decision records and directives: nothing else reads them.                *)

ADR(a) ==
  UNION {Base(a), FileIdentity(a, {"slug", "number", "titleNumber"}), SchemaVersion(a),
         a.malformed \cap {"extension", "status"}}

directiveStatuses == {"queued", "active", "specced", "done", "replaced", "canceled"}

Directive(a) ==
  IF "block" \in a.malformed THEN {"directiveRequired"}
  ELSE (a.malformed \cap {"source"}) \cup validateRetirementFields(a)
         \cup Raised([invalidStatus |-> a.status \notin directiveStatuses])

------------------------------------------------------------------------------
(* Resolution of supports references against the bundles of the corpus.     *)

effectiveVersionSet(r) ==
  IF r.logged /\ r.log # <<>> THEN ToSet(r.log) ELSE {r.version}

\* The catalog: bundle -> requirement -> versions; a bundle without named
\* requirements is not in it.
BuildBundleReqCatalog(bundle) ==
  [b \in {x \in DOMAIN bundle : bundle[x].parses /\ ReqIds(bundle[x]) # {}} |->
     [r \in ReqIds(bundle[b]) |->
        effectiveVersionSet((CHOOSE e \in ToSet(bundle[b].reqs) : e.id = r))]]

\* The references of the live citers; a retired citer contributes none.
CollectSupportRefs(citer) ==
  UNION {UNION {{[bundle |-> p.bundle, req |-> p.req, version |-> p.version, citer |-> c] :
                   p \in citer[c].reqs[i].supports}
                : i \in DOMAIN citer[c].reqs}
         : c \in {x \in DOMAIN citer : /\ citer[x].parses
                                       /\ ~isTerminalStatus(citer[x].status)
                                       /\ citer[x].reqForm = "list"}}

ResolveSupports(catalog, refs) ==
  {[rule |-> IF r.bundle \notin DOMAIN catalog THEN "missingBundle"
             ELSE IF r.req \notin DOMAIN catalog[r.bundle] THEN "undeclaredReq"
             ELSE "versionUnlogged",
    file |-> r.citer]
   : r \in {x \in refs : \/ x.bundle \notin DOMAIN catalog
                         \/ x.req \notin DOMAIN catalog[x.bundle]
                         \/ x.version \notin catalog[x.bundle][x.req]}}
==============================================================================
