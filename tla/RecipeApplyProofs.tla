-------------------------- MODULE RecipeApplyProofs --------------------------
(***************************************************************************)
(* What an apply replaces, for any recipes, files, failures and bounds: a  *)
(* success reports it all, and an edit is replaced only when nothing       *)
(* accounts for it.                                                        *)
(*                                                                         *)
(* Both need to know, between the operations, what has become of each file *)
(* that was there when the apply started (Ledger): it still holds the      *)
(* consumer's work, or this run wrote it, and then it was judged before    *)
(* the first write and is listed as regenerated.                           *)
(*                                                                         *)
(* That applying again changes nothing compares two runs of one list of    *)
(* operations.  A file made anew has one history from its first create on, *)
(* in both runs (Trace); one that stays bears the marks of the operations  *)
(* already (Mark), and repeating them changes nothing.                     *)
(***************************************************************************)
EXTENDS RecipeApply, WellFoundedInduction, TLAPS

(* The file still has the text and the edit it had. *)
SameWork(p) ==
  files[p].text = before[p].text /\ files[p].edited = before[p].edited

(* A merge that encodes the document without its comments. *)
Strips(op) == op.kind = "merge" /\ op.format = "yaml"

(* A merge of this run may have removed the file's tokens. *)
Stripped(p) ==
  \E i \in 1..(run.next - 1) :
    Strips(Ops[run.ref][i]) /\ Ops[run.ref][i].target = p

(* The file was on record, and diverged with nothing to account for it. *)
Unaccounted(p) ==
  /\ run.adopted /\ KindOfRun # "templating"
  /\ ~Covered(before[p], Enforcement[run.ref])
  /\ ~HasMalformed(before[p], Enforcement[run.ref])

TornAtEnd(p) == pc = "idle" /\ result.status = "failed" /\ files[p].text = Torn

(* Recipes create a file before they merge into it, where that removes      *)
(* comments.                                                               *)
CreatesFirst ==
  \A ref \in Refs : \A i, j \in DOMAIN Ops[ref] :
    i < j /\ Strips(Ops[ref][i]) /\ Ops[ref][j].kind = "create" =>
      Ops[ref][i].target # Ops[ref][j].target

Ledger ==
  \A p \in Paths : before[p] # None =>
    /\ files[p] # None
    /\ p \in run.writtenNow \/ SameWork(p) \/ TornAtEnd(p)
    /\ p \in run.writtenNow => p \in run.regenerated

(* The same, with the reasons. *)
Judged ==
  \A p \in Paths : before[p] # None =>
    /\ p \in run.writtenNow => Unaccounted(p)
    /\ pc = "ops" /\ p \notin run.writtenNow =>
         files[p].tokens = before[p].tokens \/ Stripped(p)

Untouched == pc = "idle" /\ before = files /\ result.status = "failed"

Reported == result.status = "ok" => pc = "idle" /\ result.regenerated = run.regenerated

LedgerInv == TypeOK /\ Reported /\ (Untouched \/ Ledger)

-----------------------------------------------------------------------------
(* The operation at hand is one of the recipe's. *)
LEMMA OpType ==
  TypeOK /\ run.next <= Len(Ops[run.ref]) => Op \in Operations /\ run.next \in DOMAIN Ops[run.ref]
BY RecipeApplyAssumption DEF TypeOK, Runs, Refs, Op

(* A rendered payload is a document without edits. *)
LEMMA RenderedType ==
  ASSUME NEW op \in Operations
  PROVE  Rendered(op) \in Docs /\ [Rendered(op) EXCEPT !.text = Torn] \in Docs
<1>1. [k \in Keys |-> None] \in Settings
  BY DEF Settings
<1>2. << >> \in Seq(Pieces)
  OBVIOUS
<1>3. op.payload \in Texts
  BY DEF Operations
<1>4. Rendered(op) \in Docs
  BY <1>1, <1>2, <1>3 DEF Rendered, Docs
<1> QED
  BY <1>4 DEF Docs

(* Merge, insert and transform leave the text and the edits of a file. *)
LEMMA EditedType ==
  ASSUME NEW op \in Operations, NEW doc \in Docs, op.kind \in {"merge", "insert", "transform"}
  PROVE  /\ Edited(doc, op) \in Docs
         /\ Edited(doc, op).text = doc.text
         /\ Edited(doc, op).edited = doc.edited
         /\ ~Strips(op) => Edited(doc, op).tokens = doc.tokens
<1>1. CASE op.kind = "merge"
  <2>1. DeepMerge(doc.settings, op.fragment) \in Settings
    BY DEF Operations, Docs, Settings, DeepMerge
  <2>2. Edited(doc, op) = MergeDocuments(doc, op)
    BY <1>1 DEF Edited
  <2> QED
    BY <1>1, <2>1, <2>2 DEF MergeDocuments, Docs, Strips
<1>2. CASE op.kind = "insert"
  <2>1. <<op.piece>> \o doc.spliced \in Seq(Pieces)
    BY DEF Operations, Docs
  <2> QED
    BY <1>2, <2>1 DEF Edited, Docs
<1>3. CASE op.kind = "transform"
  BY <1>3 DEF Edited, Docs, Operations
<1> QED
  BY <1>1, <1>2, <1>3

(* What a create remembers keeps its shape. *)
LEMMA MemoryType ==
  ASSUME TypeOK, NEW op \in Operations, op.target # None, NEW over \in BOOLEAN
  PROVE  Wrote(op, over) \in Runs /\ Keep(op) \in Runs /\ WroteInto(op) \in Runs
<1>1. run \in Runs /\ op.target \in Paths
  BY DEF TypeOK, Operations
<1>2. Wrote(op, over) \in Runs /\ WroteInto(op) \in Runs
  BY <1>1 DEF Wrote, WroteInto, Runs
<1>3. Keep(op) \in Runs
  BY <1>1 DEF Keep, Runs
<1> QED
  BY <1>2, <1>3

(* Moving on to the next operation keeps the shape of the memory. *)
LEMMA AdvanceType ==
  ASSUME NEW update \in Runs, Advance(update)
  PROVE  /\ run' \in Runs
         /\ run' = [update EXCEPT !.next = update.next + 1]
BY DEF Advance, Runs

-----------------------------------------------------------------------------
(* Every step keeps the shapes of the state. *)
LEMMA TypeStep == TypeOK /\ [Next]_vars => TypeOK'
<1> SUFFICES ASSUME TypeOK, [Next]_vars PROVE TypeOK'
  OBVIOUS
<1> USE RecipeApplyAssumption
<1>0. /\ Failed \in [status : {"ok", "failed"}, written : SUBSET Paths,
                     preserved : SUBSET Paths, regenerated : SUBSET Paths]
      /\ Nothing \in [Recipes -> Versions \union {None}]
  BY DEF Failed, Nothing
<1>1. CASE Create
  <2>1. Op \in Operations /\ Op.target \in Paths /\ Op.target # None
    BY <1>1, OpType DEF Create, Operations
  <2>2. files' \in [Paths -> Docs \union {None}]
    <3>1. Rendered(Op) \in Docs
      BY <2>1, RenderedType
    <3>2. CASE WriteRendered(Op)
      BY <2>1, <3>1, <3>2 DEF WriteRendered, Write, TypeOK
    <3> QED
      BY <1>1, <3>2 DEF Create, TypeOK
  <2>3. run' \in Runs
    <3>1. ASSUME Advance(Wrote(Op, Present(Op))) PROVE run' \in Runs
      <4>1. Present(Op) \in BOOLEAN
        BY DEF Present
      <4>2. Wrote(Op, Present(Op)) \in Runs
        BY <2>1, <4>1, MemoryType
      <4> QED
        BY <3>1, <4>2, AdvanceType
    <3>2. ASSUME Advance(Keep(Op)) PROVE run' \in Runs
      <4>1. Keep(Op) \in Runs
        BY <2>1, MemoryType
      <4> QED
        BY <3>2, <4>1, AdvanceType
    <3> QED
      BY <1>1, <3>1, <3>2 DEF Create
  <2> QED
    BY <1>1, <2>2, <2>3 DEF Create, TypeOK, history
<1>2. CASE Modify
  <2>1. Op \in Operations /\ Op.target \in Paths /\ Op.target # None /\ files[Op.target] \in Docs
    BY <1>2, OpType DEF Modify, Reachable, Operations, TypeOK
  <2>2. Edited(files[Op.target], Op) \in Docs
    BY <1>2, <2>1, EditedType DEF Modify
  <2>3. WroteInto(Op) \in Runs
    BY <2>1, MemoryType
  <2>4. run' \in Runs
    BY <1>2, <2>3, AdvanceType DEF Modify
  <2> QED
    BY <1>2, <2>1, <2>2, <2>4 DEF Modify, Write, TypeOK, history
<1>3. CASE SkipStep
  <2>1. run' \in Runs
    BY <1>3, AdvanceType DEF SkipStep, TypeOK
  <2> QED
    BY <1>3, <2>1 DEF SkipStep, TypeOK, history
<1>4. CASE OpFails
  BY <1>0, <1>4 DEF OpFails, Fail, TypeOK
<1>5. CASE RecordAdoption
  <2>1. run \in Runs /\ record \in [Recipes -> Versions \union {None}]
    BY <1>5 DEF RecordAdoption, TypeOK
  <2>2. record' \in [Recipes -> Versions \union {None}]
    BY <1>5, <2>1 DEF RecordAdoption, Adopt, Runs, Refs
  <2> QED
    BY <1>5, <2>2 DEF RecordAdoption, TypeOK, history
<1>6. CASE RecordRecipeAdoption
  <2>1. run \in Runs
    BY DEF TypeOK
  <2>2. result' \in [status : {"ok", "failed"}, written : SUBSET Paths,
                     preserved : SUBSET Paths, regenerated : SUBSET Paths]
    BY <1>6, <2>1 DEF RecordRecipeAdoption, Runs
  <2>3. record' \in [Recipes -> Versions \union {None}] \union {None}
    <3>1. record \in [Recipes -> Versions \union {None}]
      BY <1>6 DEF RecordRecipeAdoption, TypeOK
    <3> QED
      BY <1>6, <2>1, <3>1 DEF RecordRecipeAdoption, Adopt, Runs, Refs
  <2> QED
    BY <1>6, <2>1, <2>2, <2>3 DEF RecordRecipeAdoption, TypeOK, Runs
<1>7. ASSUME NEW r \in Recipes, NEW v \in Versions, Begin(r, v) PROVE TypeOK'
  <2>1. NewRun(r, v) \in Runs
    BY DEF NewRun, Runs, Refs
  <2> QED
    BY <1>0, <1>7, <2>1 DEF Begin, TypeOK
<1>8. CASE OpErrs
  BY <1>0, <1>8 DEF OpErrs, Disturb, Fail, TypeOK
<1>9. CASE WriteTorn
  <2>1. files' \in [Paths -> Docs \union {None}]
    <3>1. CASE UNCHANGED files
      BY <3>1 DEF TypeOK
    <3>2. CASE run.next <= Len(Ops[run.ref]) /\ Op.target # None
               /\ Write(Op.target, [Rendered(Op) EXCEPT !.text = Torn])
      BY <3>2, OpType, RenderedType DEF Write, TypeOK
    <3> QED
      BY <1>9, <3>1, <3>2 DEF WriteTorn, Reachable
  <2>2. record' \in [Recipes -> Versions \union {None}] \union {None}
    BY <1>0, <1>9 DEF WriteTorn, TypeOK
  <2> QED
    BY <1>0, <1>9, <2>1, <2>2 DEF WriteTorn, Disturb, Fail, TypeOK
<1>10. CASE Crash
  BY <1>0, <1>10 DEF Crash, Disturb, Fail, TypeOK
<1>11. CASE DeleteRecord
  BY <1>0, <1>11 DEF DeleteRecord, TypeOK, history
<1>12. ASSUME NEW p \in Paths, NEW doc \in Docs \union {None}, Between(p, doc)
       PROVE  TypeOK'
  BY <1>0, <1>12 DEF Between, Write, TypeOK
<1>13. ASSUME NEW p \in Paths, DeleteFile(p) PROVE TypeOK'
  BY <1>12, <1>13 DEF DeleteFile, TypeOK
<1>14. ASSUME NEW p \in Paths, AddFile(p) PROVE TypeOK'
  <2>1. OwnDoc \in Docs
    <3>1. [k \in Keys |-> None] \in Settings
      BY DEF Settings
    <3>2. << >> \in Seq(Pieces)
      OBVIOUS
    <3> QED
      BY <3>1, <3>2 DEF OwnDoc, Docs
  <2> QED
    BY <1>12, <1>14, <2>1 DEF AddFile, TypeOK
<1>15. ASSUME NEW p \in Paths, NEW tokens \in SUBSET (Tokens \union {Malformed}),
              EditFile(p, tokens)
       PROVE  TypeOK'
  <2>1. [files[p] EXCEPT !.edited = TRUE, !.tokens = tokens] \in Docs
    <3>1. files[p] \in Docs
      BY <1>15 DEF EditFile, TypeOK
    <3> QED
      BY <3>1 DEF Docs
  <2> QED
    BY <1>12, <1>15, <2>1 DEF EditFile
<1>16. CASE UNCHANGED vars
  BY <1>16 DEF vars, TypeOK
<1> QED
  BY <1>1, <1>2, <1>3, <1>4, <1>5, <1>6, <1>7, <1>8, <1>9, <1>10, <1>11, <1>13, <1>14,
     <1>15, <1>16 DEF Next, Step

(* What a create leaves: it writes the payload and remembers that, or keeps *)
(* the file and the lists of what was written.                             *)
LEMMA CreateEffect ==
  ASSUME TypeOK, Create
  PROVE  /\ Op \in Operations /\ Op.target \in Paths /\ run.next \in DOMAIN Ops[run.ref]
         /\ pc = "ops" /\ UNCHANGED <<pc, result, before>>
         /\ run'.ref = run.ref /\ run'.adopted = run.adopted /\ run'.next = run.next + 1
         /\ \/ /\ ~Present(Op) \/ Regenerates(Op)
               /\ files' = [files EXCEPT ![Op.target] = Rendered(Op)]
               /\ run'.writtenNow = run.writtenNow \union {Op.target}
               /\ run'.regenerated = IF Present(Op) THEN run.regenerated \union {Op.target}
                                                    ELSE run.regenerated
               /\ run'.preserved = run.preserved
            \/ /\ files' = files
               /\ run'.writtenNow = run.writtenNow /\ run'.regenerated = run.regenerated
               /\ Present(Op) /\ run.preserved \subseteq run'.preserved
               /\ Unchanged(files[Op.target], Op) \/ Op.target \in run'.preserved
<1>1. Op \in Operations /\ Op.target \in Paths /\ Op.target # None /\ run.next \in DOMAIN Ops[run.ref]
  BY OpType DEF Create, Operations
<1>2. run \in Runs
  BY DEF TypeOK
<1>3. CASE Advance(Wrote(Op, Present(Op))) /\ WriteRendered(Op) /\ (~Present(Op) \/ Regenerates(Op))
  <2>1. Wrote(Op, Present(Op)) \in Runs
    BY <1>1, MemoryType DEF Present
  <2>2. run' = [Wrote(Op, Present(Op)) EXCEPT !.next = Wrote(Op, Present(Op)).next + 1]
    BY <1>3, <2>1, AdvanceType
  <2> QED
    BY <1>1, <1>2, <1>3, <2>2 DEF Create, Wrote, WriteRendered, Write, Runs, history
<1>4. CASE Advance(Keep(Op)) /\ UNCHANGED files /\ Present(Op)
  <2>1. Keep(Op) \in Runs
    BY <1>1, MemoryType
  <2>2. run' = [Keep(Op) EXCEPT !.next = Keep(Op).next + 1]
    BY <1>4, <2>1, AdvanceType
  <2> QED
    BY <1>1, <1>2, <1>4, <2>2 DEF Create, Keep, Runs, history
<1> QED
  BY <1>3, <1>4 DEF Create

(* What merge, insert and transform leave. *)
LEMMA ModifyEffect ==
  ASSUME TypeOK, Modify
  PROVE  /\ Op \in Operations /\ Op.target \in Paths /\ run.next \in DOMAIN Ops[run.ref]
         /\ pc = "ops" /\ UNCHANGED <<pc, result, before>>
         /\ run'.ref = run.ref /\ run'.adopted = run.adopted /\ run'.next = run.next + 1
         /\ run'.writtenNow = run.writtenNow /\ run'.regenerated = run.regenerated
         /\ run'.preserved = run.preserved /\ Op.kind # "create" /\ files[Op.target] # None
         /\ files' = [files EXCEPT ![Op.target] = Edited(files[Op.target], Op)]
         /\ Edited(files[Op.target], Op) \in Docs
         /\ Edited(files[Op.target], Op).text = files[Op.target].text
         /\ Edited(files[Op.target], Op).edited = files[Op.target].edited
         /\ ~Strips(Op) =>
              Edited(files[Op.target], Op).tokens = files[Op.target].tokens
<1>1. /\ Op \in Operations /\ Op.target \in Paths /\ Op.target # None
      /\ files[Op.target] \in Docs /\ run.next \in DOMAIN Ops[run.ref]
  BY OpType DEF Modify, Reachable, Operations, TypeOK
<1>2. run \in Runs
  BY DEF TypeOK
<1>3. WroteInto(Op) \in Runs
  BY <1>1, MemoryType
<1>4. run' = [WroteInto(Op) EXCEPT !.next = WroteInto(Op).next + 1]
  BY <1>3, AdvanceType DEF Modify
<1>5. /\ run'.ref = run.ref /\ run'.adopted = run.adopted /\ run'.next = run.next + 1
      /\ run'.writtenNow = run.writtenNow /\ run'.regenerated = run.regenerated
      /\ run'.preserved = run.preserved
  BY <1>2, <1>4 DEF WroteInto, Runs
<1>6. Op.kind \in {"merge", "insert", "transform"}
  BY DEF Modify
<1> QED
  BY <1>1, <1>5, <1>6, EditedType DEF Modify, Reachable, Write, history

(* An apply that fails leaves its memory, and what is in the files. *)
LEMMA FailEffect ==
  ASSUME Fail
  PROVE  pc' = "idle" /\ result'.status = "failed" /\ UNCHANGED <<run, before>>
BY DEF Fail, Failed

-----------------------------------------------------------------------------
(* The ledger stays correct: a file that was there is only written after    *)
(* it was judged diverged, which lists it, or after this run wrote it.     *)
LEMMA LedgerStep == LedgerInv /\ [Next]_vars => LedgerInv'
<1> SUFFICES ASSUME LedgerInv, [Next]_vars PROVE Reported' /\ (Untouched \/ Ledger)'
  BY TypeStep DEF LedgerInv
<1> USE RecipeApplyAssumption
<1>0. TypeOK /\ Reported /\ (Untouched \/ Ledger) /\ TypeOK'
  BY TypeStep DEF LedgerInv
<1>1. CASE Create
  <2>1. Ledger /\ result.status # "ok"
    BY <1>0, <1>1, CreateEffect DEF Untouched, Reported
  <2>2. Reported'
    BY <2>1, <1>0, <1>1, CreateEffect DEF Reported
  <2>3. ASSUME NEW p \in Paths, before[p] # None
        PROVE  /\ files'[p] # None
               /\ p \in run'.writtenNow \/ SameWork(p)' \/ TornAtEnd(p)'
               /\ p \in run'.writtenNow => p \in run'.regenerated
    <3>1. /\ files[p] # None /\ (p \in run.writtenNow \/ SameWork(p))
          /\ (p \in run.writtenNow => p \in run.regenerated)
      BY <2>1, <2>3, <1>0, <1>1, CreateEffect DEF Ledger, TornAtEnd
    <3>2. CASE files' = files /\ run'.writtenNow = run.writtenNow /\ run'.regenerated = run.regenerated
      BY <1>0, <1>1, <3>1, <3>2, CreateEffect DEF SameWork
    <3>3. CASE /\ files' = [files EXCEPT ![Op.target] = Rendered(Op)]
               /\ run'.writtenNow = run.writtenNow \union {Op.target}
               /\ run'.regenerated = IF Present(Op) THEN run.regenerated \union {Op.target}
                                                    ELSE run.regenerated
      <4>1. Op \in Operations /\ Op.target \in Paths /\ Rendered(Op) # None /\ before' = before
        BY <1>0, <1>1, CreateEffect, RenderedType
      <4>2. CASE p = Op.target
        BY <1>0, <3>1, <3>3, <4>1, <4>2 DEF Present, TypeOK
      <4>3. CASE p # Op.target
        BY <1>0, <3>1, <3>3, <4>1, <4>3 DEF SameWork, TypeOK
      <4> QED
        BY <4>2, <4>3
    <3> QED
      BY <1>0, <1>1, <3>2, <3>3, CreateEffect
  <2>4. before' = before
    BY <1>0, <1>1, CreateEffect
  <2> QED
    BY <2>2, <2>3, <2>4 DEF Ledger
<1>2. CASE Modify
  <2>1. Ledger /\ result.status # "ok"
    BY <1>0, <1>2, ModifyEffect DEF Untouched, Reported
  <2>2. Reported' /\ before' = before
    BY <2>1, <1>0, <1>2, ModifyEffect DEF Reported
  <2>3. ASSUME NEW p \in Paths, before[p] # None
        PROVE  /\ files'[p] # None
               /\ p \in run'.writtenNow \/ SameWork(p)' \/ TornAtEnd(p)'
               /\ p \in run'.writtenNow => p \in run'.regenerated
    <3>1. /\ files[p] # None /\ (p \in run.writtenNow \/ SameWork(p))
          /\ (p \in run.writtenNow => p \in run.regenerated)
      BY <2>1, <2>3, <1>0, <1>2, ModifyEffect DEF Ledger, TornAtEnd
    <3>2. /\ files'[p] # None
          /\ files'[p].text = files[p].text /\ files'[p].edited = files[p].edited
      <4>1. /\ files' = [files EXCEPT ![Op.target] = Edited(files[Op.target], Op)]
            /\ Edited(files[Op.target], Op) # None
            /\ Edited(files[Op.target], Op).text = files[Op.target].text
            /\ Edited(files[Op.target], Op).edited = files[Op.target].edited
        BY <1>0, <1>2, ModifyEffect
      <4>2. CASE p = Op.target
        BY <1>0, <4>1, <4>2 DEF TypeOK
      <4>3. CASE p # Op.target
        BY <1>0, <3>1, <4>1, <4>3 DEF TypeOK
      <4> QED
        BY <4>2, <4>3
    <3> QED
      BY <1>0, <1>2, <2>2, <3>1, <3>2, ModifyEffect DEF SameWork
  <2> QED
    BY <2>2, <2>3 DEF Ledger
<1>3. CASE SkipStep
  <2>1. run' = [run EXCEPT !.next = run.next + 1] /\ run \in Runs
    BY <1>0, <1>3, AdvanceType DEF SkipStep, TypeOK
  <2>2. run'.writtenNow = run.writtenNow /\ run'.regenerated = run.regenerated
    BY <2>1 DEF Runs
  <2> QED
    BY <1>0, <1>3, <2>2
       DEF SkipStep, history, Untouched, Reported, Ledger, SameWork, TornAtEnd
<1>4. CASE pc # "idle" /\ Fail /\ UNCHANGED files
  BY <1>0, <1>4, FailEffect DEF Reported, Untouched, Ledger, SameWork, TornAtEnd
<1>5. CASE RecordAdoption
  BY <1>0, <1>5 DEF RecordAdoption, history, Untouched, Reported, Ledger, SameWork, TornAtEnd
<1>6. CASE RecordRecipeAdoption
  BY <1>0, <1>6 DEF RecordRecipeAdoption, Untouched, Reported, Ledger, SameWork, TornAtEnd
<1>7. ASSUME NEW r \in Recipes, NEW v \in Versions, Begin(r, v)
      PROVE  Reported' /\ (Untouched \/ Ledger)'
  <2>1. run'.writtenNow = {} /\ before' = files /\ files' = files /\ result'.status = "failed"
    BY <1>7 DEF Begin, NewRun, Failed
  <2> QED
    BY <2>1 DEF Reported, Ledger, SameWork
<1>8. CASE WriteTorn /\ ~UNCHANGED files
  <2>1. /\ pc = "ops" /\ Fail /\ Op.target \in Paths /\ Op \in Operations
        /\ files' = [files EXCEPT ![Op.target] = [Rendered(Op) EXCEPT !.text = Torn]]
    BY <1>0, <1>8, OpType DEF WriteTorn, Write, Reachable, Operations
  <2>2. [Rendered(Op) EXCEPT !.text = Torn].text = Torn
    BY DEF Rendered
  <2>3. [Rendered(Op) EXCEPT !.text = Torn] # None
    BY <2>1, RenderedType
  <2>4. Ledger
    BY <1>0, <2>1 DEF Untouched
  <2>5. pc' = "idle" /\ result'.status = "failed" /\ run' = run /\ before' = before
    BY <2>1, FailEffect
  <2>6. ASSUME NEW p \in Paths, before[p] # None
        PROVE  /\ files'[p] # None
               /\ p \in run.writtenNow \/ SameWork(p)' \/ TornAtEnd(p)'
               /\ p \in run.writtenNow => p \in run.regenerated
    <3>1. /\ files[p] # None /\ (p \in run.writtenNow \/ SameWork(p))
          /\ (p \in run.writtenNow => p \in run.regenerated)
      BY <2>1, <2>4, <2>6 DEF Ledger, TornAtEnd
    <3>2. CASE p = Op.target
      BY <1>0, <2>1, <2>2, <2>3, <2>5, <3>1, <3>2 DEF TornAtEnd, TypeOK
    <3>3. CASE p # Op.target
      BY <1>0, <2>1, <2>5, <3>1, <3>3 DEF SameWork, TypeOK
    <3> QED
      BY <3>2, <3>3
  <2> QED
    BY <2>5, <2>6 DEF Reported, Ledger
<1>9. CASE DeleteRecord
  BY <1>0, <1>9 DEF DeleteRecord, history, Untouched, Reported, Ledger, SameWork, TornAtEnd
<1>10. ASSUME NEW p \in Paths, NEW doc, Between(p, doc) PROVE Reported' /\ Untouched'
  BY <1>10 DEF Between, Untouched, Reported, Failed
<1>11. CASE UNCHANGED vars
  BY <1>0, <1>11 DEF vars, Untouched, Reported, Ledger, SameWork, TornAtEnd
<1>12. CASE OpFails \/ OpErrs \/ Crash \/ (WriteTorn /\ UNCHANGED files)
  BY <1>4, <1>12 DEF OpFails, OpErrs, Crash, WriteTorn
<1>13. CASE \E p \in Paths :
              \/ DeleteFile(p) \/ AddFile(p)
              \/ \E tokens \in SUBSET (Tokens \union {Malformed}) : EditFile(p, tokens)
  BY <1>10, <1>13 DEF DeleteFile, AddFile, EditFile
<1> QED
  BY <1>1, <1>2, <1>3, <1>5, <1>6, <1>7, <1>8, <1>9, <1>11, <1>12, <1>13 DEF Next, Step

(* The first state has the shapes, and nothing has been touched. *)
LEMMA InitHolds == Init => LedgerInv
<1> SUFFICES ASSUME Init PROVE LedgerInv
  OBVIOUS
<1>1. run \in Runs
  <2>1. PICK ref \in Refs :
          run = [ref |-> ref, next |-> 1, adopted |-> FALSE, writtenNow |-> {},
                 materialized |-> FALSE, written |-> {}, preserved |-> {},
                 regenerated |-> {}, again |-> FALSE]
    BY DEF Init
  <2> QED
    BY <2>1 DEF Runs
<1>2. files \in [Paths -> Docs \union {None}] /\ Nothing \in [Recipes -> Versions \union {None}]
  BY RecipeApplyAssumption DEF Init, Nothing
<1>3. TypeOK
  BY <1>1, <1>2 DEF Init, TypeOK, Failed
<1> QED
  BY <1>3 DEF Init, LedgerInv, Reported, Untouched, Failed

(* A success has reported every file of the consumer's it replaced: the     *)
(* Regenerated list of ApplyResult is complete, for all recipes, projects  *)
(* and failures before it.                                                 *)
THEOREM ReportsClobbers == Spec => []ClobberIsReported
<1>1. LedgerInv => ClobberIsReported
  BY DEF LedgerInv, Reported, Untouched, Ledger, ClobberIsReported, Touched, Kept, SameWork,
         TornAtEnd
<1> QED
  BY <1>1, InitHolds, LedgerStep, PTL DEF Spec

-----------------------------------------------------------------------------
(* Tokens decide what covers a file, and nothing else of it. *)
LEMMA SameTokens ==
  ASSUME NEW d, NEW e, d.tokens = e.tokens, NEW rules
  PROVE  Covered(d, rules) = Covered(e, rules) /\ HasMalformed(d, rules) = HasMalformed(e, rules)
BY DEF Covered, HasMalformed

(* Once a merge of the run has passed, it has passed. *)
LEMMA StrippedStays ==
  ASSUME TypeOK, run'.ref = run.ref, run'.next = run.next + 1, NEW p
  PROVE  /\ Stripped(p) => Stripped(p)'
         /\ Strips(Op) /\ Op.target = p => Stripped(p)'
<1>1. run.next \in Nat \ {0}
  BY DEF TypeOK, Runs
<1>2. 1..(run.next - 1) \subseteq 1..(run'.next - 1) /\ run.next \in 1..(run'.next - 1)
  BY <1>1
<1> QED
  BY <1>2 DEF Stripped, Op

(* Every file this run wrote over was judged by the tokens it had when the  *)
(* run started.                                                            *)
LEMMA JudgedStep ==
  CreatesFirst /\ LedgerInv /\ (Untouched \/ Judged) /\ [Next]_vars => (Untouched \/ Judged)'
<1> SUFFICES ASSUME CreatesFirst, LedgerInv, Untouched \/ Judged, [Next]_vars
             PROVE  (Untouched \/ Judged)'
  OBVIOUS
<1> USE RecipeApplyAssumption
<1>0. TypeOK /\ (Untouched \/ Ledger)
  BY DEF LedgerInv
<1>a. ASSUME run'.ref = run.ref, run'.adopted = run.adopted, before' = before, NEW p
      PROVE  Unaccounted(p)' <=> Unaccounted(p)
  BY <1>a DEF Unaccounted, KindOfRun
<1>1. CASE Create
  <2>1. Ledger /\ Judged
    BY <1>0, <1>1, CreateEffect DEF Untouched
  <2>2. ASSUME NEW p \in Paths, before[p] # None
        PROVE  /\ p \in run'.writtenNow => Unaccounted(p)'
               /\ p \notin run'.writtenNow => files'[p].tokens = before[p].tokens \/ Stripped(p)'
    <3>1. /\ files[p] # None /\ (p \in run.writtenNow => Unaccounted(p))
          /\ (p \notin run.writtenNow => files[p].tokens = before[p].tokens \/ Stripped(p))
      BY <2>1, <2>2, <1>0, <1>1, CreateEffect DEF Ledger, Judged
    <3>2. (Unaccounted(p)' <=> Unaccounted(p)) /\ (Stripped(p) => Stripped(p)')
      BY <1>0, <1>1, <1>a, CreateEffect, StrippedStays
    <3>3. CASE files' = files /\ run'.writtenNow = run.writtenNow
      BY <3>1, <3>2, <3>3
    <3>4. CASE /\ ~Present(Op) \/ Regenerates(Op)
               /\ files' = [files EXCEPT ![Op.target] = Rendered(Op)]
               /\ run'.writtenNow = run.writtenNow \union {Op.target}
      <4>1. CASE p # Op.target
        BY <1>0, <3>1, <3>2, <3>4, <4>1 DEF TypeOK
      <4>2. CASE p = Op.target /\ p \notin run.writtenNow
        <5>1. Regenerates(Op)
          BY <3>1, <3>4, <4>2 DEF Present
        <5>2. ~Stripped(p)
          <6>1. run.next \in DOMAIN Ops[run.ref] /\ run.ref \in Refs /\ run.next \in Nat
            BY <1>0, <1>1, CreateEffect DEF TypeOK, Runs
          <6>2. 1..(run.next - 1) \subseteq DOMAIN Ops[run.ref]
            BY <6>1 DEF Refs
          <6>3. \A i \in 1..(run.next - 1) : i < run.next
            BY <6>1
          <6>4. Op.kind = "create" /\ Op = Ops[run.ref][run.next]
            BY <1>1 DEF Create, Op
          <6>5. ASSUME NEW i \in 1..(run.next - 1),
                       Strips(Ops[run.ref][i]), Ops[run.ref][i].target = p
                PROVE  FALSE
            <7>1. i \in DOMAIN Ops[run.ref] /\ i < run.next
              BY <6>2, <6>3
            <7>2. Ops[run.ref][run.next].kind = "create" /\ Ops[run.ref][run.next].target = p
              BY <4>2, <6>4
            <7> QED
              BY <6>1, <6>5, <7>1, <7>2 DEF CreatesFirst, Strips
          <6> QED
            BY <6>5 DEF Stripped
        <5>3. files[p].tokens = before[p].tokens
          BY <3>1, <4>2, <5>2
        <5>4. /\ run.adopted /\ KindOfRun # "templating"
              /\ ~Covered(files[p], Enforcement[run.ref])
              /\ ~HasMalformed(files[p], Enforcement[run.ref])
          BY <4>2, <5>1 DEF Regenerates, Diverged
        <5>5. Unaccounted(p)
          BY <5>3, <5>4, SameTokens DEF Unaccounted
        <5> QED
          BY <3>2, <3>4, <4>2, <5>5
      <4>3. CASE p \in run.writtenNow
        BY <3>1, <3>2, <3>4, <4>3
      <4> QED
        BY <4>1, <4>2, <4>3
    <3> QED
      BY <1>0, <1>1, <3>3, <3>4, CreateEffect
  <2>3. before' = before
    BY <1>0, <1>1, CreateEffect
  <2> QED
    BY <2>2, <2>3 DEF Judged
<1>2. CASE Modify
  <2>1. Ledger /\ Judged
    BY <1>0, <1>2, ModifyEffect DEF Untouched
  <2>2. ASSUME NEW p \in Paths, before[p] # None
        PROVE  /\ p \in run'.writtenNow => Unaccounted(p)'
               /\ p \notin run'.writtenNow => files'[p].tokens = before[p].tokens \/ Stripped(p)'
    <3>1. /\ (p \in run.writtenNow => Unaccounted(p))
          /\ (p \notin run.writtenNow => files[p].tokens = before[p].tokens \/ Stripped(p))
      BY <2>1, <2>2, <1>0, <1>2, ModifyEffect DEF Judged
    <3>2. /\ Unaccounted(p)' <=> Unaccounted(p)
          /\ Stripped(p) => Stripped(p)'
          /\ Strips(Op) /\ Op.target = p => Stripped(p)'
      BY <1>0, <1>2, <1>a, ModifyEffect, StrippedStays
    <3>3. files'[p].tokens = files[p].tokens \/ (Strips(Op) /\ Op.target = p)
      BY <1>0, <1>2, ModifyEffect DEF TypeOK
    <3>4. run'.writtenNow = run.writtenNow
      BY <1>0, <1>2, ModifyEffect
    <3> QED
      BY <3>1, <3>2, <3>3, <3>4
  <2>3. before' = before
    BY <1>0, <1>2, ModifyEffect
  <2> QED
    BY <2>2, <2>3 DEF Judged
<1>3. CASE SkipStep
  <2>1. run' = [run EXCEPT !.next = run.next + 1] /\ run \in Runs
    BY <1>0, <1>3, AdvanceType DEF SkipStep, TypeOK
  <2>2. /\ run'.writtenNow = run.writtenNow /\ run'.ref = run.ref
        /\ run'.adopted = run.adopted /\ run'.next = run.next + 1
    BY <2>1 DEF Runs
  <2>3. UNCHANGED <<files, before, pc, result>> /\ Judged
    BY <1>3 DEF SkipStep, history, Untouched
  <2>4. ASSUME NEW p PROVE (Unaccounted(p)' <=> Unaccounted(p)) /\ (Stripped(p) => Stripped(p)')
    BY <1>0, <1>a, <2>2, <2>3, StrippedStays
  <2> QED
    BY <2>2, <2>3, <2>4 DEF Judged
<1>4. CASE pc # "idle" /\ Fail
  BY <1>4, <1>a, FailEffect DEF Untouched, Judged
<1>5. CASE RecordAdoption \/ RecordRecipeAdoption
  BY <1>5, <1>a DEF RecordAdoption, RecordRecipeAdoption, history, Untouched, Judged
<1>6. ASSUME NEW r \in Recipes, NEW v \in Versions, Begin(r, v) PROVE (Untouched \/ Judged)'
  BY <1>6 DEF Begin, NewRun, Judged
<1>7. CASE DeleteRecord
  BY <1>7, <1>a DEF DeleteRecord, history, Untouched, Judged
<1>8. ASSUME NEW p \in Paths, NEW doc, Between(p, doc) PROVE Untouched'
  BY <1>8 DEF Between, Untouched, Failed
<1>9. CASE UNCHANGED vars
  BY <1>9, <1>a DEF vars, Untouched, Judged, Stripped
<1>10. CASE OpFails \/ OpErrs \/ Crash \/ WriteTorn
  BY <1>4, <1>10 DEF OpFails, OpErrs, Crash, WriteTorn
<1>11. CASE \E p \in Paths :
              \/ DeleteFile(p) \/ AddFile(p)
              \/ \E tokens \in SUBSET (Tokens \union {Malformed}) : EditFile(p, tokens)
  BY <1>8, <1>11 DEF DeleteFile, AddFile, EditFile
<1> QED
  BY <1>1, <1>2, <1>3, <1>5, <1>6, <1>7, <1>9, <1>10, <1>11 DEF Next, Step

(* When recipes create a file before they merge into it, no apply, whether  *)
(* it succeeds, fails or crashes, replaces a file that a live waiver or an *)
(* unreadable token speaks for, or output of a template, or a file of a    *)
(* recipe that is not on record.                                           *)
THEOREM EditsSafe == CreatesFirst /\ Spec => []EditsAccountedFor
<1> SUFFICES ASSUME CreatesFirst PROVE Spec => []EditsAccountedFor
  OBVIOUS
<1>1. LedgerInv /\ (Untouched \/ Judged) /\ [Next]_vars
        => (LedgerInv /\ (Untouched \/ Judged))'
  BY LedgerStep, JudgedStep
<1>2. LedgerInv /\ (Untouched \/ Judged) => EditsAccountedFor
  BY DEF LedgerInv, Untouched, Ledger, Judged, Unaccounted, EditsAccountedFor, Touched, Kept,
         SameWork, TornAtEnd
<1>3. Init => LedgerInv /\ Untouched
  BY InitHolds DEF Init, Untouched, Failed
<1> QED
  BY <1>1, <1>2, <1>3, PTL DEF Spec

-----------------------------------------------------------------------------
(* The file is there, with the text one of the recipe's creates gives it. *)
Landed(p) ==
  /\ files[p] # None
  /\ \E i \in Creates(run.ref, p) : files[p].text = Ops[run.ref][i].payload

(* What the creates done so far have left: the payload, or a preserved file. *)
Current ==
  pc # "idle" \/ result.status = "ok" =>
    \A p \in Paths : \A i \in Creates(run.ref, p) :
      i < run.next /\ p \notin run.preserved => Landed(p)

(* A success has been through all operations, and reports what was kept. *)
Complete ==
  /\ pc = "report" \/ result.status = "ok" => run.next > Len(Ops[run.ref])
  /\ result.status = "ok" => pc = "idle" /\ result.preserved = run.preserved

CurrentInv == TypeOK /\ Complete /\ Current

(* A step of the operations that keeps the other files, and deals with the  *)
(* one its create is about, keeps what the creates before it left.         *)
LEMMA CurrentAdvances ==
  ASSUME CurrentInv, pc = "ops", pc' = pc, result' = result,
         run'.ref = run.ref, run'.next = run.next + 1, run.preserved \subseteq run'.preserved,
         \A p \in Paths : files[p] # None =>
           (files'[p] # None /\ files'[p].text = files[p].text) \/ Landed(p)',
         \A p \in Paths : Op.kind = "create" /\ Op.target = p =>
           p \in run'.preserved \/ Landed(p)'
  PROVE  Complete' /\ Current'
<1>1. run.next \in Nat \ {0} /\ result.status # "ok"
  BY DEF CurrentInv, Complete, TypeOK, Runs
<1>2. Complete'
  BY <1>1 DEF Complete
<1>3. ASSUME NEW p \in Paths, NEW i \in Creates(run.ref, p), i < run.next + 1,
             p \notin run'.preserved
      PROVE  Landed(p)'
  <2>0. i \in DOMAIN Ops[run.ref] /\ Ops[run.ref][i].kind = "create" /\ Ops[run.ref][i].target = p
    BY DEF Creates
  <2>1. CASE i = run.next
    BY <1>3, <2>0, <2>1 DEF Op
  <2>2. CASE i < run.next
    <3>1. Landed(p)
      BY <1>3, <2>2 DEF CurrentInv, Current
    <3> QED
      BY <3>1 DEF Landed, Creates
  <2>3. i \in Nat
    <3>1. Ops[run.ref] \in Seq(Operations)
      BY RecipeApplyAssumption DEF CurrentInv, TypeOK, Runs, Refs
    <3> QED
      BY <2>0, <3>1
  <2> QED
    BY <1>1, <1>3, <2>1, <2>2, <2>3
<1> QED
  BY <1>2, <1>3 DEF Current, Creates

(* Every step keeps the creates' output current. *)
LEMMA CurrentStep == CurrentInv /\ [Next]_vars => CurrentInv'
<1> SUFFICES ASSUME CurrentInv, [Next]_vars PROVE Complete' /\ Current'
  BY TypeStep DEF CurrentInv
<1> USE RecipeApplyAssumption
<1>0. TypeOK /\ Complete /\ Current
  BY DEF CurrentInv
<1>1. CASE Create
  <2>1. /\ Op \in Operations /\ Op.target \in Paths /\ run.next \in DOMAIN Ops[run.ref]
        /\ pc = "ops" /\ pc' = pc /\ result' = result
        /\ run'.ref = run.ref /\ run'.next = run.next + 1
    BY <1>0, <1>1, CreateEffect
  <2>2. run.next \in Creates(run.ref, Op.target) /\ Op = Ops[run.ref][run.next]
    BY <1>1, <2>1 DEF Create, Creates, Op
  <2>3. Rendered(Op) # None /\ Rendered(Op).text = Op.payload
    BY <2>1, RenderedType DEF Rendered
  <2>4. CASE /\ files' = [files EXCEPT ![Op.target] = Rendered(Op)]
             /\ run'.preserved = run.preserved
    <3>1. files'[Op.target] = Rendered(Op)
      BY <1>0, <2>1, <2>4 DEF TypeOK
    <3>2. ASSUME NEW p \in Paths, p = Op.target PROVE Landed(p)'
      BY <2>1, <2>2, <2>3, <3>1, <3>2 DEF Landed
    <3>3. \A p \in Paths \ {Op.target} : files'[p] = files[p]
      BY <1>0, <2>1, <2>4 DEF TypeOK
    <3> QED
      BY <2>1, <2>4, <3>2, <3>3, CurrentAdvances
  <2>5. CASE /\ files' = files /\ Present(Op) /\ run.preserved \subseteq run'.preserved
             /\ Unchanged(files[Op.target], Op) \/ Op.target \in run'.preserved
    <3>1. ASSUME Unchanged(files[Op.target], Op), NEW p \in Paths, p = Op.target
          PROVE  Landed(p)'
      <4>1. files'[Op.target] = Rendered(Op)
        BY <2>5, <3>1 DEF Unchanged
      <4> QED
        BY <2>1, <2>2, <2>3, <3>1, <4>1 DEF Landed
    <3> QED
      BY <2>1, <2>5, <3>1, CurrentAdvances
  <2> QED
    BY <1>0, <1>1, <2>4, <2>5, CreateEffect
<1>2. CASE Modify
  <2>1. /\ pc = "ops" /\ pc' = pc /\ result' = result /\ Op.target \in Paths
        /\ run'.ref = run.ref /\ run'.next = run.next + 1
        /\ run'.preserved = run.preserved /\ Op.kind # "create"
    BY <1>0, <1>2, ModifyEffect
  <2>2. /\ files' = [files EXCEPT ![Op.target] = Edited(files[Op.target], Op)]
        /\ Edited(files[Op.target], Op) # None
        /\ Edited(files[Op.target], Op).text = files[Op.target].text
    BY <1>0, <1>2, ModifyEffect
  <2>3. \A p \in Paths : files[p] # None => files'[p] # None /\ files'[p].text = files[p].text
    BY <1>0, <2>1, <2>2 DEF TypeOK
  <2> QED
    BY <2>1, <2>3, CurrentAdvances
<1>3. CASE SkipStep
  <2>1. run' = [run EXCEPT !.next = run.next + 1] /\ run \in Runs
    BY <1>0, <1>3, AdvanceType DEF SkipStep, TypeOK
  <2>2. /\ run'.ref = run.ref /\ run'.preserved = run.preserved /\ run'.next = run.next + 1
        /\ UNCHANGED <<files, pc, result>> /\ pc = "ops" /\ Op.kind # "create"
    BY <1>3, <2>1 DEF SkipStep, Runs
  <2> QED
    BY <2>2, CurrentAdvances
<1>4. CASE Fail
  BY <1>4, FailEffect DEF Complete, Current
<1>5. CASE RecordAdoption
  BY <1>0, <1>5 DEF RecordAdoption, Complete, Current, Landed, Creates
<1>6. CASE RecordRecipeAdoption
  BY <1>0, <1>6 DEF RecordRecipeAdoption, Complete, Current, Landed, Creates
<1>7. ASSUME NEW r \in Recipes, NEW v \in Versions, Begin(r, v) PROVE Complete' /\ Current'
  <2>1. run'.next = 1 /\ run'.ref = <<r, v>> /\ result'.status = "failed" /\ pc' = "ops"
    BY <1>7 DEF Begin, NewRun, Failed
  <2>2. Ops[<<r, v>>] \in Seq(Operations)
    OBVIOUS
  <2> QED
    BY <2>1, <2>2 DEF Complete, Current, Creates
<1>8. ASSUME NEW p \in Paths, NEW doc, Between(p, doc) PROVE Complete' /\ Current'
  BY <1>8 DEF Between, Failed, Complete, Current
<1>9. CASE DeleteRecord \/ UNCHANGED vars
  <2>1. UNCHANGED <<files, pc, run, result>>
    BY <1>9 DEF DeleteRecord, vars
  <2> QED
    BY <1>0, <2>1 DEF Complete, Current, Landed, Creates
<1>10. CASE OpFails \/ OpErrs \/ Crash \/ WriteTorn
  BY <1>4, <1>10 DEF OpFails, OpErrs, Crash, WriteTorn
<1>11. CASE \E p \in Paths :
              \/ DeleteFile(p) \/ AddFile(p)
              \/ \E tokens \in SUBSET (Tokens \union {Malformed}) : EditFile(p, tokens)
  BY <1>8, <1>11 DEF DeleteFile, AddFile, EditFile
<1> QED
  BY <1>1, <1>2, <1>3, <1>5, <1>6, <1>7, <1>9, <1>10, <1>11 DEF Next, Step

(* A success leaves every file the recipe creates with the text of the      *)
(* version applied, or names it as preserved: a create that finds its      *)
(* payload or writes it is never undone by a later operation, whichever    *)
(* operations and versions follow each other.                              *)
THEOREM OutputHolds == Spec => []OutputIsCurrent
<1>1. Init => CurrentInv
  BY InitHolds DEF LedgerInv, Init, CurrentInv, Complete, Current, Failed
<1>2. CurrentInv => OutputIsCurrent
  <2> SUFFICES ASSUME CurrentInv, result.status = "ok", NEW p \in Paths,
                      NEW i \in Creates(run.ref, p), p \notin result.preserved
               PROVE  Landed(p)
    BY DEF OutputIsCurrent, Landed
  <2>1. Ops[run.ref] \in Seq(Operations) /\ run.next \in Nat
    BY RecipeApplyAssumption DEF CurrentInv, TypeOK, Runs, Refs
  <2>2. i \in 1..Len(Ops[run.ref])
    BY <2>1 DEF Creates
  <2>3. i < run.next /\ p \notin run.preserved
    BY <2>1, <2>2 DEF CurrentInv, Complete
  <2> QED
    BY <2>3 DEF CurrentInv, Current
<1> QED
  BY <1>1, <1>2, CurrentStep, PTL DEF Spec

-----------------------------------------------------------------------------
(* Applying again *)

(* The operations that change a file that is there. *)
Changes(ref, p) ==
  {i \in DOMAIN Ops[ref] : /\ Ops[ref][i].kind \in {"merge", "insert", "transform"}
                           /\ Ops[ref][i].target = p}

(* A template creates each file once. *)
TemplatesCreateOnce ==
  \A ref \in Refs : Kind[ref[1]] = "templating" =>
    \A p \in Paths : \A i, j \in Creates(ref, p) : i = j

(* The file p after an operation that may write it. *)
Redone(op, p, doc) ==
  IF op.target # p THEN doc
  ELSE IF op.kind = "create" THEN Rendered(op)
  ELSE IF op.kind \in {"merge", "insert", "transform"} THEN Edited(doc, op)
  ELSE doc

(* The documents the file p goes through from the create c on. *)
Trace(h, ref, p, c, m) ==
  /\ h[c] = Rendered(Ops[ref][c])
  /\ \A i \in (c + 1)..m : h[i] = Redone(Ops[ref][i], p, h[i - 1])

(* After m operations doc is what any create of the file, and all that came *)
(* after it, make of the file: nothing older shows.                        *)
Output(ref, p, m, doc) ==
  \A c \in Creates(ref, p) : c <= m =>
    /\ doc # None /\ doc.tokens = {}
    /\ \E h \in [c..m -> Docs] : Trace(h, ref, p, c, m) /\ h[m] = doc

Sets(op, k) == op.kind = "merge" /\ op.fragment[k] # None

(* What operation i has left in doc after m operations, if no create of the *)
(* file came after it.                                                     *)
Mark(ref, p, m, i, doc) ==
  LET op == Ops[ref][i] IN
  /\ op.kind = "transform" => op.piece \in doc.rewritten
  /\ Strips(op) => doc.tokens = {}
  /\ \A k \in Keys :
       Sets(op, k) /\ (\A j \in Changes(ref, p) : i < j /\ j <= m => ~Sets(Ops[ref][j], k)) =>
         doc.settings[k] = op.fragment[k]

Imprint(ref, p, m, doc) ==
  \A i \in Changes(ref, p) : i <= m =>
    /\ doc # None
    /\ (\A c \in Creates(ref, p) : c <= m => c < i) => Mark(ref, p, m, i, doc)

-----------------------------------------------------------------------------
(* A set of natural numbers has a least member. *)
LEMMA LeastOne ==
  ASSUME NEW T, T \subseteq Nat, T # {}
  PROVE  \E m \in T : \A k \in T : m <= k
<1>1. IsWellFoundedOn(OpToRel(<, Nat), Nat)
  BY NatLessThanWellFounded
<1>2. PICK x \in T : \A y \in T : ~(<<y, x>> \in OpToRel(<, Nat))
  BY <1>1, WFMin
<1>3. \A y \in T : ~(y < x)
  BY <1>2 DEF OpToRel
<1> QED
  BY <1>3

(* From its create on, a file has one history. *)
LEMMA OneHistory ==
  ASSUME NEW ref, NEW p, NEW c \in Nat, NEW m \in Nat, c <= m, NEW g, NEW h,
         Trace(g, ref, p, c, m), Trace(h, ref, p, c, m)
  PROVE  g[m] = h[m]
<1> DEFINE Bad == {i \in c..m : g[i] # h[i]}
<1>1. SUFFICES ASSUME Bad # {} PROVE FALSE
  OBVIOUS
<1> HIDE DEF Bad
<1>0. Bad \subseteq c..m /\ Bad \subseteq Nat
  BY DEF Bad
<1>2. PICK i \in Bad : \A k \in Bad : i <= k
  BY <1>0, <1>1, LeastOne
<1> USE DEF Bad
<1>3. i # c
  BY <1>2 DEF Trace
<1>4. i \in (c + 1)..m /\ i - 1 \in c..m
  BY <1>2, <1>3
<1>5. g[i - 1] = h[i - 1]
  BY <1>2, <1>4
<1>6. g[i] = h[i]
  BY <1>4, <1>5 DEF Trace
<1> QED
  BY <1>2, <1>6

(* The operations of a recipe are numbered from one. *)
LEMMA Numbered ==
  ASSUME NEW ref \in Refs, NEW p
  PROVE  /\ Ops[ref] \in Seq(Operations) /\ Len(Ops[ref]) \in Nat
         /\ DOMAIN Ops[ref] = 1..Len(Ops[ref])
         /\ \A i \in Creates(ref, p) : i \in 1..Len(Ops[ref]) /\ Ops[ref][i] \in Operations
         /\ \A i \in Changes(ref, p) : i \in 1..Len(Ops[ref]) /\ Ops[ref][i] \in Operations
<1>1. Ops[ref] \in Seq(Operations)
  BY RecipeApplyAssumption DEF Refs
<1> QED
  BY <1>1 DEF Creates, Changes

(* A change puts no token into a file. *)
LEMMA NoTokens ==
  ASSUME NEW op \in Operations, NEW doc \in Docs, op.kind \in {"merge", "insert", "transform"},
         doc.tokens = {}
  PROVE  Edited(doc, op).tokens = {}
<1>1. CASE ~Strips(op)
  BY <1>1, EditedType
<1>2. CASE Strips(op)
  <2>1. Edited(doc, op) = MergeDocuments(doc, op)
    BY <1>2 DEF Edited, Strips
  <2> QED
    BY <1>2, <2>1 DEF MergeDocuments, Strips, Docs
<1> QED
  BY <1>1, <1>2

(* An operation that is not preserved away extends the output. *)
LEMMA OutputGrows ==
  ASSUME NEW ref \in Refs, NEW p \in Paths, NEW m \in Nat, m + 1 <= Len(Ops[ref]),
         NEW doc \in Docs \union {None}, NEW new \in Docs \union {None},
         Output(ref, p, m, doc),
         new = Redone(Ops[ref][m + 1], p, doc),
         m + 1 \in Changes(ref, p) => doc # None
  PROVE  Output(ref, p, m + 1, new)
<1>1. SUFFICES ASSUME NEW c \in Creates(ref, p), c <= m + 1
               PROVE  /\ new # None /\ new.tokens = {}
                      /\ \E h \in [c..(m + 1) -> Docs] : Trace(h, ref, p, c, m + 1) /\ h[m + 1] = new
  BY DEF Output
<1> DEFINE op == Ops[ref][m + 1]
<1>2. /\ c \in 1..Len(Ops[ref]) /\ Len(Ops[ref]) \in Nat /\ op \in Operations
      /\ m + 1 \in DOMAIN Ops[ref]
  BY Numbered
<1>3. None \notin Docs
  BY RecipeApplyAssumption
<1>4. CASE c = m + 1
  <2>1. new = Rendered(op)
    BY <1>4 DEF Redone, Creates
  <2>2. new \in Docs /\ new.tokens = {}
    <3>1. Rendered(op) \in Docs
      BY <1>2, RenderedType
    <3>2. Rendered(op).tokens = {}
      BY DEF Rendered
    <3> QED
      BY <2>1, <3>1, <3>2
  <2> DEFINE h == [i \in c..(m + 1) |-> new]
  <2>3. h \in [c..(m + 1) -> Docs] /\ h[m + 1] = new
    <3>1. m + 1 \in c..(m + 1)
      BY <1>4
    <3> QED
      BY <2>2, <3>1
  <2>4. Trace(h, ref, p, c, m + 1)
    BY <1>4, <2>1, <2>3 DEF Trace
  <2> QED
    BY <1>3, <2>2, <2>3, <2>4
<1>5. CASE c <= m
  <2>1. doc # None /\ doc.tokens = {}
    BY <1>5 DEF Output
  <2>2. PICK h \in [c..m -> Docs] : Trace(h, ref, p, c, m) /\ h[m] = doc
    BY <1>5 DEF Output
  <2>3. new \in Docs /\ new.tokens = {}
    <3>1. CASE op.target # p \/ op.kind \notin {"create", "merge", "insert", "transform"}
      BY <2>1, <3>1 DEF Redone
    <3>2. CASE op.target = p /\ op.kind = "create"
      BY <1>2, <3>2, RenderedType DEF Redone, Rendered
    <3>3. CASE op.target = p /\ op.kind \in {"merge", "insert", "transform"}
      <4>1. new = Edited(doc, op)
        BY <3>3 DEF Redone
      <4>2. Edited(doc, op) \in Docs /\ Edited(doc, op).tokens = {}
        BY <1>2, <2>1, <3>3, EditedType, NoTokens
      <4> QED
        BY <4>1, <4>2
    <3> QED
      BY <3>1, <3>2, <3>3
  <2> DEFINE g == [i \in c..(m + 1) |-> IF i = m + 1 THEN new ELSE h[i]]
  <2>4. g \in [c..(m + 1) -> Docs] /\ g[m + 1] = new
    BY <1>2, <1>5, <2>2, <2>3
  <2>5. \A i \in c..m : g[i] = h[i]
    BY <1>2
  <2>6. g[c] = Rendered(Ops[ref][c])
    BY <1>2, <1>5, <2>2, <2>5 DEF Trace
  <2>7. ASSUME NEW i \in (c + 1)..(m + 1) PROVE g[i] = Redone(Ops[ref][i], p, g[i - 1])
    <3>1. CASE i = m + 1
      <4>1. g[i - 1] = doc
        BY <1>2, <1>5, <2>2, <2>5, <3>1
      <4> QED
        BY <2>4, <3>1, <4>1
    <3>2. CASE i <= m
      <4>1. g[i] = h[i] /\ g[i - 1] = h[i - 1] /\ i \in (c + 1)..m
        BY <1>2, <2>5, <3>2
      <4> QED
        BY <2>2, <4>1 DEF Trace
    <3> QED
      BY <1>2, <3>1, <3>2
  <2>8. Trace(g, ref, p, c, m + 1)
    BY <2>6, <2>7 DEF Trace
  <2> QED
    BY <1>3, <2>3, <2>4, <2>8
<1> QED
  BY <1>1, <1>2, <1>4, <1>5

(* An operation leaves its mark, and the marks of the others that no create *)
(* of the file undoes.                                                     *)
LEMMA ImprintGrows ==
  ASSUME NEW ref \in Refs, NEW p \in Paths, NEW m \in Nat, m + 1 <= Len(Ops[ref]),
         NEW doc \in Docs \union {None}, NEW new \in Docs \union {None},
         Imprint(ref, p, m, doc),
         doc # None => new # None,
         m + 1 \notin Creates(ref, p) => new = Redone(Ops[ref][m + 1], p, doc),
         m + 1 \in Changes(ref, p) => doc # None
  PROVE  Imprint(ref, p, m + 1, new)
<1>1. SUFFICES ASSUME NEW i \in Changes(ref, p), i <= m + 1
               PROVE  /\ new # None
                      /\ (\A c \in Creates(ref, p) : c <= m + 1 => c < i)
                           => Mark(ref, p, m + 1, i, new)
  BY DEF Imprint
<1> DEFINE op == Ops[ref][m + 1]
<1>2. /\ i \in 1..Len(Ops[ref]) /\ Len(Ops[ref]) \in Nat /\ op \in Operations
      /\ Ops[ref][i] \in Operations /\ m + 1 \in DOMAIN Ops[ref]
      /\ \A j \in Changes(ref, p) : j \in Nat
  BY Numbered
<1>3. new # None /\ doc # None
  BY <1>1, <1>2 DEF Imprint
<1>4. SUFFICES ASSUME \A c \in Creates(ref, p) : c <= m + 1 => c < i
               PROVE  Mark(ref, p, m + 1, i, new)
  BY <1>1, <1>3
<1>5. m + 1 \notin Creates(ref, p)
  BY <1>1, <1>2, <1>4
<1>6. new = Redone(op, p, doc) /\ doc \in Docs /\ new \in Docs
  BY <1>3, <1>5
<1>7. CASE i = m + 1
  <2>1. new = Edited(doc, op) /\ op.kind \in {"merge", "insert", "transform"}
    BY <1>6, <1>7 DEF Redone, Changes
  <2>2. CASE op.kind = "merge"
    <3>1. new = MergeDocuments(doc, op)
      BY <2>1, <2>2 DEF Edited
    <3>2. Strips(op) => new.tokens = {}
      BY <1>6, <3>1 DEF MergeDocuments, Strips, Docs
    <3>3. \A k \in Keys : op.fragment[k] # None => new.settings[k] = op.fragment[k]
      <4>1. new.settings = DeepMerge(doc.settings, op.fragment)
        BY <1>6, <3>1 DEF MergeDocuments, Docs
      <4> QED
        BY <4>1 DEF DeepMerge
    <3> QED
      BY <1>7, <2>2, <3>2, <3>3 DEF Mark, Sets
  <2>3. CASE op.kind = "transform"
    <3>1. new = [doc EXCEPT !.rewritten = doc.rewritten \union {op.piece}]
      BY <1>6, <2>1, <2>3 DEF Edited, Docs
    <3>2. op.piece \in new.rewritten
      BY <1>6, <3>1 DEF Docs
    <3> QED
      BY <1>7, <2>3, <3>2 DEF Mark, Sets, Strips
  <2>4. CASE op.kind = "insert"
    BY <1>7, <2>4 DEF Mark, Sets, Strips
  <2> QED
    BY <2>1, <2>2, <2>3, <2>4
<1>8. CASE i <= m
  <2>1. Mark(ref, p, m, i, doc)
    BY <1>2, <1>4, <1>8, Numbered DEF Imprint
  <2>2. CASE new = doc /\ m + 1 \notin Changes(ref, p)
    <3>1. ASSUME NEW k \in Keys,
                 \A j \in Changes(ref, p) : i < j /\ j <= m + 1 => ~Sets(Ops[ref][j], k)
          PROVE  \A j \in Changes(ref, p) : i < j /\ j <= m => ~Sets(Ops[ref][j], k)
      BY <1>2, <3>1
    <3> QED
      BY <2>1, <2>2, <3>1 DEF Mark
  <2>3. CASE m + 1 \in Changes(ref, p)
    <3>1. new = Edited(doc, op) /\ op.kind \in {"merge", "insert", "transform"}
      BY <1>6, <2>3 DEF Redone, Changes
    <3>2. doc.rewritten \subseteq new.rewritten /\ (doc.tokens = {} => new.tokens = {})
      <4>1. CASE op.kind = "merge"
        BY <1>6, <3>1, <4>1 DEF Edited, MergeDocuments, Docs
      <4>2. CASE op.kind = "insert"
        BY <1>6, <3>1, <4>2 DEF Edited, Docs
      <4>3. CASE op.kind = "transform"
        BY <1>6, <3>1, <4>3 DEF Edited, Docs
      <4> QED
        BY <3>1, <4>1, <4>2, <4>3
    <3>3. ASSUME NEW k \in Keys, ~Sets(op, k) PROVE new.settings[k] = doc.settings[k]
      <4>1. CASE op.kind = "merge"
        <5>1. new.settings = DeepMerge(doc.settings, op.fragment)
          BY <1>6, <3>1, <4>1 DEF Edited, MergeDocuments, Docs
        <5> QED
          BY <3>3, <4>1, <5>1 DEF DeepMerge, Sets
      <4>2. CASE op.kind = "insert"
        BY <1>6, <3>1, <4>2 DEF Edited, Docs
      <4>3. CASE op.kind = "transform"
        BY <1>6, <3>1, <4>3 DEF Edited, Docs
      <4> QED
        BY <3>1, <4>1, <4>2, <4>3
    <3>4. ASSUME NEW k \in Keys, Sets(Ops[ref][i], k),
                 \A j \in Changes(ref, p) : i < j /\ j <= m + 1 => ~Sets(Ops[ref][j], k)
          PROVE  new.settings[k] = Ops[ref][i].fragment[k]
      <4>1. \A j \in Changes(ref, p) : i < j /\ j <= m => ~Sets(Ops[ref][j], k)
        BY <1>2, <3>4
      <4>2. doc.settings[k] = Ops[ref][i].fragment[k]
        BY <2>1, <3>4, <4>1 DEF Mark
      <4>3. ~Sets(op, k)
        BY <1>2, <1>8, <2>3, <3>4
      <4> QED
        BY <3>3, <4>2, <4>3
    <3> QED
      BY <2>1, <3>2, <3>4 DEF Mark
  <2>4. m + 1 \notin Changes(ref, p) => new = doc
    BY <1>2, <1>5, <1>6 DEF Redone, Changes, Creates
  <2> QED
    BY <2>2, <2>3, <2>4
<1> QED
  BY <1>1, <1>2, <1>7, <1>8

-----------------------------------------------------------------------------
(* A create of the file p writes the payload, or keeps what it finds. *)
Overwrites(p) ==
  /\ ~Present(Op) \/ Regenerates(Op)
  /\ files'[p] = Rendered(Op)
  /\ run'.preserved = run.preserved /\ p \in run'.writtenNow /\ run'.materialized

Keeps(p) ==
  /\ Present(Op) /\ ~Diverged(Op)
  /\ files'[p] = files[p] /\ run'.writtenNow = run.writtenNow
  /\ \/ p \in run'.preserved
     \/ /\ run'.preserved = run.preserved /\ files[p] = Rendered(Op)
        /\ run'.materialized /\ run.adopted /\ KindOfRun # "templating"

(* What one operation does to the file p. *)
OpOn(p) ==
  /\ run.next \in Creates(run.ref, p) => Overwrites(p) \/ Keeps(p)
  /\ run.next \notin Creates(run.ref, p) =>
       /\ files'[p] = Redone(Op, p, files[p])
       /\ p \in run'.writtenNow <=> p \in run.writtenNow
       /\ p \in run'.preserved <=> p \in run.preserved
  /\ run.next \in Changes(run.ref, p) => files[p] # None
  /\ files[p] # None => files'[p] # None

(* What an operation does to the files and to the memory of the apply. *)
LEMMA OpEffect ==
  ASSUME TypeOK, Create \/ Modify \/ SkipStep
  PROVE  /\ pc = "ops" /\ UNCHANGED <<pc, result, before, settled, record>>
         /\ run.next \in DOMAIN Ops[run.ref] /\ Op \in Operations
         /\ run'.ref = run.ref /\ run'.again = run.again /\ run'.adopted = run.adopted
         /\ run'.next = run.next + 1 /\ run.preserved \subseteq run'.preserved
         /\ run.materialized => run'.materialized
         /\ \A p \in Paths : OpOn(p)
<1>0. /\ run \in Runs /\ run.next \in DOMAIN Ops[run.ref] /\ Op \in Operations
      /\ Op = Ops[run.ref][run.next] /\ pc = "ops"
  BY OpType DEF TypeOK, Create, Modify, SkipStep, Op
<1>1. None \notin Paths /\ None \notin Docs
  BY RecipeApplyAssumption
<1>2. \A p \in Paths : /\ run.next \in Creates(run.ref, p) <=> Op.kind = "create" /\ Op.target = p
                       /\ run.next \in Changes(run.ref, p) <=>
                            Op.kind \in {"merge", "insert", "transform"} /\ Op.target = p
  BY <1>0 DEF Creates, Changes
<1>3. CASE Create
  <2>1. Op.kind = "create" /\ Op.target \in Paths /\ Op.target # None
    BY <1>0, <1>3 DEF Create, Operations
  <2>2. ASSUME NEW p \in Paths, p # Op.target PROVE Redone(Op, p, files[p]) = files[p]
    BY <2>2 DEF Redone
  <2>3. Rendered(Op) # None
    BY <1>0, <1>1, RenderedType
  <2>4. CASE /\ ~Present(Op) \/ Regenerates(Op)
             /\ WriteRendered(Op) /\ Advance(Wrote(Op, Present(Op)))
    <3>1. Wrote(Op, Present(Op)) \in Runs
      BY <1>0, <2>1, MemoryType DEF Present
    <3>2. run' = [Wrote(Op, Present(Op)) EXCEPT !.next = Wrote(Op, Present(Op)).next + 1]
      BY <2>4, <3>1, AdvanceType
    <3>3. /\ run'.ref = run.ref /\ run'.again = run.again /\ run'.adopted = run.adopted
          /\ run'.next = run.next + 1 /\ run'.preserved = run.preserved /\ run'.materialized
          /\ run'.writtenNow = run.writtenNow \union {Op.target}
      BY <1>0, <3>2 DEF Wrote, Runs
    <3>4. files' = [files EXCEPT ![Op.target] = Rendered(Op)]
      BY <2>4 DEF WriteRendered, Write
    <3>5. \A p \in Paths : files'[p] = IF p = Op.target THEN Rendered(Op) ELSE files[p]
      BY <3>4 DEF TypeOK
    <3>6. ASSUME NEW p \in Paths PROVE OpOn(p)
      BY <1>2, <2>1, <2>2, <2>3, <2>4, <3>3, <3>5 DEF OpOn, Overwrites
    <3> QED
      BY <1>0, <1>3, <3>3, <3>6 DEF Create, history
  <2>5. CASE Present(Op) /\ ~Diverged(Op) /\ Advance(Keep(Op)) /\ UNCHANGED files
    <3>1. Keep(Op) \in Runs
      BY <1>0, <2>1, MemoryType
    <3>2. run' = [Keep(Op) EXCEPT !.next = Keep(Op).next + 1]
      BY <2>5, <3>1, AdvanceType
    <3>3. /\ run'.ref = run.ref /\ run'.again = run.again /\ run'.adopted = run.adopted
          /\ run'.next = run.next + 1 /\ run'.writtenNow = run.writtenNow
          /\ run.materialized => run'.materialized
      BY <1>0, <3>2 DEF Keep, Runs
    <3>4. \/ run'.preserved = run.preserved \union {Op.target}
          \/ /\ run'.preserved = run.preserved /\ run'.materialized
             /\ run.adopted /\ KindOfRun # "templating" /\ Unchanged(files[Op.target], Op)
      BY <1>0, <3>2 DEF Keep, Runs
    <3>5. ASSUME NEW p \in Paths PROVE OpOn(p)
      BY <1>2, <2>1, <2>2, <2>5, <3>3, <3>4 DEF OpOn, Keeps, Unchanged
    <3> QED
      BY <1>0, <1>3, <3>3, <3>4, <3>5 DEF Create, history
  <2> QED
    BY <1>3, <2>4, <2>5 DEF Create
<1>4. CASE Modify
  <2>1. /\ Op.kind \in {"merge", "insert", "transform"} /\ Op.target \in Paths
        /\ files[Op.target] # None /\ Edited(files[Op.target], Op) \in Docs
        /\ files' = [files EXCEPT ![Op.target] = Edited(files[Op.target], Op)]
    BY <1>4, ModifyEffect DEF Modify
  <2>2. WroteInto(Op) \in Runs
    BY <1>0, <1>1, <2>1, MemoryType
  <2>3. run' = [WroteInto(Op) EXCEPT !.next = WroteInto(Op).next + 1]
    BY <1>4, <2>2, AdvanceType DEF Modify
  <2>4. /\ run'.ref = run.ref /\ run'.again = run.again /\ run'.adopted = run.adopted
        /\ run'.next = run.next + 1 /\ run'.preserved = run.preserved
        /\ run'.materialized = run.materialized /\ run'.writtenNow = run.writtenNow
    BY <1>0, <2>3 DEF WroteInto, Runs
  <2>5. ASSUME NEW p \in Paths PROVE OpOn(p)
    <3>1. files'[p] = Redone(Op, p, files[p])
      BY <2>1 DEF TypeOK, Redone
    <3>2. files[p] # None => files'[p] # None
      BY <1>1, <2>1 DEF TypeOK
    <3> QED
      BY <1>2, <2>1, <2>4, <3>1, <3>2 DEF OpOn
  <2> QED
    BY <1>0, <1>4, <2>4, <2>5 DEF Modify, history
<1>5. CASE SkipStep
  <2>1. run' = [run EXCEPT !.next = run.next + 1]
    BY <1>0, <1>5, AdvanceType DEF SkipStep
  <2>2. /\ run'.ref = run.ref /\ run'.again = run.again /\ run'.adopted = run.adopted
        /\ run'.next = run.next + 1 /\ run'.preserved = run.preserved
        /\ run'.materialized = run.materialized /\ run'.writtenNow = run.writtenNow
        /\ files' = files /\ Op.kind = "step"
    BY <1>0, <1>5, <2>1 DEF SkipStep, Runs
  <2>3. ASSUME NEW p \in Paths PROVE OpOn(p)
    BY <1>2, <2>2 DEF OpOn, Redone
  <2> QED
    BY <1>0, <1>5, <2>2, <2>3 DEF SkipStep, history
<1> QED
  BY <1>3, <1>4, <1>5

-----------------------------------------------------------------------------
(* An apply that is running, or has succeeded and nothing happened since. *)
Active == pc # "idle" \/ result.status = "ok"

(* What the operations done so far have left in each file. *)
Progress ==
  Active => \A p \in Paths :
    /\ p \notin run.preserved => Output(run.ref, p, run.next - 1, files[p])
    /\ Imprint(run.ref, p, run.next - 1, files[p])
    /\ p \in run.writtenNow => \E c \in Creates(run.ref, p) : c < run.next
    /\ \A c \in Creates(run.ref, p) : c < run.next /\ p \notin run.preserved =>
         /\ run.materialized
         /\ KindOfRun = "templating" => \A i \in Changes(run.ref, p) : c < i

(* An operation, written or kept, goes on from what the ones before left. *)
LEMMA ProgressGrows ==
  ASSUME TemplatesCreateOnce, TypeOK, Progress, Create \/ Modify \/ SkipStep
  PROVE  Progress'
<1> DEFINE ref == run.ref
           m == run.next - 1
<1>1. /\ pc = "ops" /\ run' .ref = ref /\ run'.next = run.next + 1
      /\ run.next \in DOMAIN Ops[ref] /\ Op \in Operations /\ Op = Ops[ref][run.next]
      /\ run.preserved \subseteq run'.preserved /\ (run.materialized => run'.materialized)
      /\ \A p \in Paths : OpOn(p)
  BY OpEffect DEF Op
<1>2. /\ run \in Runs /\ ref \in Refs /\ run.next \in Nat \ {0}
      /\ Len(Ops[ref]) \in Nat /\ run.next <= Len(Ops[ref])
  BY <1>1, Numbered DEF TypeOK, Runs
<1>3. m \in Nat /\ m + 1 = run.next /\ run'.next - 1 = m + 1
  BY <1>1, <1>2
<1>4. TypeOK'
  BY TypeStep DEF Next, Step
<1>5. SUFFICES ASSUME NEW p \in Paths
               PROVE  /\ p \notin run'.preserved => Output(ref, p, m + 1, files'[p])
                      /\ Imprint(ref, p, m + 1, files'[p])
                      /\ p \in run'.writtenNow => \E c \in Creates(ref, p) : c < m + 2
                      /\ \A c \in Creates(ref, p) : c < m + 2 /\ p \notin run'.preserved =>
                           /\ run'.materialized
                           /\ KindOfRun = "templating" => \A i \in Changes(ref, p) : c < i
  BY <1>1, <1>2, <1>3 DEF Progress, Creates, Changes, KindOfRun
<1>6. /\ p \notin run.preserved => Output(ref, p, m, files[p])
      /\ Imprint(ref, p, m, files[p])
      /\ p \in run.writtenNow => \E c \in Creates(ref, p) : c < m + 1
      /\ \A c \in Creates(ref, p) : c < m + 1 /\ p \notin run.preserved =>
           /\ run.materialized
           /\ KindOfRun = "templating" => \A i \in Changes(ref, p) : c < i
  BY <1>1, <1>3 DEF Progress, Active
<1>7. OpOn(p) /\ files[p] \in Docs \union {None} /\ files'[p] \in Docs \union {None}
  BY <1>1, <1>4 DEF TypeOK
<1>8. \A c \in Creates(ref, p) \union Changes(ref, p) : c \in Nat
  BY <1>2, Numbered
<1>9. p \notin run'.preserved => Output(ref, p, m + 1, files'[p])
  <2>1. SUFFICES ASSUME p \notin run'.preserved PROVE Output(ref, p, m + 1, files'[p])
    OBVIOUS
  <2>2. Output(ref, p, m, files[p])
    BY <1>1, <1>6, <2>1
  <2>3. files'[p] = Redone(Ops[ref][m + 1], p, files[p])
    <3>1. CASE run.next \in Creates(ref, p)
      <4>1. files'[p] = Rendered(Op)
        BY <1>7, <2>1, <3>1 DEF OpOn, Overwrites, Keeps
      <4> QED
        BY <1>1, <1>3, <3>1, <4>1 DEF Redone, Creates
    <3>2. CASE run.next \notin Creates(ref, p)
      BY <1>1, <1>3, <1>7, <3>2 DEF OpOn
    <3> QED
      BY <3>1, <3>2
  <2>4. m + 1 \in Changes(ref, p) => files[p] # None
    BY <1>3, <1>7 DEF OpOn
  <2> QED
    BY <1>2, <1>3, <1>7, <2>2, <2>3, <2>4, OutputGrows
<1>10. Imprint(ref, p, m + 1, files'[p])
  <2>1. m + 1 \notin Creates(ref, p) => files'[p] = Redone(Ops[ref][m + 1], p, files[p])
    BY <1>1, <1>3, <1>7 DEF OpOn
  <2>2. m + 1 \in Changes(ref, p) => files[p] # None
    BY <1>3, <1>7 DEF OpOn
  <2>3. files[p] # None => files'[p] # None
    BY <1>7 DEF OpOn
  <2> QED
    BY <1>2, <1>3, <1>6, <1>7, <2>1, <2>2, <2>3, ImprintGrows
<1>11. p \in run'.writtenNow => \E c \in Creates(ref, p) : c < m + 2
  <2>1. CASE run.next \in Creates(ref, p)
    BY <1>3, <2>1
  <2>2. CASE run.next \notin Creates(ref, p)
    BY <1>3, <1>6, <1>7, <1>8, <2>2 DEF OpOn
  <2> QED
    BY <2>1, <2>2
<1>12. ASSUME NEW c \in Creates(ref, p), c < m + 2, p \notin run'.preserved
       PROVE  /\ run'.materialized
              /\ KindOfRun = "templating" => \A i \in Changes(ref, p) : c < i
  <2>1. CASE c < m + 1
    BY <1>1, <1>6, <1>12, <2>1
  <2>2. CASE c = run.next
    <3>1. run'.materialized
      BY <1>7, <1>12, <2>2 DEF OpOn, Overwrites, Keeps
    <3>2. ASSUME KindOfRun = "templating", NEW i \in Changes(ref, p), ~(c < i) PROVE FALSE
      <4>1. i # c
        BY DEF Creates, Changes
      <4>2. i <= m
        BY <1>3, <1>8, <2>2, <3>2, <4>1
      <4>3. files[p] # None
        BY <1>6, <4>2 DEF Imprint
      <4>4. p \notin run.writtenNow
        <5>1. \A d \in Creates(ref, p) : d = c
          BY <1>2, <3>2 DEF TemplatesCreateOnce, KindOfRun
        <5> QED
          BY <1>3, <1>6, <1>8, <2>2, <5>1
      <4>5. Op.target = p /\ Op.kind = "create"
        BY <1>1, <1>12, <2>2 DEF Creates
      <4>6. Present(Op) /\ ~Diverged(Op) /\ ~Regenerates(Op)
        BY <3>2, <4>3, <4>4, <4>5 DEF Present, Diverged, Regenerates
      <4>7. ~Overwrites(p)
        BY <4>6 DEF Overwrites
      <4>8. ~Keeps(p)
        BY <1>12, <3>2 DEF Keeps
      <4> QED
        BY <1>7, <1>12, <2>2, <4>7, <4>8 DEF OpOn
    <3> QED
      BY <3>1, <3>2
  <2> QED
    BY <1>3, <1>8, <1>12, <2>1, <2>2
<1> QED
  BY <1>9, <1>10, <1>11, <1>12

-----------------------------------------------------------------------------
(* The apply stays within the list, and records what it made before it     *)
(* reports.                                                                *)
Recorded ==
  /\ Active => run.next <= Len(Ops[run.ref]) + 1
  /\ pc = "report" => run.next = Len(Ops[run.ref]) + 1
  /\ pc = "report" /\ run.materialized => record[run.ref[1]] # None

(* What the last apply left, while another one may be running. *)
Standing(p) == IF pc = "idle" THEN files[p] ELSE before[p]

(* An apply that preserved nothing left every file as its operations make   *)
(* it, and is on record if it created one.  A template met no file it      *)
(* creates.                                                                *)
Leavings ==
  settled # None =>
    /\ record # None
    /\ \A p \in Paths :
         /\ Output(settled, p, Len(Ops[settled]), Standing(p))
         /\ Imprint(settled, p, Len(Ops[settled]), Standing(p))
         /\ Creates(settled, p) # {} => record[settled[1]] # None
         /\ Kind[settled[1]] = "templating" =>
              \A c \in Creates(settled, p), i \in Changes(settled, p) : c < i

(* The file differs at most in settings that a merge still to be repeated   *)
(* overrides.                                                              *)
Alike(p) ==
  IF before[p] = None THEN files[p] = None
  ELSE /\ files[p] # None
       /\ files[p].text = before[p].text /\ files[p].edited = before[p].edited
       /\ files[p].tokens = before[p].tokens /\ files[p].spliced = before[p].spliced
       /\ files[p].rewritten = before[p].rewritten
       /\ \A k \in Keys : \/ files[p].settings[k] = before[p].settings[k]
                          \/ \E i \in Changes(run.ref, p) :
                               i < run.next /\ Sets(Ops[run.ref][i], k)

(* The recipe makes the file p anew in every apply. *)
Remade(p) == Creates(run.ref, p) # {} /\ KindOfRun # "templating"

(* The same version applied again: it owns the files it creates, and a      *)
(* template keeps them.                                                    *)
Again ==
  run.again /\ pc # "idle" =>
    /\ settled = run.ref
    /\ \A p \in Paths :
         /\ Creates(run.ref, p) # {} => run.adopted /\ files[p] # None
         /\ Remade(p) => p \notin run.preserved /\ files[p].tokens = {}
         /\ ~Remade(p) => /\ p \notin run.writtenNow
                          /\ Inserts(run.ref, p) = {} => Alike(p)

StableInv ==
  /\ LedgerInv /\ Progress /\ Recorded /\ Leavings /\ Again /\ ReapplyIsStable

(* The marks of a file that is not made anew, in the apply before. *)
LEMMA MarksBefore ==
  ASSUME TypeOK, Leavings, Again, run.again, pc # "idle", NEW p \in Paths, ~Remade(p),
         NEW i \in Changes(run.ref, p)
  PROVE  Mark(run.ref, p, Len(Ops[run.ref]), i, before[p])
<1>1. settled = run.ref /\ settled # None /\ run.ref \in Refs
  BY RecipeApplyAssumption DEF Again, TypeOK, Runs, Refs
<1>2. /\ Imprint(run.ref, p, Len(Ops[run.ref]), before[p])
      /\ KindOfRun = "templating" => \A c \in Creates(run.ref, p) : c < i
  BY <1>1 DEF Leavings, Standing, KindOfRun
<1>3. i <= Len(Ops[run.ref])
  BY <1>1, Numbered
<1>4. \A c \in Creates(run.ref, p) : c < i
  BY <1>2 DEF Remade
<1> QED
  BY <1>2, <1>3, <1>4 DEF Imprint

(* Repeating an operation keeps the promises of Again. *)
LEMMA AgainGrows ==
  ASSUME LedgerInv, Leavings, Again, Create \/ Modify \/ SkipStep
  PROVE  Again'
<1> DEFINE ref == run.ref
<1>0. TypeOK /\ TypeOK'
  BY TypeStep DEF LedgerInv, Next, Step
<1>1. /\ pc = "ops" /\ UNCHANGED <<pc, result, before, settled, record>>
      /\ run'.ref = ref /\ run'.again = run.again /\ run'.adopted = run.adopted
      /\ run'.next = run.next + 1
      /\ run.next \in DOMAIN Ops[ref] /\ Op \in Operations /\ Op = Ops[ref][run.next]
      /\ \A p \in Paths : OpOn(p)
  BY <1>0, OpEffect DEF Op
<1>2. ref \in Refs /\ run.next \in Nat
  BY <1>0 DEF TypeOK, Runs
<1>3. SUFFICES ASSUME run.again, NEW p \in Paths
               PROVE  /\ settled = ref
                      /\ Creates(ref, p) # {} => run.adopted /\ files'[p] # None
                      /\ Remade(p) => p \notin run'.preserved /\ files'[p].tokens = {}
                      /\ ~Remade(p) => /\ p \notin run'.writtenNow
                                       /\ Inserts(ref, p) = {} => Alike(p)'
  BY <1>1 DEF Again, Creates, Inserts, Remade, KindOfRun
<1>4. /\ settled = ref
      /\ Creates(ref, p) # {} => run.adopted /\ files[p] # None
      /\ Remade(p) => p \notin run.preserved /\ files[p].tokens = {}
      /\ ~Remade(p) => /\ p \notin run.writtenNow
                       /\ Inserts(ref, p) = {} => Alike(p)
  BY <1>1, <1>3 DEF Again
<1>5. /\ OpOn(p) /\ files[p] \in Docs \union {None} /\ files'[p] \in Docs \union {None}
      /\ before[p] \in Docs \union {None} /\ None \notin Docs
  BY <1>0, <1>1, RecipeApplyAssumption DEF TypeOK
<1>6. Creates(ref, p) # {} => run.adopted /\ files'[p] # None
  BY <1>4, <1>5 DEF OpOn
<1>7. run.next \in Creates(ref, p) => Op.kind = "create" /\ Op.target = p
  BY <1>1 DEF Creates
<1>8. ASSUME Remade(p) PROVE p \notin run'.preserved /\ files'[p].tokens = {}
  <2>1. files[p] # None /\ files[p].tokens = {} /\ run.adopted /\ p \notin run.preserved
    BY <1>4, <1>8 DEF Remade
  <2>2. CASE run.next \in Creates(ref, p)
    <3>1. ~Covered(files[p], Enforcement[ref])
      BY <2>1 DEF Covered
    <3>2. Unchanged(files[p], Op) \/ ~Keeps(p)
      BY <1>7, <1>8, <2>1, <2>2, <3>1 DEF Keeps, Diverged, Remade
    <3>3. files'[p] = Rendered(Op)
      BY <1>5, <2>2, <3>2 DEF OpOn, Overwrites, Keeps, Unchanged
    <3>4. Rendered(Op).tokens = {}
      BY DEF Rendered
    <3>5. CASE Overwrites(p)
      BY <2>1, <3>3, <3>4, <3>5 DEF Overwrites
    <3>6. CASE Keeps(p)
      <4>1. run' = [Keep(Op) EXCEPT !.next = run'.next]
        <5>1. Op.target = p /\ Op.target # None /\ Create
          BY <1>1, <1>5, <1>7, <2>2, RecipeApplyAssumption DEF Create, Modify, SkipStep
        <5>2. Advance(Keep(Op))
          BY <3>6, <5>1 DEF Create, Keeps, Regenerates, Diverged
        <5>3. Keep(Op) \in Runs
          BY <1>0, <1>1, <5>1, MemoryType
        <5> QED
          BY <5>2, <5>3, AdvanceType
      <4>2. Keep(Op) = [run EXCEPT !.materialized = TRUE]
        BY <1>7, <1>8, <2>1, <2>2, <3>2, <3>6 DEF Keep, Remade
      <4>3. run'.preserved = run.preserved
        BY <1>0, <4>1, <4>2 DEF TypeOK, Runs
      <4> QED
        BY <2>1, <3>3, <3>4, <4>3
    <3> QED
      BY <1>5, <2>2, <3>5, <3>6 DEF OpOn
  <2>3. CASE run.next \notin Creates(ref, p)
    <3>1. p \notin run'.preserved /\ files'[p] = Redone(Op, p, files[p])
      BY <1>5, <2>1, <2>3 DEF OpOn
    <3>2. CASE run.next \in Changes(ref, p)
      <4>1. /\ Op.target = p /\ Op.kind \in {"merge", "insert", "transform"}
            /\ files'[p] = Edited(files[p], Op) /\ files[p] \in Docs
        BY <1>1, <1>5, <2>1, <3>1, <3>2 DEF Changes, Redone
      <4>2. Edited(files[p], Op).tokens = {}
        BY <1>1, <2>1, <4>1, NoTokens
      <4> QED
        BY <3>1, <4>1, <4>2
    <3>3. CASE run.next \notin Changes(ref, p)
      BY <1>1, <2>1, <2>3, <3>1, <3>3 DEF Changes, Creates, Redone
    <3> QED
      BY <3>1, <3>2, <3>3
  <2> QED
    BY <2>2, <2>3
<1>9. ASSUME ~Remade(p), run.next \in Creates(ref, p)
      PROVE  files'[p] = files[p] /\ run'.writtenNow = run.writtenNow
  <2>1. KindOfRun = "templating" /\ files[p] # None /\ p \notin run.writtenNow
    BY <1>4, <1>9 DEF Remade
  <2>2. Present(Op) /\ ~Regenerates(Op)
    BY <1>7, <1>9, <2>1 DEF Present, Regenerates, Diverged
  <2> QED
    BY <1>5, <1>9, <2>2 DEF OpOn, Overwrites, Keeps
<1>10. ~Remade(p) => p \notin run'.writtenNow
  BY <1>4, <1>5, <1>9 DEF OpOn
<1>11. ASSUME ~Remade(p), Inserts(ref, p) = {} PROVE Alike(p)'
  <2>1. Alike(p)
    BY <1>4, <1>11
  <2>2. ASSUME files'[p] = files[p] PROVE Alike(p)'
    <3>1. \A k \in Keys : (\E i \in Changes(ref, p) : i < run.next /\ Sets(Ops[ref][i], k))
                           => \E i \in Changes(ref, p) : i < run.next + 1 /\ Sets(Ops[ref][i], k)
      BY <1>2, Numbered
    <3> QED
      BY <1>1, <2>1, <2>2, <3>1 DEF Alike, Changes
  <2>3. CASE run.next \in Changes(ref, p)
    <3>1. files[p] # None /\ before[p] # None /\ files[p] \in Docs /\ before[p] \in Docs
      BY <1>5, <2>1, <2>3 DEF OpOn, Alike
    <3>2. Op.target = p /\ Op.kind \in {"merge", "transform"}
      BY <1>1, <1>11, <2>3 DEF Changes, Inserts
    <3>3. run.next \notin Creates(ref, p) /\ files'[p] = Edited(files[p], Op)
      BY <1>5, <1>7, <3>2 DEF OpOn, Redone
    <3>4. Mark(ref, p, Len(Ops[ref]), run.next, before[p])
      BY <1>0, <1>1, <1>3, <1>11, <2>3, MarksBefore
    <3>5. files'[p] # None
      BY <1>5, <3>1 DEF OpOn
    <3>6. CASE Op.kind = "transform"
      <4>1. files'[p] = [files[p] EXCEPT !.rewritten = files[p].rewritten \union {Op.piece}]
        BY <3>1, <3>3, <3>6 DEF Edited, Docs
      <4>2. Op.piece \in files[p].rewritten
        BY <1>1, <2>1, <3>1, <3>4, <3>6 DEF Mark, Alike
      <4>3. files'[p].rewritten = files[p].rewritten
        BY <3>1, <4>1, <4>2 DEF Docs
      <4>4. files'[p] = files[p]
        BY <1>5, <3>1, <4>1, <4>3 DEF Docs
      <4> QED
        BY <2>2, <4>4
    <3>7. CASE Op.kind = "merge"
      <4>1. files'[p] = MergeDocuments(files[p], Op)
        BY <3>3, <3>7 DEF Edited
      <4>2. /\ files'[p].text = files[p].text /\ files'[p].edited = files[p].edited
            /\ files'[p].spliced = files[p].spliced /\ files'[p].rewritten = files[p].rewritten
            /\ files'[p].settings = DeepMerge(files[p].settings, Op.fragment)
            /\ files'[p].tokens = IF Strips(Op) THEN {} ELSE files[p].tokens
        BY <3>1, <3>7, <4>1 DEF MergeDocuments, Strips, Docs
      <4>3. files'[p].tokens = before[p].tokens
        BY <1>1, <2>1, <3>1, <3>4, <4>2 DEF Mark, Alike
      <4>4. ASSUME NEW k \in Keys
            PROVE  \/ files'[p].settings[k] = before[p].settings[k]
                   \/ \E i \in Changes(ref, p) : i < run.next + 1 /\ Sets(Ops[ref][i], k)
        <5>1. CASE Sets(Op, k)
          BY <1>1, <1>2, <2>3, <5>1
        <5>2. CASE ~Sets(Op, k)
          <6>1. files'[p].settings[k] = files[p].settings[k]
            BY <3>7, <4>2, <5>2 DEF DeepMerge, Sets
          <6>2. \/ files[p].settings[k] = before[p].settings[k]
                \/ \E i \in Changes(ref, p) : i < run.next /\ Sets(Ops[ref][i], k)
            BY <2>1, <3>1 DEF Alike
          <6> QED
            BY <1>2, <6>1, <6>2, Numbered
        <5> QED
          BY <5>1, <5>2
      <4> QED
        BY <1>1, <2>1, <3>1, <3>5, <4>2, <4>3, <4>4 DEF Alike, Changes
    <3> QED
      BY <3>2, <3>6, <3>7
  <2>4. CASE run.next \notin Changes(ref, p)
    <3>1. files'[p] = files[p]
      <4>1. CASE run.next \in Creates(ref, p)
        BY <1>9, <1>11, <4>1
      <4>2. CASE run.next \notin Creates(ref, p)
        BY <1>1, <1>5, <2>4, <4>2 DEF OpOn, Redone, Creates, Changes
      <4> QED
        BY <4>1, <4>2
    <3> QED
      BY <2>2, <3>1
  <2> QED
    BY <2>3, <2>4
<1> QED
  BY <1>4, <1>6, <1>8, <1>10, <1>11

(* When an apply that was run again succeeds, its files are as they were. *)
LEMMA SameFiles ==
  ASSUME StableInv, run.again, pc = "report", NEW p \in Paths
  PROVE  files[p] = before[p] \/ (Inserts(run.ref, p) # {} /\ p \notin run.writtenNow)
<1> DEFINE ref == run.ref
           m == Len(Ops[ref])
<1>1. /\ TypeOK /\ Progress /\ Recorded /\ Leavings /\ Again
  BY DEF StableInv, LedgerInv
<1>2. settled = ref /\ settled # None /\ ref \in Refs
  BY <1>1, RecipeApplyAssumption DEF Again, TypeOK, Runs, Refs
<1>3. /\ run.next \in Nat /\ m \in Nat /\ run.next = m + 1 /\ run.next - 1 = m
  BY <1>1, <1>2, Numbered DEF Recorded, TypeOK, Runs
<1>4. /\ files[p] \in Docs \union {None} /\ before[p] \in Docs \union {None} /\ None \notin Docs
  BY <1>1, RecipeApplyAssumption DEF TypeOK
<1>5. /\ p \notin run.preserved => Output(ref, p, m, files[p])
      /\ Imprint(ref, p, m, files[p])
  BY <1>1, <1>3 DEF Progress, Active
<1>6. /\ Output(ref, p, m, before[p])
      /\ Imprint(ref, p, m, before[p])
      /\ KindOfRun = "templating" =>
           \A c \in Creates(ref, p), i \in Changes(ref, p) : c < i
  BY <1>1, <1>2 DEF Leavings, Standing, KindOfRun
<1>7. CASE Remade(p)
  <2>1. PICK c \in Creates(ref, p) : TRUE
    BY <1>7 DEF Remade
  <2>2. c \in Nat /\ c <= m
    BY <1>2, Numbered
  <2>3. PICK g \in [c..m -> Docs] : Trace(g, ref, p, c, m) /\ g[m] = before[p]
    BY <1>6, <2>2 DEF Output
  <2>4. p \notin run.preserved
    BY <1>1, <1>7 DEF Again
  <2>5. PICK h \in [c..m -> Docs] : Trace(h, ref, p, c, m) /\ h[m] = files[p]
    BY <1>5, <2>2, <2>4 DEF Output
  <2>6. g[m] = h[m]
    BY <1>3, <2>2, <2>3, <2>5, OneHistory
  <2> QED
    BY <2>3, <2>5, <2>6
<1>8. CASE ~Remade(p) /\ Inserts(ref, p) # {}
  BY <1>1, <1>8 DEF Again
<1>9. CASE ~Remade(p) /\ Inserts(ref, p) = {}
  <2>1. Alike(p)
    BY <1>1, <1>9 DEF Again
  <2>2. SUFFICES ASSUME before[p] # None PROVE files[p] = before[p]
    BY <2>1 DEF Alike
  <2>3. files[p] \in Docs /\ before[p] \in Docs
    BY <1>4, <2>1, <2>2 DEF Alike
  <2>4. ASSUME NEW k \in Keys PROVE files[p].settings[k] = before[p].settings[k]
    <3> DEFINE Last == {i \in Changes(ref, p) : Sets(Ops[ref][i], k)}
               Left == {m - i : i \in Last}
    <3>1. SUFFICES ASSUME Last # {} PROVE files[p].settings[k] = before[p].settings[k]
      BY <2>1, <2>2, <2>4 DEF Alike
    <3>2. \A i \in Last : i \in 1..m
      BY <1>2, Numbered
    <3>3. Left \subseteq Nat /\ Left # {}
      BY <1>3, <3>1, <3>2
    <3>4. PICK x \in Left : \A y \in Left : x <= y
      <4> HIDE DEF Left
      <4> QED
        BY <3>3, LeastOne
    <3>5. PICK i \in Last : x = m - i
      BY <3>4
    <3>6. \A j \in Last : j <= i
      <4>1. ASSUME NEW j \in Last PROVE j <= i
        <5>1. m - i <= m - j
          BY <3>4, <3>5
        <5> QED
          BY <1>3, <3>2, <5>1
      <4> QED
        BY <4>1
    <3>7. \A j \in Changes(ref, p) : i < j /\ j <= m => ~Sets(Ops[ref][j], k)
      BY <3>2, <3>6
    <3>8. i \in Changes(ref, p) /\ Sets(Ops[ref][i], k)
      BY <3>5
    <3>9. Mark(ref, p, m, i, before[p])
      BY <1>1, <1>9, <3>8, MarksBefore
    <3>10. Mark(ref, p, m, i, files[p])
      <4>1. \A c \in Creates(ref, p) : c < i
        BY <1>6, <1>9, <3>8 DEF Remade
      <4>2. i <= m
        BY <3>2, <3>5
      <4> QED
        BY <1>5, <3>8, <4>1, <4>2 DEF Imprint
    <3>11. /\ files[p].settings[k] = Ops[ref][i].fragment[k]
           /\ before[p].settings[k] = Ops[ref][i].fragment[k]
      BY <2>4, <3>7, <3>8, <3>9, <3>10 DEF Mark
    <3> QED
      BY <3>11
  <2>5. files[p].settings \in [Keys -> Values \union {None}]
        /\ before[p].settings \in [Keys -> Values \union {None}]
    BY <2>3 DEF Docs, Settings
  <2>6. files[p].settings = before[p].settings
    BY <2>4, <2>5
  <2>7. /\ files[p].text = before[p].text /\ files[p].edited = before[p].edited
        /\ files[p].tokens = before[p].tokens /\ files[p].spliced = before[p].spliced
        /\ files[p].rewritten = before[p].rewritten
    BY <2>1, <2>2 DEF Alike
  <2> QED
    BY <2>3, <2>6, <2>7 DEF Docs
<1> QED
  BY <1>7, <1>8, <1>9

(* Beginning: nothing is done, and what the last apply left stands. *)
LEMMA StableBegins ==
  ASSUME StableInv, NEW r \in Recipes, NEW v \in Versions, Begin(r, v)
  PROVE  Progress' /\ Recorded' /\ Leavings' /\ Again' /\ ReapplyIsStable'
<1> DEFINE ref == <<r, v>>
<1>1. /\ TypeOK /\ Leavings /\ pc = "idle" /\ pc' = "ops" /\ before' = files /\ files' = files
      /\ record' = record /\ settled' = settled /\ run' = NewRun(r, v)
      /\ result'.status = "failed"
  BY DEF StableInv, LedgerInv, Begin, Failed
<1>2. /\ run'.ref = ref /\ run'.next = 1 /\ run'.adopted = (record[r] # None)
      /\ run'.writtenNow = {} /\ run'.preserved = {} /\ run'.again = (settled = ref)
  BY <1>1 DEF NewRun
<1>3. ref \in Refs /\ ref[1] = r /\ Len(Ops[ref]) \in Nat
  BY Numbered DEF Refs
<1>4. \A p \in Paths : \A i \in Creates(ref, p) \union Changes(ref, p) :
        i \in Nat /\ 1 <= i /\ i <= Len(Ops[ref])
  BY <1>3, Numbered
<1>5. \A p \in Paths : Output(ref, p, 0, files[p]) /\ Imprint(ref, p, 0, files[p])
  BY <1>4 DEF Output, Imprint
<1>6. Progress'
  <2>1. run'.next - 1 = 0
    BY <1>2
  <2> QED
    BY <1>1, <1>2, <1>4, <1>5, <2>1 DEF Progress, Creates, Changes
<1>7. Recorded'
  BY <1>1, <1>2, <1>3 DEF Recorded, Active
<1>8. Leavings'
  <2>1. \A p \in Paths : Standing(p)' = Standing(p)
    BY <1>1 DEF Standing
  <2> QED
    BY <1>1, <2>1 DEF Leavings, Creates, Changes, Output, Imprint
<1>9. Again'
  <2>1. SUFFICES ASSUME settled = ref PROVE Again'
    BY <1>2 DEF Again
  <2>2. settled # None
    BY <1>3, <2>1, RecipeApplyAssumption DEF Refs
  <2>3. ASSUME NEW p \in Paths
        PROVE  Creates(ref, p) # {} => /\ record[r] # None
                                       /\ files[p] # None /\ files[p].tokens = {}
    <3>1. /\ Output(ref, p, Len(Ops[ref]), files[p])
          /\ Creates(ref, p) # {} => record[r] # None
      BY <1>1, <1>3, <2>1, <2>2 DEF Leavings, Standing
    <3> QED
      BY <1>4, <3>1 DEF Output
  <2>4. \A p \in Paths : Alike(p)'
    BY <1>1 DEF Alike
  <2>5. \A p \in Paths : Remade(p)' <=> Creates(ref, p) # {} /\ Kind[r] # "templating"
    BY <1>2 DEF Remade, KindOfRun, Creates
  <2>6. settled' = run'.ref
    BY <1>1, <1>2, <2>1
  <2>7. ASSUME NEW p \in Paths
        PROVE  /\ Creates(ref, p) # {} => run'.adopted /\ files'[p] # None
               /\ Remade(p)' => p \notin run'.preserved /\ files'[p].tokens = {}
               /\ p \notin run'.writtenNow
    BY <1>1, <1>2, <2>3, <2>5
  <2> QED
    BY <1>2, <2>4, <2>6, <2>7 DEF Again, Creates
<1> QED
  BY <1>1, <1>6, <1>7, <1>8, <1>9 DEF ReapplyIsStable

(* Recording and reporting. *)
LEMMA StableEnds ==
  ASSUME StableInv, RecordAdoption \/ RecordRecipeAdoption
  PROVE  Progress' /\ Recorded' /\ Leavings' /\ Again' /\ ReapplyIsStable'
<1>1. /\ TypeOK /\ Reported /\ Progress /\ Recorded /\ Leavings /\ Again
      /\ files' = files /\ run' = run /\ before' = before
  BY DEF StableInv, LedgerInv, RecordAdoption, RecordRecipeAdoption, history
<1>2. /\ run \in Runs /\ run.ref \in Refs /\ run.ref[1] \in Recipes /\ run.ref[2] \in Versions
      /\ run.next \in Nat /\ pc # "idle" /\ record \in [Recipes -> Versions \union {None}]
      /\ Len(Ops[run.ref]) \in Nat /\ record # None
      /\ settled \in Refs \union {None}
  BY <1>1, Numbered DEF TypeOK, Runs, Refs, RecordAdoption, RecordRecipeAdoption
<1>3. /\ Adopt => record'[run.ref[1]] # None
      /\ Adopt => record' # None
      /\ \A r \in Recipes : Adopt /\ record[r] # None => record'[r] # None
  <2>1. SUFFICES ASSUME Adopt PROVE /\ record'[run.ref[1]] # None /\ record' # None
                                   /\ \A r \in Recipes : record[r] # None => record'[r] # None
    OBVIOUS
  <2>2. record' = [record EXCEPT ![run.ref[1]] = run.ref[2]]
    BY <2>1 DEF Adopt
  <2>3. record' \in [Recipes -> Versions \union {None}]
    BY <1>2, <2>2
  <2> QED
    BY <1>2, <2>2, <2>3, RecipeApplyAssumption
<1>4. record' # None /\ \A r \in Recipes : record[r] # None => record'[r] # None
  BY <1>2, <1>3 DEF RecordAdoption, RecordRecipeAdoption
<1>5. Progress'
  BY <1>1, <1>2 DEF Progress, Active, Output, Imprint, Creates, Changes, KindOfRun
<1>6. CASE RecordAdoption
  <2>1. /\ pc = "ops" /\ pc' = "report" /\ settled' = settled /\ result' = result
        /\ run.next > Len(Ops[run.ref]) /\ (run.materialized => Adopt)
    BY <1>6 DEF RecordAdoption, history
  <2>2. Recorded'
    BY <1>1, <1>2, <1>3, <2>1 DEF Recorded, Active
  <2>3. \A p \in Paths : Standing(p)' = Standing(p)
    BY <1>1, <2>1 DEF Standing
  <2>4. Leavings'
    <3>1. settled # None => settled[1] \in Recipes
      BY <1>2 DEF Refs
    <3> QED
      BY <1>1, <1>4, <2>1, <2>3, <3>1 DEF Leavings, Creates, Changes, Output, Imprint
  <2>5. Again'
    BY <1>1, <2>1 DEF Again, Creates, Inserts, Remade, KindOfRun, Alike, Changes
  <2>6. result.status # "ok"
    BY <1>1, <2>1 DEF Reported
  <2> QED
    BY <1>5, <2>1, <2>2, <2>4, <2>5, <2>6 DEF ReapplyIsStable
<1>7. CASE RecordRecipeAdoption
  <2>1. /\ pc = "report" /\ pc' = "idle" /\ settled' = IF run.preserved = {} THEN run.ref ELSE None
    BY <1>7 DEF RecordRecipeAdoption
  <2>2. Recorded' /\ Again'
    BY <1>1, <1>2, <2>1 DEF Recorded, Active, Again
  <2>3. run.next = Len(Ops[run.ref]) + 1 /\ run.next - 1 = Len(Ops[run.ref])
    BY <1>1, <1>2, <2>1 DEF Recorded
  <2>4. Leavings'
    <3>1. SUFFICES ASSUME run.preserved = {} PROVE Leavings'
      BY <2>1 DEF Leavings
    <3>2. settled' = run.ref /\ \A p \in Paths : Standing(p)' = files[p]
      BY <1>1, <2>1, <3>1 DEF Standing
    <3>3. ASSUME NEW p \in Paths
          PROVE  /\ Output(run.ref, p, Len(Ops[run.ref]), files[p])
                 /\ Imprint(run.ref, p, Len(Ops[run.ref]), files[p])
      BY <1>1, <2>1, <2>3, <3>1 DEF Progress, Active
    <3>4. ASSUME NEW p \in Paths, NEW c \in Creates(run.ref, p)
          PROVE  /\ run.materialized
                 /\ KindOfRun = "templating" => \A i \in Changes(run.ref, p) : c < i
      <4>1. c < run.next
        BY <1>2, <2>3, Numbered
      <4> QED
        BY <1>1, <2>1, <3>1, <4>1 DEF Progress, Active
    <3>5. run.materialized => record'[run.ref[1]] # None
      BY <1>1, <1>2, <1>4, <2>1 DEF Recorded
    <3>6. \A p \in Paths :
            /\ Creates(run.ref, p) # {} => record'[run.ref[1]] # None
            /\ Kind[run.ref[1]] = "templating" =>
                 \A c \in Creates(run.ref, p), i \in Changes(run.ref, p) : c < i
      BY <3>4, <3>5 DEF KindOfRun
    <3> QED
      BY <1>4, <3>2, <3>3, <3>6 DEF Leavings, Creates, Changes, Output, Imprint
  <2>5. ReapplyIsStable'
    <3>1. ASSUME run.again, NEW p \in Paths
          PROVE  files[p] = before[p] \/ (Inserts(run.ref, p) # {} /\ p \notin run.writtenNow)
      BY <2>1, <3>1, SameFiles
    <3> QED
      BY <1>1, <3>1 DEF ReapplyIsStable, Inserts
  <2> QED
    BY <1>5, <2>2, <2>4, <2>5
<1> QED
  BY <1>6, <1>7

(* Where an apply has failed, or the world intervened, nothing is promised. *)
LEMMA NothingStands ==
  ASSUME pc' = "idle", settled' = None, result'.status = "failed"
  PROVE  Progress' /\ Recorded' /\ Leavings' /\ Again' /\ ReapplyIsStable'
BY DEF Progress, Recorded, Leavings, Again, ReapplyIsStable, Active

(* Every step keeps the invariant. *)
LEMMA StableStep == TemplatesCreateOnce /\ StableInv /\ [Next]_vars => StableInv'
<1> SUFFICES ASSUME TemplatesCreateOnce, StableInv, [Next]_vars
             PROVE  Progress' /\ Recorded' /\ Leavings' /\ Again' /\ ReapplyIsStable'
  BY LedgerStep DEF StableInv
<1>0. /\ TypeOK /\ LedgerInv /\ Reported /\ Progress /\ Recorded /\ Leavings /\ Again
      /\ ReapplyIsStable
  BY DEF StableInv, LedgerInv
<1>1. CASE Create \/ Modify \/ SkipStep
  <2>1. /\ pc = "ops" /\ UNCHANGED <<pc, result, before, settled, record>>
        /\ run.next \in DOMAIN Ops[run.ref] /\ run'.ref = run.ref /\ run'.next = run.next + 1
    BY <1>0, <1>1, OpEffect
  <2>2. run.ref \in Refs /\ run.next \in 1..Len(Ops[run.ref]) /\ Len(Ops[run.ref]) \in Nat
    BY <1>0, <2>1, Numbered DEF TypeOK, Runs
  <2>3. Recorded'
    BY <2>1, <2>2 DEF Recorded, Active
  <2>4. Leavings'
    <3>1. \A p \in Paths : Standing(p)' = Standing(p)
      BY <2>1 DEF Standing
    <3> QED
      BY <1>0, <2>1, <3>1 DEF Leavings, Creates, Changes, Output, Imprint
  <2>5. ReapplyIsStable'
    BY <1>0, <2>1 DEF Reported, ReapplyIsStable
  <2> QED
    BY <1>0, <1>1, <2>3, <2>4, <2>5, ProgressGrows, AgainGrows
<1>2. CASE RecordAdoption \/ RecordRecipeAdoption
  BY <1>2, StableEnds
<1>3. ASSUME NEW r \in Recipes, NEW v \in Versions, Begin(r, v)
      PROVE  Progress' /\ Recorded' /\ Leavings' /\ Again' /\ ReapplyIsStable'
  BY <1>3, StableBegins
<1>4. CASE OpFails \/ OpErrs \/ Crash \/ WriteTorn
  <2>1. Fail
    BY <1>4 DEF OpFails, OpErrs, Crash, WriteTorn
  <2> QED
    BY <2>1, NothingStands DEF Fail, Failed
<1>5. ASSUME NEW p \in Paths, NEW doc, Between(p, doc)
      PROVE  Progress' /\ Recorded' /\ Leavings' /\ Again' /\ ReapplyIsStable'
  BY <1>5, NothingStands DEF Between, Failed
<1>6. CASE DeleteRecord
  <2>1. /\ pc = "idle" /\ settled = None /\ UNCHANGED <<files, pc, run, result, before, settled>>
    BY <1>0, <1>6 DEF DeleteRecord, history, Leavings
  <2>2. Progress' /\ Leavings' /\ Again' /\ ReapplyIsStable'
    BY <1>0, <2>1 DEF Progress, Active, Output, Imprint, Creates, Changes, KindOfRun,
                      Leavings, Again, ReapplyIsStable, Inserts
  <2>3. Recorded'
    BY <1>0, <2>1 DEF Recorded, Active
  <2> QED
    BY <2>2, <2>3
<1>7. CASE UNCHANGED vars
  <2>1. UNCHANGED <<files, record, pc, run, result, before, settled>>
    BY <1>7 DEF vars
  <2>2. Progress' /\ ReapplyIsStable' /\ Recorded'
    BY <1>0, <2>1 DEF Progress, Active, Output, Imprint, Creates, Changes, KindOfRun,
                      ReapplyIsStable, Inserts, Recorded
  <2>3. Leavings'
    BY <1>0, <2>1 DEF Leavings, Output, Imprint, Creates, Changes, Standing
  <2>4. Again'
    BY <1>0, <2>1 DEF Again, Remade, KindOfRun, Creates, Changes, Inserts, Alike
  <2> QED
    BY <2>2, <2>3, <2>4
<1>8. CASE \E p \in Paths :
              \/ DeleteFile(p) \/ AddFile(p)
              \/ \E tokens \in SUBSET (Tokens \union {Malformed}) : EditFile(p, tokens)
  BY <1>5, <1>8 DEF DeleteFile, AddFile, EditFile
<1> QED
  BY <1>1, <1>2, <1>3, <1>4, <1>6, <1>7, <1>8 DEF Next, Step

(* Applying the same version again, when the last apply preserved nothing   *)
(* and nothing happened since, changes no file but those it only inserts   *)
(* into, for any list of operations, as long as a template creates each    *)
(* file once.                                                              *)
THEOREM Reapplies == TemplatesCreateOnce /\ Spec => []ReapplyIsStable
<1> SUFFICES ASSUME TemplatesCreateOnce PROVE Spec => []ReapplyIsStable
  OBVIOUS
<1>1. Init => StableInv
  <2> SUFFICES ASSUME Init PROVE Progress /\ Recorded /\ Leavings /\ Again /\ ReapplyIsStable
    BY InitHolds DEF StableInv
  <2> QED
    BY DEF Init, Failed, Progress, Recorded, Leavings, Again, ReapplyIsStable, Active
<1>2. StableInv => ReapplyIsStable
  BY DEF StableInv
<1>3. StableInv /\ [Next]_vars => StableInv'
  BY StableStep
<1> QED
  BY <1>1, <1>2, <1>3, PTL DEF Spec
=============================================================================
