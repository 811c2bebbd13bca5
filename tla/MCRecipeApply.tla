---------------------------- MODULE MCRecipeApply ----------------------------
(***************************************************************************)
(* Two recipes for TLC.  "svc" creates a configuration file and a source   *)
(* file, merges into the first, and inserts into a file it does not        *)
(* create; its second version has new payloads and creates, inserts into   *)
(* and rewrites the source file.  "doc" is a template of one file, whose   *)
(* second version ends in an operation the applier does not know.          *)
(***************************************************************************)
EXTENDS RecipeApply, TLC

Unset == [k \in Keys |-> None]

MCOp(kind, target) ==
  [kind |-> kind, target |-> target, payload |-> "t1", fragment |-> Unset,
   format |-> "json", piece |-> "s"]

MCCreate(p, text) == [MCOp("create", p) EXCEPT !.payload = text]
MCMerge(p, value) ==
  [MCOp("merge", p) EXCEPT !.fragment = [k \in Keys |-> value], !.format = "yaml"]

MCKind == "svc" :> "scaffolding" @@ "doc" :> "templating"

MCOps ==
  <<"svc", 1>> :> <<MCCreate("conf", "t1"), MCMerge("conf", "x"), MCCreate("main", "t1"),
                    MCOp("insert", "main"), MCOp("step", None)>> @@
  <<"svc", 2>> :> <<MCCreate("conf", "t2"), MCMerge("conf", "x"), MCOp("transform", "conf"),
                    MCOp("insert", "main")>> @@
  <<"doc", 1>> :> <<MCCreate("main", "t1")>> @@
  <<"doc", 2>> :> <<MCCreate("main", "t2"), MCOp("unknown", "main")>>

MCEnforcement ==
  [ref \in {"svc", "doc"} \X {1, 2} |-> IF ref[1] = "svc" THEN {"rule"} ELSE {}]

MCAnchored == {User, "t1"}

MCInitFiles == [Paths -> {None, OwnDoc}]
=============================================================================
