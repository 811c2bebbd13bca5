--------------------------- MODULE MCPackLifecycle ---------------------------
(***************************************************************************)
(* A small project.  Repository 1 releases pack 1 as 1.0.0, as 1.1.0 (a    *)
(* fixture is dropped) and as 2.0.0 (its configuration conflicts with      *)
(* 1.0.0's).  Repository 2 releases pack 1 as 1.0.0, under a name that is  *)
(* not its own, and renames it to pack 2 in 1.1.0.  A local directory      *)
(* holds another pack 2.  Path 1 is pack.yml, path 2 a fixture, path 3     *)
(* the .git directory.                                                     *)
(***************************************************************************)
EXTENDS PackLifecycle, TLC

V10 == <<1, 0, 0>>
V11 == <<1, 1, 0>>
V20 == <<2, 0, 0>>

MCVersions == {V10, V11, V20}
MCContents == {"m10", "m11", "m20", "d10", "d11", "loc", "ra", "rb"}

MCManifests ==
  [c \in MCContents |->
     CASE c = "m10" -> [name |-> 1, version |-> V10, config |-> <<"x", None>>]
       [] c = "m11" -> [name |-> 1, version |-> V11, config |-> <<"x", "x">>]
       [] c = "m20" -> [name |-> 1, version |-> V20, config |-> <<"y", "y">>]
       [] c = "d10" -> [name |-> 1, version |-> V10, config |-> <<None, None>>]
       [] c = "d11" -> [name |-> 2, version |-> V11, config |-> <<None, None>>]
       [] c = "loc" -> [name |-> 2, version |-> None, config |-> <<None, "x">>]
       [] OTHER -> None]

(* The same trees in a project of two paths and in one with .git. *)
Tree(a, b, git) == IF FileCount = 2 THEN <<a, b>> ELSE <<a, b, git>>

T10 == Tree("m10", "ra", None)
T11 == Tree("m11", None, None)
T20 == Tree("m20", "rb", None)
D10 == Tree("d10", "ra", None)
D11 == Tree("d11", "rb", None)
LocA == Tree("loc", "ra", "rb")
LocB == Tree("loc", "rb", "rb")
Moved == Tree("m10", "rb", None)      \* other content for tag 1.0.0
Broken == Tree("m11", "rb", None)     \* does not validate

MCMeta == IF FileCount = 2 THEN {} ELSE {3}
MCValid == {Pristine(t) : t \in {T10, T11, T20, D10, D11, LocA, LocB, Moved}}
MCWeakens == {<<"ra", None>>, <<"m10", "m20">>}

MCRemote ==
  << [v \in MCVersions |-> IF v = V10 THEN T10 ELSE IF v = V11 THEN T11 ELSE T20],
     [v \in MCVersions |-> IF v = V10 THEN D10 ELSE IF v = V11 THEN D11 ELSE None] >>
MCSource == "p" :> LocA
MCConf == <<None, None>>
MCCandidates == {Moved, Broken, LocB}
=============================================================================
