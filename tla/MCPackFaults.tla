---------------------------- MODULE MCPackFaults ----------------------------
(***************************************************************************)
(* One pack, released as 1.0.0 and as 1.1.0 (which drops a fixture and     *)
(* wants other configuration), with a local fork of the same name and a    *)
(* path where no pack is: small enough for three disturbances, so that a   *)
(* crash can follow a crash or meet what an edit or another branch left.   *)
(***************************************************************************)
EXTENDS PackLifecycle, TLC

V10 == <<1, 0, 0>>
V11 == <<1, 1, 0>>

MCVersions == {V10, V11}
MCContents == {"m10", "m11", "loc", "ra"}

MCManifests ==
  [c \in MCContents |->
     CASE c = "m10" -> [name |-> 1, version |-> V10, config |-> <<"x">>]
       [] c = "m11" -> [name |-> 1, version |-> V11, config |-> <<"y">>]
       [] c = "loc" -> [name |-> 1, version |-> None, config |-> <<None>>]
       [] OTHER -> None]

T10 == <<"m10", "ra">>
T11 == <<"m11", None>>
Fork == <<"loc", None>>

MCValid == {T10, T11, Fork}
MCRemote == << [v \in MCVersions |-> IF v = V10 THEN T10 ELSE T11] >>
MCSource == "p" :> Fork @@ "gone" :> None
MCConf == <<None>>
MCCandidates == {Fork, T11}
=============================================================================
