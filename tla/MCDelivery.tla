----------------------------- MODULE MCDelivery ------------------------------
(***************************************************************************)
(* A delivered bundle with one requirement.  s1 implements it, s2 is its   *)
(* predecessor, retired.  The plan p1 carries out the issue i1, p2 s1.     *)
(***************************************************************************)
EXTENDS Delivery

V(major, minor, patch) == <<major, minor, patch>>
MCVersions == {V(1, 0, 0), V(1, 0, 1), V(2, 0, 0)}

Work(kind, status, tests) ==
  [kind |-> kind, parses |-> TRUE, malformed |-> {}, status |-> status, pointer |-> "absent",
   verification |-> "map", level |-> "unit", threshold |-> 90, command |-> TRUE,
   implementation |-> "map", subject |-> TRUE, reqForm |-> "list",
   reqs |-> <<[id |-> "R1", supForm |-> "list",
               supports |-> {[bundle |-> "b1", req |-> "q1", version |-> V(1, 0, 0)]}]>>,
   claimForm |-> "list", claims |-> <<[id |-> "C1", req |-> "R1", tests |-> tests]>>,
   contractForm |-> "list",
   contracts |-> <<[id |-> "f1", consumes |-> {},
                    provides |-> {[named |-> TRUE, kind |-> TRUE, absent |-> FALSE,
                                   signed |-> TRUE]}]>>,
   fits |-> IF kind = "spec" THEN Readers ELSE {"record"}]

Plan(source, tests, claims) ==
  [kind |-> "plan", parses |-> TRUE, valid |-> TRUE, status |-> "completed",
   source |-> source, tests |-> tests, claims |-> claims, fits |-> {"record"}]

MCTree ==
  [spec   |-> [s1 |-> Work("spec", "implemented", {"t1"}),
               s2 |-> [Work("spec", "replaced", {"t2"}) EXCEPT !.pointer = "typed"]],
   issue  |-> [i1 |-> [Work("issue", "open", {}) EXCEPT !.claims = <<>>]
                        @@ [dated |-> TRUE, delivered |-> "absent", resolved |-> "absent",
                            resolution |-> TRUE]],
   bundle |-> [b1 |-> [kind |-> "bundle", parses |-> TRUE, malformed |-> {},
                       status |-> "delivered", pointer |-> "absent", filled |-> TRUE,
                       reqs |-> <<[id |-> "q1", version |-> V(1, 0, 0), logged |-> TRUE,
                                   log |-> <<V(1, 0, 0)>>]>>,
                       fits |-> {"record"}]],
   plan   |-> [p1 |-> Plan("i1", {"t2", "pc"}, {}), p2 |-> Plan("s1", {}, {"C1"})],
   adr    |-> [d1 |-> [kind |-> "adr", parses |-> TRUE, malformed |-> {}]],
   directive |-> [v1 |-> [kind |-> "directive", parses |-> TRUE, malformed |-> {},
                          status |-> "active", pointer |-> "absent"]],
   tests  |-> [t1 |-> "passing", t2 |-> "passing"]]

MCToolchains == {[discovery |-> d, verdict |-> TRUE] : d \in BOOLEAN}
==============================================================================
