------------------------- MODULE IdReservationProofs -------------------------
(***************************************************************************)
(* No number is reserved twice, for any number of processes, clones, runs  *)
(* and retries, whatever goes wrong.                                       *)
(*                                                                         *)
(* A number that was issued through a tag is at origin as the object of    *)
(* the clone it was issued in (Backed), and origin keeps the first object  *)
(* of a number (FirstWins).  That a push of a tag origin already has       *)
(* succeeds makes this subtle: a process about to push must know that its  *)
(* own object is not there yet (Unpushed).  It is not because it created   *)
(* the tag itself, which git refuses when the clone has the number, and a  *)
(* clone has every tag of its own that origin has (Known).                 *)
(***************************************************************************)
EXTENDS IdReservation, TLAPS

(* A number reserved through a tag is at origin, from the clone it was      *)
(* issued in.                                                              *)
Backed == \A i \in issued : i.via = "tag" => <<i.num, CloneOf[i.by]>> \in remote

(* Origin has one object per number. *)
FirstWins == \A t, u \in remote : t[1] = u[1] => t = u

(* A clone never loses a tag it created. *)
Known == \A t \in remote : t \in tags[t[2]]

(* A process about to push has created the tag, alone, and origin does not  *)
(* have it.                                                                *)
Unpushed ==
  \A p \in Procs : pc[p] = "push" =>
    /\ Mine(p) \in tags[CloneOf[p]]
    /\ Mine(p) \notin remote
    /\ \A q \in Procs : pc[q] = "push" /\ Mine(q) = Mine(p) => q = p

IdInv == TypeOK /\ Backed /\ FirstWins /\ Known /\ Unpushed /\ ReservedOnce

-----------------------------------------------------------------------------
(* The initial state satisfies the invariant: there are no tags and no      *)
(* numbers.                                                                *)
LEMMA InitHolds == Init => IdInv
BY IdReservationAssumption
   DEF Init, IdInv, TypeOK, Backed, FirstWins, Known, Unpushed, ReservedOnce, Controls

(* Every step keeps the shapes of the state. *)
LEMMA TypeStep == TypeOK /\ [Next]_vars => TypeOK'
<1> SUFFICES ASSUME TypeOK, [Next]_vars PROVE TypeOK'
  OBVIOUS
<1> USE IdReservationAssumption DEF TypeOK, Controls, Goto, At, Mine
<1>1. ASSUME NEW p \in Procs, Begin(p) PROVE TypeOK'
  BY <1>1 DEF Begin
<1>2. ASSUME NEW p \in Procs, FetchTags(p) PROVE TypeOK'
  BY <1>2 DEF FetchTags, memory
<1>3. ASSUME NEW p \in Procs, GitFails(p) PROVE TypeOK'
  BY <1>3 DEF GitFails, memory
<1>4. ASSUME NEW p \in Procs, ListTags(p) PROVE TypeOK'
  BY <1>4 DEF ListTags
<1>5. ASSUME NEW p \in Procs, CreateAnnotatedTag(p) PROVE TypeOK'
  BY <1>5 DEF CreateAnnotatedTag, Exit, memory
<1>6. ASSUME NEW p \in Procs, PushTag(p) PROVE TypeOK'
  <2>1. Mine(p) \in Nat \X Clones
    OBVIOUS
  <2>2. [num |-> num[p], via |-> "tag", by |-> p, run |-> runs[p]] \in Issues
    BY DEF Issues
  <2>3. ASSUME Conflict(p), UNCHANGED <<tags, files, runs>> PROVE TypeOK'
    BY <2>3 DEF Conflict, Exit
  <2>4. CASE UNCHANGED memory
    BY <1>6, <2>1, <2>2, <2>3, <2>4 DEF PushTag, Issue, memory
  <2>5. CASE ~UNCHANGED memory
    BY <1>6, <2>3, <2>5 DEF PushTag
  <2> QED BY <2>4, <2>5
<1>7. ASSUME NEW p \in Procs, LocalScan(p) PROVE TypeOK'
  BY <1>7 DEF LocalScan, Issue, Issues
<1>8. ASSUME NEW p \in Procs, WriteArtifact(p) PROVE TypeOK'
  BY <1>8 DEF WriteArtifact, Exit
<1>9. ASSUME NEW p \in Procs, Crash(p) PROVE TypeOK'
  BY <1>9 DEF Crash, Exit
<1>10. ASSUME NEW c \in Clones, NEW d \in Clones, Pull(c, d) PROVE TypeOK'
  BY <1>10 DEF Pull, memory
<1>11. CASE UNCHANGED vars
  BY <1>11 DEF vars, memory
<1> QED
  BY <1>1, <1>2, <1>3, <1>4, <1>5, <1>6, <1>7, <1>8, <1>9, <1>10, <1>11 DEF Next, Proceed

(* A step after which no process that was not pushing before is pushing,    *)
(* and that leaves origin and the numbers of the pushing alone, cannot hurt *)
(* as long as clones keep their tags.                                      *)
LEMMA QuietStep ==
  ASSUME IdInv, UNCHANGED <<remote, issued>>,
         \A c \in Clones : tags[c] \subseteq tags'[c],
         \A q \in Procs : pc'[q] = "push" => pc[q] = "push" /\ num'[q] = num[q]
  PROVE  Backed' /\ FirstWins' /\ Known' /\ Unpushed' /\ ReservedOnce'
<1> USE IdReservationAssumption
<1>1. Backed' /\ FirstWins' /\ ReservedOnce'
  BY DEF IdInv, Backed, FirstWins, ReservedOnce
<1>2. Known'
  BY DEF IdInv, Known, TypeOK
<1>3. Unpushed'
  BY DEF IdInv, Unpushed, Mine, TypeOK
<1> QED BY <1>1, <1>2, <1>3

(* Creating a tag: the clone did not have the number, so by Known origin    *)
(* does not have the clone's object of it, and nobody else in the clone is *)
(* pushing it.                                                             *)
LEMMA CreateStep ==
  ASSUME IdInv, NEW p \in Procs, CreateAnnotatedTag(p)
  PROVE  Backed' /\ FirstWins' /\ Known' /\ Unpushed' /\ ReservedOnce'
<1> USE IdReservationAssumption
<1> DEFINE c == CloneOf[p]
<1>1. CASE num[p] \in Numbers(tags[c])
  <2>1. UNCHANGED <<remote, issued, tags>>
    BY <1>1 DEF CreateAnnotatedTag
  <2>2. \A q \in Procs : pc'[q] = "push" => pc[q] = "push" /\ num'[q] = num[q]
    BY <1>1 DEF CreateAnnotatedTag, Exit, Goto, IdInv, TypeOK
  <2> QED BY <2>1, <2>2, QuietStep
<1>2. CASE num[p] \notin Numbers(tags[c])
  <2>1. /\ tags' = [tags EXCEPT ![c] = @ \union {Mine(p)}]
        /\ pc' = [pc EXCEPT ![p] = "push"]
        /\ UNCHANGED <<remote, issued, num>>
    BY <1>2 DEF CreateAnnotatedTag, Goto, memory, Mine
  <2>2. Backed' /\ FirstWins' /\ ReservedOnce'
    BY <2>1 DEF IdInv, Backed, FirstWins, ReservedOnce
  <2>3. Known'
    BY <2>1 DEF IdInv, Known, TypeOK
  <2>4. Mine(p) \notin tags[c]
    BY <1>2 DEF Numbers, Mine
  <2>5. Mine(p) \notin remote
    BY <2>4 DEF IdInv, Known, Mine
  <2>6. \A q \in Procs : pc[q] = "push" => Mine(q) # Mine(p)
    BY <2>4 DEF IdInv, Unpushed, Mine
  <2>7. Unpushed'
    BY <2>1, <2>5, <2>6 DEF IdInv, Unpushed, Mine, TypeOK
  <2> QED BY <2>2, <2>3, <2>7
<1> QED BY <1>1, <1>2

(* Origin takes the tag of a process that is pushing, which then stops      *)
(* pushing: the number was free at origin.                                 *)
LEMMA ArriveStep ==
  ASSUME IdInv, NEW p \in Procs, pc[p] = "push", num[p] \notin Numbers(remote),
         remote' = remote \union {Mine(p)},
         NEW there, there # "push", pc' = [pc EXCEPT ![p] = there],
         UNCHANGED <<tags, num>>
  PROVE  FirstWins' /\ Known' /\ Unpushed'
<1> USE IdReservationAssumption
<1>1. FirstWins'
  BY DEF IdInv, FirstWins, Numbers, Mine
<1>2. Known'
  BY DEF IdInv, Known, Unpushed, Mine
<1>3. Unpushed'
  BY DEF IdInv, Unpushed, Mine, TypeOK
<1> QED BY <1>1, <1>2, <1>3

LEMMA PushStep ==
  ASSUME IdInv, NEW p \in Procs, PushTag(p)
  PROVE  Backed' /\ FirstWins' /\ Known' /\ Unpushed' /\ ReservedOnce'
<1> USE IdReservationAssumption
<1>0. pc[p] = "push" /\ Mine(p) \notin remote
  BY DEF PushTag, At, IdInv, Unpushed
<1> DEFINE new == [num |-> num[p], via |-> "tag", by |-> p, run |-> runs[p]]
<1>1. CASE /\ num[p] \notin Numbers(remote)
           /\ remote' = remote \union {Mine(p)}
           /\ issued' = issued \union {new}
           /\ pc' = [pc EXCEPT ![p] = "write"]
           /\ UNCHANGED <<tags, num>>
  <2>1. FirstWins' /\ Known' /\ Unpushed'
    BY <1>0, <1>1, ArriveStep
  <2>2. Backed'
    BY <1>1 DEF IdInv, Backed, Mine
  <2>3. \A i \in issued : i.via = "tag" => i.num # num[p]
    BY <1>1 DEF IdInv, Backed, Numbers
  <2>4. ReservedOnce'
    BY <1>1, <2>3 DEF IdInv, ReservedOnce
  <2> QED BY <2>1, <2>2, <2>4
<1>2. CASE Conflict(p) /\ UNCHANGED tags
  <2>1. UNCHANGED <<remote, issued>>
    BY <1>2 DEF Conflict
  <2>2. \A q \in Procs : pc'[q] = "push" => pc[q] = "push" /\ num'[q] = num[q]
    BY <1>2 DEF Conflict, Exit, Goto, IdInv, TypeOK
  <2> QED BY <1>2, <2>1, <2>2, QuietStep
<1>3. CASE /\ UNCHANGED <<remote, issued, tags, num>>
           /\ pc' = [pc EXCEPT ![p] = "scan"]
  <2>1. \A q \in Procs : pc'[q] = "push" => pc[q] = "push" /\ num'[q] = num[q]
    BY <1>3 DEF IdInv, TypeOK
  <2> QED BY <1>3, <2>1, QuietStep
<1>4. CASE /\ num[p] \notin Numbers(remote)
           /\ remote' = remote \union {Mine(p)}
           /\ pc' = [pc EXCEPT ![p] = "scan"]
           /\ UNCHANGED <<tags, num, issued>>
  <2>1. FirstWins' /\ Known' /\ Unpushed'
    BY <1>0, <1>4, ArriveStep
  <2>2. Backed' /\ ReservedOnce'
    BY <1>4 DEF IdInv, Backed, ReservedOnce
  <2> QED BY <2>1, <2>2
<1> QED
  BY <1>0, <1>1, <1>2, <1>3, <1>4 DEF PushTag, Issue, Goto, memory

(* A number read off the files reserves nothing. *)
LEMMA ScanStep ==
  ASSUME IdInv, NEW p \in Procs, LocalScan(p)
  PROVE  Backed' /\ FirstWins' /\ Known' /\ Unpushed' /\ ReservedOnce'
<1> USE IdReservationAssumption
<1>1. PICK n \in 1..MaxNum :
        /\ num' = [num EXCEPT ![p] = n]
        /\ issued' = issued \union {[num |-> n, via |-> "scan", by |-> p, run |-> runs[p]]}
  BY DEF LocalScan, Issue
<1>2. pc' = [pc EXCEPT ![p] = "write"] /\ UNCHANGED <<remote, tags>>
  BY DEF LocalScan, Goto
<1>3. Backed' /\ ReservedOnce'
  BY <1>1, <1>2 DEF IdInv, Backed, ReservedOnce
<1>4. FirstWins' /\ Known'
  BY <1>2 DEF IdInv, FirstWins, Known
<1>5. Unpushed'
  BY <1>1, <1>2 DEF IdInv, Unpushed, Mine, TypeOK
<1> QED BY <1>3, <1>4, <1>5

LEMMA StepHolds == IdInv /\ [Next]_vars => IdInv'
<1> SUFFICES ASSUME IdInv, [Next]_vars PROVE IdInv'
  OBVIOUS
<1> USE IdReservationAssumption
<1>t. TypeOK'
  BY TypeStep DEF IdInv
<1> DEFINE Safe == Backed' /\ FirstWins' /\ Known' /\ Unpushed' /\ ReservedOnce'
<1> DEFINE Kept == \A q \in Procs : pc'[q] = "push" => pc[q] = "push" /\ num'[q] = num[q]
<1>1. ASSUME NEW p \in Procs, Begin(p) PROVE Safe
  <2>1. Kept /\ UNCHANGED <<remote, issued, tags>>
    BY <1>1 DEF Begin, Goto, IdInv, TypeOK
  <2> QED BY <2>1, QuietStep
<1>2. ASSUME NEW p \in Procs, FetchTags(p) PROVE Safe
  <2>1. Kept /\ UNCHANGED <<remote, issued>>
    BY <1>2 DEF FetchTags, Goto, memory, IdInv, TypeOK
  <2>2. \A c \in Clones : tags[c] \subseteq tags'[c]
    BY <1>2 DEF FetchTags, IdInv, TypeOK
  <2> QED BY <2>1, <2>2, QuietStep
<1>3. ASSUME NEW p \in Procs, GitFails(p) PROVE Safe
  <2>1. Kept /\ UNCHANGED <<remote, issued, tags>>
    BY <1>3 DEF GitFails, Goto, memory, IdInv, TypeOK
  <2> QED BY <2>1, QuietStep
<1>4. ASSUME NEW p \in Procs, ListTags(p) PROVE Safe
  <2>1. Kept /\ UNCHANGED <<remote, issued, tags>>
    BY <1>4 DEF ListTags, Goto, IdInv, TypeOK
  <2> QED BY <2>1, QuietStep
<1>5. ASSUME NEW p \in Procs, CreateAnnotatedTag(p) PROVE Safe
  BY <1>5, CreateStep
<1>6. ASSUME NEW p \in Procs, PushTag(p) PROVE Safe
  BY <1>6, PushStep
<1>7. ASSUME NEW p \in Procs, LocalScan(p) PROVE Safe
  BY <1>7, ScanStep
<1>8. ASSUME NEW p \in Procs, WriteArtifact(p) PROVE Safe
  <2>1. Kept /\ UNCHANGED <<remote, issued, tags>>
    BY <1>8 DEF WriteArtifact, Exit, Goto, IdInv, TypeOK
  <2> QED BY <2>1, QuietStep
<1>9. ASSUME NEW p \in Procs, Crash(p) PROVE Safe
  <2>1. Kept /\ UNCHANGED <<remote, issued, tags>>
    BY <1>9 DEF Crash, Exit, Goto, IdInv, TypeOK
  <2> QED BY <2>1, QuietStep
<1>10. ASSUME NEW c \in Clones, NEW d \in Clones, Pull(c, d) PROVE Safe
  <2>1. Kept /\ UNCHANGED <<remote, issued, tags>>
    BY <1>10 DEF Pull, memory
  <2> QED BY <2>1, QuietStep
<1>11. ASSUME UNCHANGED vars PROVE Safe
  <2>1. Kept /\ UNCHANGED <<remote, issued, tags>>
    BY <1>11 DEF vars, memory
  <2> QED BY <2>1, QuietStep
<1>12. Safe
  BY <1>1, <1>2, <1>3, <1>4, <1>5, <1>6, <1>7, <1>8, <1>9, <1>10, <1>11 DEF Next, Proceed
<1> QED BY <1>t, <1>12 DEF IdInv

-----------------------------------------------------------------------------
(* "Push is the atomic claim": whatever the number of processes and clones, *)
(* and whatever fails, two commands never get the same number through a    *)
(* tag.                                                                    *)
THEOREM NumbersReservedOnce == Spec => []ReservedOnce
<1>1. IdInv => ReservedOnce
  BY DEF IdInv
<1> QED BY InitHolds, StepHolds, <1>1, PTL DEF Spec

-----------------------------------------------------------------------------
(* From numbers to artifacts.  A process that is about to write holds a     *)
(* number it was issued, and every file of every clone is what the holder  *)
(* of its number writes; files only travel between clones.                 *)

Holds == \A p \in Procs : pc[p] = "write" => \E i \in issued : i.num = num[p] /\ i.by = p

Traced ==
  \A c \in Clones : \A f \in files[c] : \E i \in issued : f = <<i.num, SlugOf[i.by]>>

FileInv == IdInv /\ Holds /\ Traced

LEMMA FileInit == Init => FileInv
BY InitHolds DEF Init, FileInv, Holds, Traced

(* A step that writes no file and after which nobody newly writes. *)
LEMMA FileFrame ==
  ASSUME FileInv, files' = files, issued \subseteq issued',
         \A q \in Procs : pc'[q] = "write" => pc[q] = "write" /\ num'[q] = num[q]
  PROVE  Holds' /\ Traced'
BY DEF FileInv, Holds, Traced

LEMMA FileStep == FileInv /\ [Next]_vars => FileInv'
<1> SUFFICES ASSUME FileInv, [Next]_vars PROVE FileInv'
  OBVIOUS
<1> USE IdReservationAssumption
<1>t. IdInv'
  BY StepHolds DEF FileInv
<1>0. /\ pc \in [Procs -> Controls] /\ num \in [Procs -> Nat] /\ runs \in [Procs -> Nat]
      /\ files \in [Clones -> SUBSET (Nat \X Slugs)]
  BY DEF FileInv, IdInv, TypeOK
<1> DEFINE Kept == \A q \in Procs : pc'[q] = "write" => pc[q] = "write" /\ num'[q] = num[q]
<1>1. ASSUME NEW p \in Procs, Begin(p) \/ FetchTags(p) \/ GitFails(p) \/ ListTags(p) \/ CreateAnnotatedTag(p)
                              \/ Crash(p)
      PROVE  Holds' /\ Traced'
  <2>1. Kept /\ UNCHANGED <<files, issued>>
    BY <1>0, <1>1 DEF Begin, FetchTags, GitFails, ListTags, CreateAnnotatedTag, Crash, Exit, Goto, At, memory
  <2> QED BY <2>1, FileFrame
<1>2. ASSUME NEW p \in Procs, PushTag(p) PROVE Holds' /\ Traced'
  <2>1. CASE /\ issued' = issued \union {[num |-> num[p], via |-> "tag", by |-> p, run |-> runs[p]]}
             /\ pc' = [pc EXCEPT ![p] = "write"] /\ UNCHANGED <<num, files>>
    <3>1. Traced'
      BY <2>1 DEF FileInv, Traced
    <3>2. Holds'
      <4> DEFINE new == [num |-> num[p], via |-> "tag", by |-> p, run |-> runs[p]]
      <4>1. new \in issued' /\ new.num = num'[p] /\ new.by = p
        BY <2>1
      <4> HIDE DEF new
      <4>2. \A q \in Procs \ {p} : pc'[q] = pc[q] /\ num'[q] = num[q]
        BY <1>0, <2>1
      <4> QED BY <2>1, <4>1, <4>2 DEF FileInv, Holds
    <3> QED BY <3>1, <3>2
  <2>2. CASE Conflict(p) /\ UNCHANGED files
    <3>1. Kept /\ UNCHANGED <<files, issued>>
      BY <1>0, <2>2 DEF Conflict, Exit, Goto
    <3> QED BY <3>1, FileFrame
  <2>3. CASE UNCHANGED <<num, files, issued>> /\ pc' = [pc EXCEPT ![p] = "scan"]
    BY <1>0, <2>3, FileFrame
  <2> QED BY <1>2, <2>1, <2>2, <2>3 DEF PushTag, Issue, Goto, memory
<1>3. ASSUME NEW p \in Procs, LocalScan(p) PROVE Holds' /\ Traced'
  <2>1. PICK n \in 1..MaxNum :
          /\ num' = [num EXCEPT ![p] = n]
          /\ issued' = issued \union {[num |-> n, via |-> "scan", by |-> p, run |-> runs[p]]}
    BY <1>3 DEF LocalScan, Issue
  <2>2. pc' = [pc EXCEPT ![p] = "write"] /\ files' = files
    BY <1>3 DEF LocalScan, Goto
  <2>3. Traced'
    BY <2>1, <2>2 DEF FileInv, Traced
  <2>4. Holds'
    <3> DEFINE new == [num |-> n, via |-> "scan", by |-> p, run |-> runs[p]]
    <3>1. new \in issued' /\ new.num = num'[p] /\ new.by = p
      BY <1>0, <2>1
    <3> HIDE DEF new
    <3>2. \A q \in Procs \ {p} : pc'[q] = pc[q] /\ num'[q] = num[q]
      BY <1>0, <2>1, <2>2
    <3> QED BY <2>1, <3>1, <3>2 DEF FileInv, Holds
  <2> QED BY <2>3, <2>4
<1>4. ASSUME NEW p \in Procs, WriteArtifact(p) PROVE Holds' /\ Traced'
  <2>1. issued' = issued /\ Kept
    BY <1>0, <1>4 DEF WriteArtifact, Exit, Goto
  <2>2. \A c \in Clones : \A f \in files'[c] : f \in files[c] \/ f = <<num[p], SlugOf[p]>>
    BY <1>0, <1>4 DEF WriteArtifact
  <2>3. PICK i \in issued : i.num = num[p] /\ i.by = p
    BY <1>4 DEF WriteArtifact, At, FileInv, Holds
  <2>4. Traced'
    BY <2>1, <2>2, <2>3 DEF FileInv, Traced
  <2>5. Holds'
    BY <2>1 DEF FileInv, Holds
  <2> QED BY <2>4, <2>5
<1>5. ASSUME NEW c \in Clones, NEW d \in Clones, Pull(c, d) PROVE Holds' /\ Traced'
  BY <1>0, <1>5 DEF Pull, memory, FileInv, Holds, Traced
<1>6. ASSUME UNCHANGED vars PROVE Holds' /\ Traced'
  BY <1>6 DEF vars, memory, FileInv, Holds, Traced
<1>7. Holds' /\ Traced'
  BY <1>1, <1>2, <1>3, <1>4, <1>5, <1>6 DEF Next, Proceed
<1> QED BY <1>t, <1>7 DEF FileInv

(* As long as no command had to read its number off the files, no clone     *)
(* holds two artifacts of one number, for any processes, clones, crashes,  *)
(* rejected and lost pushes, however the clones are synchronised.          *)
THEOREM FilesDiffer == Spec => []TaggedFilesDiffer
<1>1. FileInv => TaggedFilesDiffer
  <2> SUFFICES ASSUME FileInv, \A i \in issued : i.via = "tag",
                      NEW c \in Clones, NEW f \in files[c], NEW g \in files[c], f[1] = g[1]
               PROVE  f = g
    BY DEF TaggedFilesDiffer
  <2>1. PICK i \in issued : f = <<i.num, SlugOf[i.by]>>
    BY DEF FileInv, Traced
  <2>2. PICK j \in issued : g = <<j.num, SlugOf[j.by]>>
    BY DEF FileInv, Traced
  <2>3. i = j
    BY <2>1, <2>2 DEF FileInv, IdInv, ReservedOnce
  <2> QED BY <2>1, <2>2, <2>3
<1> QED BY <1>1, FileInit, FileStep, PTL DEF Spec
=============================================================================
