---------------------------- MODULE IdReservation ----------------------------
(***************************************************************************)
(* `backstop artifact new`: the number of a new artifact is reserved by    *)
(* pushing a git tag; when git cannot be reached it is read off the files  *)
(* of the clone.  Any number of processes run at the same time, in one     *)
(* clone or in several.  The model is of one artifact type, any but plan   *)
(* (whose file names do not carry the number).                             *)
(*                                                                         *)
(* A tag is a pair of its number and the clone it was created in: tag      *)
(* objects of two clones differ, and a clone creates each number once.     *)
(***************************************************************************)
EXTENDS Naturals

CONSTANTS
  Procs,       \* processes that run the command
  Clones,      \* clones of the project
  CloneOf,     \* the clone each process works in
  Slugs,       \* names of artifacts
  SlugOf,      \* the --slug each process is run with
  MaxRetries,  \* retries after a conflict (3 in the code)
  Env,         \* what can go wrong
  MaxRuns,     \* bound on the commands of a process
  MaxNum       \* bound on numbers, beyond what MaxRuns allows to be used

ASSUME IdReservationAssumption ==
  /\ CloneOf \in [Procs -> Clones] /\ SlugOf \in [Procs -> Slugs]
  /\ MaxRetries \in Nat /\ MaxRuns \in Nat /\ MaxNum \in Nat
  /\ Env \subseteq {"offline", "lost", "protected", "crash"}

VARIABLES
  remote,    \* the tags origin has
  tags,      \* the tags each clone has
  files,     \* the artifacts of each clone: number and slug
  pc,        \* where each process is
  num,       \* the number it tries
  attempts,  \* conflicts so far
  runs,      \* commands it has started
  issued     \* every number ResolveID returned, and to whom (history)

memory == <<num, attempts>>
vars == <<remote, tags, files, pc, memory, runs, issued>>

Init ==
  /\ remote = {} /\ tags = [c \in Clones |-> {}] /\ files = [c \in Clones |-> {}]
  /\ pc = [p \in Procs |-> "idle"]
  /\ num = [p \in Procs |-> 0] /\ attempts = [p \in Procs |-> 0]
  /\ runs = [p \in Procs |-> 0]
  /\ issued = {}

At(p, here) == pc[p] = here
Goto(p, there) == pc' = [pc EXCEPT ![p] = there]

(* The command is over. *)
Exit(p) ==
  /\ Goto(p, "idle")
  /\ num' = [num EXCEPT ![p] = 0]
  /\ attempts' = [attempts EXCEPT ![p] = 0]

Numbers(T) == {t[1] : t \in T}

(* One more than the largest number in use. *)
IsNext(n, used) == (n = 1 \/ n - 1 \in used) /\ \A m \in used : m < n

Issue(p, n, via) ==
  issued' = issued \union {[num |-> n, via |-> via, by |-> p, run |-> runs[p]]}

-----------------------------------------------------------------------------
(* ResolveID: reservation by tag *)

Begin(p) ==
  /\ At(p, "idle") /\ runs[p] < MaxRuns
  /\ runs' = [runs EXCEPT ![p] = @ + 1]
  /\ Goto(p, "fetch")
  /\ UNCHANGED <<remote, tags, files, num, attempts, issued>>

(* A tag of the clone that origin has as another object. *)
Clobbers(c, t) == \E u \in tags[c] : u[1] = t[1] /\ u # t

(* Mutation: a fetch that fails is tried again instead of given up. *)
FetchTagsAgain(p) ==
  LET c == CloneOf[p] IN
  /\ At(p, "fetch")
  /\ tags' = [tags EXCEPT ![c] = @ \union {t \in remote : ~Clobbers(c, t)}]
  /\ Goto(p, IF \E t \in remote : Clobbers(c, t) THEN "fetch" ELSE "list")
  /\ UNCHANGED <<remote, files, memory, runs, issued>>

(* git fetch --tags takes what is new; it fails when it would clobber a     *)
(* tag of the clone, and so does this run, to the local scan.              *)
FetchTags(p) ==
  LET c == CloneOf[p] IN
  /\ At(p, "fetch")
  /\ tags' = [tags EXCEPT ![c] = @ \union {t \in remote : ~Clobbers(c, t)}]
  /\ Goto(p, IF \E t \in remote : Clobbers(c, t) THEN "scan" ELSE "list")
  /\ UNCHANGED <<remote, files, memory, runs, issued>>

(* No git, no repository, a fetch or a listing that fails. *)
GitFails(p) ==
  /\ "offline" \in Env
  /\ pc[p] \in {"fetch", "list"}
  /\ Goto(p, "scan")
  /\ UNCHANGED <<remote, tags, files, memory, runs, issued>>

ListTags(p) ==
  /\ At(p, "list")
  /\ \E n \in 1..MaxNum :
       /\ IsNext(n, Numbers(tags[CloneOf[p]]))
       /\ num' = [num EXCEPT ![p] = n]
  /\ Goto(p, "create")
  /\ UNCHANGED <<remote, tags, files, attempts, runs, issued>>

(* Mutation: a tag that exists is taken for one's own. *)
CreateAnnotatedTagForced(p) ==
  /\ At(p, "create")
  /\ tags' = [tags EXCEPT ![CloneOf[p]] = @ \union {<<num[p], CloneOf[p]>>}]
  /\ Goto(p, "push")
  /\ UNCHANGED <<remote, files, memory, runs, issued>>

(* git tag -a refuses a number the clone has; the command then fails. *)
CreateAnnotatedTag(p) ==
  LET c == CloneOf[p] IN
  /\ At(p, "create")
  /\ \/ /\ num[p] \in Numbers(tags[c])
        /\ Exit(p)
        /\ UNCHANGED tags
     \/ /\ num[p] \notin Numbers(tags[c])
        /\ tags' = [tags EXCEPT ![c] = @ \union {<<num[p], c>>}]
        /\ Goto(p, "push")
        /\ UNCHANGED memory
  /\ UNCHANGED <<remote, files, runs, issued>>

(* A conflict: the next number, without another fetch, or the end. *)
Conflict(p) ==
  /\ \/ /\ attempts[p] + 1 > MaxRetries
        /\ Exit(p)
     \/ /\ attempts[p] + 1 <= MaxRetries
        /\ attempts' = [attempts EXCEPT ![p] = @ + 1]
        /\ num' = [num EXCEPT ![p] = @ + 1]
        /\ Goto(p, "create")
  /\ UNCHANGED <<remote, issued>>

Mine(p) == <<num[p], CloneOf[p]>>

(* Mutation: a push that is rejected counts as done. *)
PushTagUnchecked(p) ==
  /\ At(p, "push")
  /\ remote' = IF num[p] \in Numbers(remote) THEN remote ELSE remote \union {Mine(p)}
  /\ Issue(p, num[p], "tag")
  /\ Goto(p, "write")
  /\ UNCHANGED <<tags, files, memory, runs>>

(* git push origin <tag>.  Every output with "rejected" in it counts as a   *)
(* conflict, a protected tag too; any other failure leads to the local     *)
(* scan, also when the tag had arrived.                                    *)
PushTag(p) ==
  /\ At(p, "push")
  /\ \/ /\ num[p] \notin Numbers(remote) \/ Mine(p) \in remote
        /\ remote' = remote \union {Mine(p)}
        /\ Issue(p, num[p], "tag")
        /\ Goto(p, "write")
        /\ UNCHANGED memory
     \/ /\ num[p] \in Numbers(remote) /\ Mine(p) \notin remote
        /\ Conflict(p)
     \/ /\ "protected" \in Env
        /\ Conflict(p)
     \/ /\ \/ "offline" \in Env /\ UNCHANGED remote
           \/ "lost" \in Env /\ num[p] \notin Numbers(remote) /\ remote' = remote \union {Mine(p)}
        /\ Goto(p, "scan")
        /\ UNCHANGED <<memory, issued>>
  /\ UNCHANGED <<tags, files, runs>>

-----------------------------------------------------------------------------
(* The local scan, and the file *)

LocalScan(p) ==
  /\ At(p, "scan")
  /\ \E n \in 1..MaxNum :
       /\ IsNext(n, Numbers(files[CloneOf[p]]))
       /\ num' = [num EXCEPT ![p] = n]
       /\ Issue(p, n, "scan")
  /\ Goto(p, "write")
  /\ UNCHANGED <<remote, tags, files, attempts, runs>>

(* An existing file of the same number and slug is not overwritten. *)
WriteArtifact(p) ==
  LET c == CloneOf[p]
      f == <<num[p], SlugOf[p]>>
  IN
  /\ At(p, "write")
  /\ files' = IF f \in files[c] THEN files ELSE [files EXCEPT ![c] = @ \union {f}]
  /\ Exit(p)
  /\ UNCHANGED <<remote, tags, runs, issued>>

-----------------------------------------------------------------------------
(* The world *)

(* The command is killed, or an error ends it. *)
Crash(p) ==
  /\ "crash" \in Env
  /\ ~At(p, "idle")
  /\ Exit(p)
  /\ UNCHANGED <<remote, tags, files, runs, issued>>

(* A clone gets the artifacts of another one through the main branch. *)
Pull(c, d) ==
  /\ ~(files[d] \subseteq files[c])
  /\ files' = [files EXCEPT ![c] = @ \union files[d]]
  /\ UNCHANGED <<remote, tags, pc, memory, runs, issued>>

-----------------------------------------------------------------------------
Proceed(p) ==
  \/ FetchTags(p) \/ ListTags(p) \/ CreateAnnotatedTag(p) \/ PushTag(p)
  \/ LocalScan(p) \/ WriteArtifact(p)

Next ==
  \/ \E p \in Procs :
       \/ Begin(p) \/ Proceed(p) \/ GitFails(p) \/ Crash(p)
  \/ \E c, d \in Clones : Pull(c, d)

Spec == Init /\ [][Next]_vars

(* A process that was started keeps running. *)
FairSpec == Spec /\ \A p \in Procs : WF_vars(Proceed(p))

-----------------------------------------------------------------------------
Controls == {"idle", "fetch", "list", "create", "push", "scan", "write"}

Issues == [num : Nat, via : {"tag", "scan"}, by : Procs, run : Nat]

(* Tags, files, issued numbers and process states have the shapes the code  *)
(* gives them; the proofs need it.                                         *)
TypeOK ==
  /\ remote \subseteq Nat \X Clones
  /\ tags \in [Clones -> SUBSET (Nat \X Clones)]
  /\ files \in [Clones -> SUBSET (Nat \X Slugs)]
  /\ pc \in [Procs -> Controls]
  /\ num \in [Procs -> Nat] /\ attempts \in [Procs -> Nat]
  /\ runs \in [Procs -> Nat]
  /\ issued \subseteq Issues

(* "Push is the atomic claim": no two commands are given the same number    *)
(* through a tag, whatever races, crashes, rejected pushes and leftover    *)
(* tags there are, in one clone or in several.                             *)
ReservedOnce ==
  \A i, j \in issued : (i.via = "tag" /\ j.via = "tag" /\ i.num = j.num) => i = j

(* As long as nobody had to fall back to the local scan, no clone ever      *)
(* holds two artifacts with one number, however clones are synchronised.   *)
TaggedFilesDiffer ==
  (\A i \in issued : i.via = "tag") =>
    \A c \in Clones : \A f, g \in files[c] : f[1] = g[1] => f = g

(* Every command ends: the retries run out. *)
ReservationEnds == \A p \in Procs : ~At(p, "idle") ~> At(p, "idle")

(* "reserving a unique ID via git annotated tags (with offline fallback)":  *)
(* where git and origin always work, no number is issued twice.            *)
UniqueId ==
  \A i, j \in issued : i.num = j.num => i = j
=============================================================================
