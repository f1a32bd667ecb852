-------------------------- MODULE ExecutableDiscovery --------------------------
(***************************************************************************)
(* Where a command is found: _find_executable walks the entries of PATH    *)
(* (job "find"), _observe_bound_legacy_route follows a policy's own command *)
(* (job "bind"), and observe_executable admits what they arrive at.  Each  *)
(* look at the file system is a step, and between two of them somebody     *)
(* else may install, remove, relink or re-permit files.  A path is the     *)
(* sequence of its names from the root.                                    *)
(***************************************************************************)
EXTENDS Naturals, FiniteSets, SequencesExt

CONSTANTS Disks,        \* the file systems a walk may start on
          Edits,        \* what others may do: <<location, node>>, Missing removes
          Paths,        \* the values of PATH, as sequences of directories
          Name,         \* the name that is looked for
          Commands,     \* the commands of a policy's route
          Unreviewable, \* names that hold control characters or odd spaces
          MaxSteps,     \* stands for the kernel's limits on the links and the length of a path
          MaxChanges    \* bound on the other file systems a walk may see

Missing == [type |-> "missing"]
Directory(public) == [type |-> "directory", public |-> public]
File(mode) == [type |-> "file", mode |-> mode]
Link(absolute, names) == [type |-> "link", absolute |-> absolute, names |-> names]

Nodes ==
  {Directory(public) : public \in BOOLEAN} \cup {File(mode) : mode \in {"ok", "writable", "not executable"}}
  \cup [type : {"link"}, absolute : BOOLEAN, names : Seq(STRING)]

ASSUME WalkAssumption ==
  /\ Paths \subseteq Seq(Seq(STRING)) /\ Commands \subseteq Seq(STRING)
  /\ Name \in STRING /\ MaxSteps \in Nat
  /\ \A disk \in Disks : \A p \in DOMAIN disk : disk[p] \in Nodes
  /\ \A edit \in Edits : edit[2] \in Nodes \cup {Missing}

VARIABLES fs,       \* what lies at each location that has something
          job,      \* "find" or "bind"
          entries,  \* the absolute entries of PATH
          command,  \* the command that is bound
          looking,  \* the next look at the file system, or "done"
          entry,    \* the entry of PATH that is looked at
          path,     \* the path that is looked at
          visited,  \* the links that a binding has followed
          parent,   \* the real parent of the path
          result,   \* the executable, or NoPath
          seen      \* the file systems there have been during the walk

walkVars == <<fs, job, entries, command, looking, entry, path, visited, parent, result, seen>>

NoPath == <<"..">>   \* no location has such a name

-------------------------------------------------------------------------------
(* The kernel and os.path *)

Node(disk, location) ==
  IF location = <<>> THEN Directory(FALSE)
  ELSE IF location \in DOMAIN disk THEN disk[location] ELSE Missing

Up(location) == IF location = <<>> THEN <<>> ELSE Front(location)

\* The next name of a path is looked up at a real location; a link puts its own names
\* in front of the rest.  os.path.realpath goes on by name; the kernel walks through
\* directories only, so it gets there if `real`.
Turn(disk, walk) ==
  LET next == Append(walk.at, Head(walk.rest))
      node == Node(disk, next)
      rest == Tail(walk.rest)
  IN  IF walk.rest = <<>> THEN walk
      ELSE IF Head(walk.rest) = ".." THEN [walk EXCEPT !.at = Up(walk.at), !.rest = rest]
      ELSE IF node.type = "link"
      THEN [walk EXCEPT !.at = IF node.absolute THEN <<>> ELSE walk.at, !.rest = node.names \o rest]
      ELSE [at |-> next, rest |-> rest,
            real |-> walk.real /\ (rest = <<>> \/ node.type = "directory")]

Walk(disk, names) ==
  LET walk[n \in 0..MaxSteps] ==
        IF n = 0 THEN [at |-> <<>>, rest |-> names, real |-> TRUE] ELSE Turn(disk, walk[n - 1])
  IN  walk[MaxSteps]

RealPath(disk, p) == IF Walk(disk, p).rest = <<>> THEN Walk(disk, p).at ELSE NoPath
Behind(disk, p) == IF Walk(disk, p).real THEN RealPath(disk, p) ELSE NoPath

LStat(disk, p) ==
  LET directory == Behind(disk, Front(p)) IN
  IF p = <<>> THEN Node(disk, p)
  ELSE IF p = NoPath \/ directory = NoPath \/ Node(disk, directory).type # "directory" THEN Missing
  ELSE Node(disk, Append(directory, Last(p)))

\* os.path.normpath drops ".." together with the name before it, link or not.
NormPath(p) ==
  LET done[n \in 0..Len(p)] ==
        IF n = 0 THEN <<>> ELSE IF p[n] = ".." THEN Up(done[n - 1]) ELSE Append(done[n - 1], p[n])
  IN  IF ".." \in ToSet(p) THEN done[Len(p)] ELSE p

-------------------------------------------------------------------------------
(* observe_executable *)

Executable(node) == node.type = "file" /\ node.mode # "not executable"
Trusted(node) == Executable(node) /\ node.mode # "writable"

\* _reject_public_ancestors: a directory above that anybody may write to, or a hole.
Rejected(disk, start) ==
  \E n \in 1..Len(start) :
    LET above == LStat(disk, SubSeq(start, 1, n)) IN
    above = Missing \/ above = Directory(TRUE)

\* os.path.abspath of the directory: its real one may be another.
LexicalParent(p) == NormPath(Front(p))

\* A directory behind a link is not looked at again (seeded fault).
LexicalOnly(lexical, real) == {}

\* The second chain of ancestors: that of the real parent, where it is another one.
SecondChain(lexical, real) == IF real = lexical THEN {} ELSE {real}

Admissible(disk, p) ==
  /\ Trusted(LStat(disk, p)) /\ ~Rejected(disk, LexicalParent(p))
  /\ LET real == RealPath(disk, LexicalParent(p)) IN real # LexicalParent(p) => ~Rejected(disk, real)

-------------------------------------------------------------------------------
(* The walk *)

\* _reviewable_path
Reviewable(p) == \A i \in DOMAIN p : p[i] \notin Unreviewable

Candidate(i) == Append(entries[i], Name)

\* The first failure ends the search (seeded fault).
GiveUp == looking' = "done" /\ UNCHANGED entry

\* A failed look is the end of this entry, or of the binding.
Failed ==
  IF job = "find" /\ entry < Len(entries) THEN looking' = "lstat" /\ entry' = entry + 1
  ELSE looking' = "done" /\ UNCHANGED entry

Skip == Failed /\ UNCHANGED <<path, visited, parent, result>>

Goto(step) == looking' = step /\ UNCHANGED entry
Found == Goto("done") /\ result' = path /\ UNCHANGED <<path, visited, parent>>

LStatCandidate ==
  /\ looking = "lstat"
  /\ LET candidate == Candidate(entry)
         node == LStat(fs, candidate) IN
     IF ~Reviewable(candidate) \/ node = Missing THEN Skip
     ELSE /\ Goto(IF node.type = "link" THEN "realpath" ELSE "stat")
          /\ path' = candidate /\ UNCHANGED <<visited, parent, result>>

ResolveCandidate ==
  /\ looking = "realpath"
  /\ IF Reviewable(RealPath(fs, path))
     THEN Goto("stat") /\ path' = RealPath(fs, path) /\ UNCHANGED <<visited, parent, result>>
     ELSE Skip

StatResolved ==
  /\ looking = "stat"
  /\ IF Executable(LStat(fs, path))
     THEN Goto("observe") /\ UNCHANGED <<path, visited, parent, result>>
     ELSE Skip

\* Where a link leads by name.
Target(disk, p) ==
  NormPath(IF LStat(disk, p).absolute THEN LStat(disk, p).names ELSE Front(p) \o LStat(disk, p).names)

\* The loop of _observe_bound_legacy_route asks whether there is a link ...
IsLink ==
  /\ looking = "follow"
  /\ IF LStat(fs, path).type # "link"
     THEN Goto("observe") /\ UNCHANGED <<path, visited, parent, result>>
     ELSE IF path \in visited THEN Skip
     ELSE Goto("readlink") /\ UNCHANGED <<path, visited, parent, result>>

\* ... and then reads it, which fails where it no longer is one.
FollowLink ==
  /\ looking = "readlink"
  /\ IF LStat(fs, path).type # "link" THEN Skip
     ELSE /\ Goto("follow") /\ visited' = visited \cup {path}
          /\ path' = Target(fs, path)
          /\ UNCHANGED <<parent, result>>

Observe ==
  /\ looking = "observe"
  /\ IF Trusted(LStat(fs, path))
     THEN Goto("parent") /\ UNCHANGED <<path, visited, parent, result>> ELSE Skip

ResolveParent ==
  /\ looking = "parent" /\ Goto("lexical")
  /\ parent' = RealPath(fs, LexicalParent(path)) /\ UNCHANGED <<path, visited, result>>

LexicalAncestors ==
  /\ looking = "lexical"
  /\ IF Rejected(fs, LexicalParent(path)) THEN Skip
     ELSE IF SecondChain(LexicalParent(path), parent) = {} THEN Found
     ELSE Goto("resolved") /\ UNCHANGED <<path, visited, parent, result>>

ResolvedAncestors ==
  /\ looking = "resolved"
  /\ IF \E chain \in SecondChain(LexicalParent(path), parent) : Rejected(fs, chain) THEN Skip ELSE Found

LookAtFiles ==
  /\ \/ LStatCandidate \/ ResolveCandidate \/ StatResolved \/ IsLink \/ FollowLink
     \/ Observe \/ ResolveParent \/ LexicalAncestors \/ ResolvedAncestors
  /\ UNCHANGED <<fs, job, entries, command, seen>>

-------------------------------------------------------------------------------
(* The others *)

Change ==
  /\ looking # "done" /\ Cardinality(seen) <= MaxChanges
  /\ \E edit \in Edits :
       fs' = IF edit[2] = Missing
             THEN [p \in DOMAIN fs \ {edit[1]} |-> fs[p]]
             ELSE [p \in DOMAIN fs \cup {edit[1]} |-> IF p = edit[1] THEN edit[2] ELSE fs[p]]
  /\ seen' = seen \cup {fs'}
  /\ UNCHANGED <<job, entries, command, looking, entry, path, visited, parent, result>>

-------------------------------------------------------------------------------
\* Empty and relative entries of PATH are dropped before the walk.
WalkInit ==
  /\ fs \in Disks /\ job \in {"find", "bind"}
  /\ entries \in IF job = "find" THEN Paths ELSE {<<>>}
  /\ command \in IF job = "bind" THEN Commands ELSE {NoPath}
  /\ looking = IF job = "bind" THEN "follow" ELSE IF entries = <<>> THEN "done" ELSE "lstat"
  /\ entry = 1 /\ path = IF job = "bind" THEN NormPath(command) ELSE NoPath
  /\ visited = {} /\ parent = NoPath /\ result = NoPath /\ seen = {fs}

WalkNext == LookAtFiles \/ Change

WalkSpec == WalkInit /\ [][WalkNext]_walkVars

-------------------------------------------------------------------------------
(* Properties *)

\* What an entry of PATH offers: a final link is bound to its real target.
Offer(disk, i) ==
  LET own == LStat(disk, Candidate(i)) IN
  IF own.type = "link" THEN Behind(disk, Candidate(i)) ELSE Candidate(i)

Offers(disk, i) ==
  /\ Reviewable(Candidate(i)) /\ Reviewable(Offer(disk, i))
  /\ Offer(disk, i) # NoPath /\ Admissible(disk, Offer(disk, i))

\* Everything about an entry that a look may see.
Reading(disk, i) ==
  <<LStat(disk, Candidate(i)), Offer(disk, i), RealPath(disk, LexicalParent(Offer(disk, i))), Offers(disk, i)>>

\* An entry that has offered the same executable for as long as the walk goes on.
Steady(i) == \A disk \in seen : Offers(disk, i) /\ Reading(disk, i) = Reading(fs, i)

\* Precedence on PATH: an entry that offers an admissible executable, and that no change
\* touches, is never passed over, whatever fails or changes at the entries before it.
FirstSteadyEntryWins ==
  looking = "done" /\ job = "find" =>
    \A i \in DOMAIN entries : Steady(i) => result # NoPath /\ entry <= i

\* All that others did was at one place.
Touched == {p \in UNION {DOMAIN disk : disk \in seen} : \E disk \in seen : Node(disk, p) # Node(fs, p)}
OnePlace == \A p, q \in Touched : p = q

\* What is above a file, by its name and really, led to the same places throughout, and
\* no directory or link of it became something else.
KeptWay(p) ==
  \A way \in {LexicalParent(p), RealPath(fs, LexicalParent(p))}, disk \in seen : \A n \in DOMAIN way :
    LET above == SubSeq(way, 1, n) IN
    /\ RealPath(disk, above) = RealPath(fs, above)
    /\ LStat(disk, above).type = LStat(fs, above).type

\* An entry is bound to its final target as it is at one moment; a command's links are
\* followed one by one, each as it was at some moment.
LedTo(disk) ==
  IF job = "find" THEN result \in {Candidate(entry), RealPath(disk, Candidate(entry))}
  ELSE /\ NormPath(command) \in visited \cup {result}
       /\ \A p \in visited : \E earlier \in seen :
            LStat(earlier, p).type = "link" /\ Target(earlier, p) \in visited \cup {result}

\* The checks are separate looks, yet whatever is done in their midst at one place, be it
\* to the file, to a link that leads to it or to the permissions of a directory, and however
\* often, does not add up to an admission: what is returned was admissible, and was where
\* the entry (or the command) led, at one moment of the walk.  Only replacing what is
\* above the file, while it is judged, is excluded.
FoundWasAdmissible ==
  result # NoPath /\ OnePlace /\ KeptWay(result) =>
    \E disk \in seen : LedTo(disk) /\ Admissible(disk, result)

===============================================================================
