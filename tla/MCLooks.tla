-------------------------------- MODULE MCLooks --------------------------------
(* What the program asks the kernel more than once about, while others act: the  *)
(* document it reads, the executable it looks for and the process group it       *)
(* signals.  The three share no state, so a behaviour is one of one of them,     *)
(* with the others at rest.                                                      *)
EXTENDS BoundedJsonInput, ExecutableDiscovery, ProcessGroupAnchor, TLC

CONSTANTS f, g, old, new

-------------------------------------------------------------------------------
(* Two files, of which one is the reader's own (or root's) and the other is     *)
(* somebody else's, or no regular file.                                         *)

Inode(kind, owner) == [kind |-> kind, owner |-> owner]
Two(first, second) == [file \in {f, g} |-> IF file = f THEN first ELSE second]

MCFacts == {Two(Inode("regular", "self"), Inode("regular", "somebody")),
            Two(Inode("regular", "root"), Inode("other", "self"))}

Either == Permutations({old, new})

-------------------------------------------------------------------------------
(* Two places for the tool and a third behind a directory link: as a plain file, *)
(* as a link to a package, relinked, re-permitted or removed during the walk.    *)

Bin == <<"bin">>
Opt == <<"opt">>
Pkg == <<"pkg">>
Alias == <<"alias">>   \* a link to /pkg/bin

Tool(d) == d \o <<"tool">>
Real == Pkg \o <<"bin">>

Offered == {Missing, File("ok"), File("writable"), File("not executable"), Directory(FALSE),
            Link(TRUE, <<"pkg", "tool">>), Link(FALSE, <<"tool">>), Link(FALSE, <<"odd name">>)}

Disk(open, a, b, c, package) ==
  LET all == (Bin :> Directory(FALSE)) @@ (Opt :> Directory(open)) @@ (Pkg :> Directory(FALSE))
             @@ (Real :> Directory(~open)) @@ (Alias :> Link(TRUE, Real))
             @@ (Tool(Bin) :> a) @@ (Tool(Opt) :> b) @@ (Tool(Real) :> c) @@ (Tool(Pkg) :> package)
  IN  [p \in {q \in DOMAIN all : all[q] # Missing} |-> all[p]]

MCDisks ==
  {Disk(open, a, b, c, package) : open \in BOOLEAN, a \in Offered,
     b \in Offered \ {File("writable"), Link(FALSE, <<"tool">>)},
     c \in {File("ok"), Link(FALSE, <<"..", "tool">>)}, package \in {File("ok"), Link(TRUE, <<"bin", "tool">>)}}

MCEdits == ({Tool(Bin)} \X {Missing, File("ok"), File("writable"), Link(TRUE, <<"pkg", "tool">>)})
           \cup ({Tool(Pkg)} \X {Missing, File("ok"), File("writable")})
           \cup ({Real} \X {Directory(TRUE), Directory(FALSE)})
           \cup {<<Alias, Link(TRUE, Opt)>>, <<Real, File("ok")>>}

\* /alias/.. is /pkg to the kernel and the root by name.
MCPaths == {<<>>, <<Opt, Bin, Alias \o <<"..">>, Alias>>}

MCCommands == {Tool(Alias), <<"opt", "..", "bin", "tool">>}

-------------------------------------------------------------------------------
NoDocument ==
  /\ facts = Two(Inode("other", "self"), Inode("other", "self")) /\ public = [file \in Files |-> FALSE]
  /\ bytes = [file \in Files |-> <<>>] /\ at = None /\ strict = FALSE /\ pc = "done" /\ opened = None
  /\ contents = <<>> /\ answer = "none" /\ approved = {} /\ whole = <<>> /\ rewritten = FALSE
NoWalk ==
  /\ fs = <<>> /\ job = "bind" /\ entries = <<>> /\ command = <<>> /\ looking = "done" /\ entry = 0
  /\ path = <<>> /\ visited = {} /\ parent = <<>> /\ result = NoPath /\ seen = {}
NoGroup ==
  /\ platform = "waitid" /\ leader = "taken" /\ members = FALSE /\ denied = FALSE /\ stranger = TRUE
  /\ event = FALSE /\ signalling = "done" /\ call = "open" /\ polls = 0 /\ target = FALSE
  /\ handle = "none" /\ queue = "closed" /\ observing = FALSE /\ exited = FALSE /\ returncode = "none"
  /\ raised = "none" /\ refused = FALSE /\ proved = FALSE /\ knew = FALSE /\ lostAtCall = FALSE
  /\ polled = "none"

MCInit == \/ DocumentInit /\ NoWalk /\ NoGroup
          \/ NoDocument /\ WalkInit /\ NoGroup
          \/ NoDocument /\ NoWalk /\ GroupInit

MCNext == \/ DocumentNext /\ UNCHANGED <<walkVars, groupVars>>
          \/ WalkNext /\ UNCHANGED <<documentVars, groupVars>>
          \/ GroupNext /\ UNCHANGED <<documentVars, walkVars>>

MCSpec == MCInit /\ [][MCNext]_<<documentVars, walkVars, groupVars>>

===============================================================================
