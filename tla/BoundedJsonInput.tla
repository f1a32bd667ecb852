---------------------------- MODULE BoundedJsonInput ---------------------------
(***************************************************************************)
(* load_json_object: how a policy, or another document, is read.  The      *)
(* reader opens the path without blocking, judges the opened descriptor,   *)
(* reads it in chunks up to one byte past the limit, parses and closes.    *)
(* Meanwhile others append to the files, rewrite them in place, change     *)
(* their mode, and put another file at the path.  A byte is the writer's   *)
(* mark on it.                                                             *)
(***************************************************************************)
EXTENDS Naturals, Sequences

CONSTANTS Files,      \* the files there are (inodes)
          None,       \* no file
          Facts,      \* the kinds and owners the files may have
          Marks,      \* what a byte may be
          MaxBytes,   \* max_bytes
          ChunkBytes, \* READ_CHUNK_BYTES
          MaxLength   \* bound on the length of a file

Kinds == {"regular", "other"}                 \* a directory, a pipe, a device
Owners == {"self", "root", "somebody"}        \* the file's owner, seen from the reader

ASSUME FilesAssumption == None \notin Files
ASSUME FactsAssumption == Facts \subseteq [Files -> [kind : Kinds, owner : Owners]]
ASSUME BytesAssumption == MaxBytes \in Nat \ {0} /\ ChunkBytes \in Nat \ {0} /\ MaxLength \in Nat

Answers == {"none", "unreadable", "unsafe", "too long", "malformed", "accepted"}
Steps == {"open", "fstat", "read", "parse", "close", "done"}

VARIABLES facts,     \* S_IFMT and st_uid of each file
          public,    \* S_IWOTH of each file
          bytes,     \* what each file holds
          at,        \* the file at the path, or None
          strict,    \* require_exclusive_write_owner
          pc,        \* the reader's next step
          opened,    \* the file behind the descriptor, or None
          contents,  \* the bytes read so far
          answer,    \* what the reader returns, or the reason it refuses
          approved,  \* the files that passed the checks
          whole,     \* what the file held when the reader saw its end
          rewritten  \* whether the opened file was changed other than at its end

files == <<facts, public, bytes, at>>
reader == <<pc, opened, contents, answer, approved, whole>>
documentVars == <<files, strict, reader, rewritten>>

-------------------------------------------------------------------------------
(* The reader *)

Refuse(why) == pc' = "close" /\ answer' = why

\* O_NONBLOCK: a pipe opens as well, and the open itself may be refused.
Open ==
  /\ pc = "open"
  /\ \/ /\ at # None
        /\ pc' = "fstat" /\ opened' = at /\ UNCHANGED answer
     \/ pc' = "done" /\ answer' = "unreadable" /\ UNCHANGED opened
  /\ UNCHANGED <<contents, approved, whole>>

\* The check looks at the path once more (seeded fault).
AtPath == at

\* What fstat looks at: the opened descriptor, whatever is at the path by now.
Judged == opened

\* _has_exclusive_write_owner
ExclusiveWriteOwner(file) == ~public[file] /\ facts[file].owner # "somebody"

Safe(file) ==
  /\ file # None /\ facts[file].kind = "regular" /\ Len(bytes[file]) <= MaxBytes
  /\ strict => ExclusiveWriteOwner(file)

Fstat ==
  /\ pc = "fstat"
  /\ IF Safe(Judged) THEN pc' = "read" /\ approved' = approved \cup {Judged} /\ UNCHANGED answer
     ELSE Refuse("unsafe") /\ UNCHANGED approved
  /\ UNCHANGED <<opened, contents, whole>>

Least(m, n) == IF m <= n THEN m ELSE n

\* The last request stops at the limit (seeded fault).
UpToLimit(length) == Least(ChunkBytes, MaxBytes - length)

\* One byte more than the limit is asked for, to tell a file that is too long.
Request(length) == Least(ChunkBytes, MaxBytes + 1 - length)

\* os.read returns what it likes of the request, and nothing at the end only.
Chunk(n) == SubSeq(bytes[opened], Len(contents) + 1, Len(contents) + n)

ReadSome ==
  /\ pc = "read" /\ Len(contents) <= MaxBytes
  /\ \E n \in 1..Request(Len(contents)) :
       Len(contents) + n <= Len(bytes[opened]) /\ contents' = contents \o Chunk(n)
  /\ UNCHANGED <<pc, opened, answer, approved, whole>>

ReadEnd ==
  /\ pc = "read" /\ Len(contents) <= MaxBytes
  /\ Request(Len(contents)) = 0 \/ Len(contents) >= Len(bytes[opened])
  /\ pc' = "parse" /\ whole' = bytes[opened]
  /\ UNCHANGED <<opened, contents, answer, approved>>

ReadTooMuch ==
  /\ pc = "read" /\ Len(contents) > MaxBytes /\ Refuse("too long")
  /\ UNCHANGED <<opened, contents, approved, whole>>

\* The descriptor cannot be set up, or a read fails.
ReadFails ==
  /\ pc \in {"fstat", "read"} /\ Refuse("unreadable")
  /\ UNCHANGED <<opened, contents, approved, whole>>

\* Not UTF-8, not JSON, a repeated key, a huge integer, too deep, or not an object.
Parse ==
  /\ pc = "parse" /\ pc' = "close"
  /\ answer' \in IF contents = <<>> THEN {"malformed"} ELSE {"malformed", "accepted"}
  /\ UNCHANGED <<opened, contents, approved, whole>>

CloseDocument ==
  /\ pc = "close" /\ pc' = "done" /\ opened' = None
  /\ UNCHANGED <<contents, answer, approved, whole>>

Read == Open \/ Fstat \/ ReadSome \/ ReadEnd \/ ReadTooMuch \/ ReadFails \/ Parse \/ CloseDocument

-------------------------------------------------------------------------------
(* The others *)

Replace ==
  /\ at' \in Files \cup {None}
  /\ UNCHANGED <<facts, public, bytes, rewritten>>

AppendTo(file) ==
  /\ Len(bytes[file]) < MaxLength
  /\ \E mark \in Marks : bytes' = [bytes EXCEPT ![file] = Append(@, mark)]
  /\ UNCHANGED <<facts, public, at, rewritten>>

Rewrite(file) ==
  /\ \E mark \in Marks, length \in 0..MaxLength : bytes' = [bytes EXCEPT ![file] = [i \in 1..length |-> mark]]
  /\ rewritten' = (rewritten \/ file = opened)
  /\ UNCHANGED <<facts, public, at>>

Permit(file) ==
  /\ public' = [public EXCEPT ![file] = ~@]
  /\ UNCHANGED <<facts, bytes, at, rewritten>>

Others == Replace \/ \E file \in Files : AppendTo(file) \/ Rewrite(file) \/ Permit(file)

-------------------------------------------------------------------------------
DocumentInit ==
  /\ facts \in Facts /\ public \in [Files -> BOOLEAN]
  /\ bytes \in [Files -> {<<>>} \cup {<<mark>> : mark \in Marks}] /\ at \in Files \cup {None}
  /\ strict \in BOOLEAN /\ pc = "open" /\ opened = None /\ contents = <<>>
  /\ answer = "none" /\ approved = {} /\ whole = <<>> /\ rewritten = FALSE

DocumentNext ==
  \/ Read /\ UNCHANGED <<files, strict, rewritten>>
  \/ pc \notin {"close", "done"} /\ Others /\ UNCHANGED <<reader, strict>>

DocumentSpec == DocumentInit /\ [][DocumentNext]_documentVars

-------------------------------------------------------------------------------
(* Properties *)

TypeOK ==
  /\ facts \in Facts /\ public \in [Files -> BOOLEAN]
  /\ bytes \in [Files -> Seq(Marks)] /\ at \in Files \cup {None} /\ strict \in BOOLEAN
  /\ pc \in Steps /\ opened \in Files \cup {None} /\ contents \in Seq(Marks)
  /\ answer \in Answers /\ approved \subseteq Files /\ whole \in Seq(Marks) /\ rewritten \in BOOLEAN

\* A document is never cut: what is accepted fits the limit and is all the file held
\* when its end was seen, for a file that nobody rewrites while it is read; and what
\* is refused as too long was longer than the limit.
NeverCut ==
  /\ answer = "accepted" /\ ~rewritten => contents = whole /\ Len(whole) <= MaxBytes
  /\ answer = "too long" /\ pc = "close" /\ ~rewritten => Len(bytes[opened]) > MaxBytes

\* Nothing can be swapped between the check and the read: the file that is read is the
\* one that was found regular, and closed to other writers where that is required.
ReadsWhatWasJudged == pc \in {"read", "parse"} => opened \in approved

===============================================================================
