------------------------------- MODULE Patching -------------------------------
(***************************************************************************)
(* One call of apply_patch: it parses the patch, tries every operation on  *)
(* the files as they are, and then carries them out one after the other,   *)
(* awaiting each read and write, while other programs and other calls of   *)
(* the step go on.  The same call is made against a disk, a just-bash      *)
(* shell and a yjs-fs file system.                                         *)
(***************************************************************************)
EXTENDS Patch

CONSTANTS
  Paths,
  Bodies,     \* the lines between "*** Begin Patch" and "*** End Patch"
  Stores,     \* the files there are before the call
  Contents,   \* what others write
  MaxMeddling \* bound: changes by others

VARIABLES
  backend, body,
  ops,      \* of the parsed patch
  at,       \* the operation in hand
  phase,    \* validate, read, write, remove; done, rejected before a write, broken after
  content,  \* what was read of its file
  store,    \* the files
  was,      \* history: the files at the call
  written,  \* history: the last update, as <<lines before, chunks, lines after>>
  meddled   \* changes by others

patchVars == <<backend, body, ops, at, phase, content, store, was, written, meddled>>

\* A call parses its input; nothing to do is an error.
Rejects(p) == p = <<>> \/ \A k \in 1..Len(p) : p[k].type \notin {"add", "delete"} /\ p[k].chunks = <<>>

Init ==
  /\ backend \in {"disk", "bash", "yjs"} /\ body \in Bodies /\ store \in Stores
  /\ ops = parsePatch(body) /\ at = 1
  /\ phase = IF Rejects(ops) THEN "rejected" ELSE "validate"
  /\ content = Absent /\ was = store /\ written = Absent /\ meddled = 0

op == ops[at]
Working == phase \in {"validate", "read", "write", "remove"}
\* On to the next operation, or to the end.
Advance(next, end) ==
  IF at < Len(ops) THEN at' = at + 1 /\ phase' = next ELSE at' = 1 /\ phase' = end
Stop(end) == phase' = end /\ UNCHANGED at

-----------------------------------------------------------------------------
(* The read phase.                                                         *)

\* Mutant: that the file is there is enough.
FileThere(file, chunks) == file # Absent
Applies(file, chunks) == file # Absent /\ applyUpdateChunks(file, chunks) # Absent

validateHunks ==
  /\ phase = "validate"
  /\ IF \/ op.type \in {"update", "move"} /\ ~Applies(store[op.path], op.chunks)
        \/ op.type = "delete" /\ store[op.path] = Absent
     THEN Stop("rejected")
     ELSE Advance("validate", "read")
  /\ UNCHANGED <<backend, body, ops, content, store, was, written, meddled>>

-----------------------------------------------------------------------------
(* The write phase.                                                        *)

readExistingFile ==
  /\ phase = "read"
  /\ IF op.type \in {"update", "move"} /\ store[op.path] = Absent
     THEN Stop("broken") /\ UNCHANGED content
     ELSE phase' = "write" /\ content' = store[op.path] /\ UNCHANGED at
  /\ UNCHANGED <<backend, body, ops, store, was, written, meddled>>

\* What arrives: the shell's heredoc ends in a newline of its own.
Written(file) == IF backend = "bash" THEN Append(file, Blank) ELSE file

\* The text of a new file is its lines joined; a disk's gets a newline unless it is empty or ends in one.
AddContent ==
  LET text == IF op.content = <<>> THEN <<Blank>> ELSE op.content
  IN  IF backend = "bash" \/ Last(text) = Blank THEN text ELSE Append(text, Blank)

Target == IF op.type = "move" THEN op.target ELSE op.path
\* On yjs-fs createFile refuses a path that exists and writeFile one that does not; the
\* others overwrite and create.
Refused == backend = "yjs" /\ (store[Target] # Absent <=> op.type \in {"add", "move"})

\* A move within yjs-fs is one step, elsewhere the old file is removed in a second.
writeOp ==
  LET made == IF op.type = "add" THEN AddContent ELSE applyUpdateChunks(content, op.chunks)
      moved == op.type = "move" /\ backend = "yjs"
  IN  /\ phase = "write" /\ op.type # "delete"
      /\ content' = Absent
      /\ IF made = Absent \/ Refused THEN Stop("broken") /\ UNCHANGED <<store, written>>
         ELSE /\ store' = [p \in Paths |-> IF p = Target THEN Written(made) ELSE IF moved /\ p = op.path THEN Absent ELSE store[p]]
              /\ written' = IF op.type = "add" THEN written ELSE <<content, op.chunks, made>>
              /\ IF op.type = "move" /\ ~moved THEN phase' = "remove" /\ UNCHANGED at ELSE Advance("read", "done")
      /\ UNCHANGED <<backend, body, ops, was, meddled>>

unlinkOp ==
  /\ phase = "remove" \/ (phase = "write" /\ op.type = "delete")
  /\ content' = Absent
  /\ IF store[op.path] = Absent THEN Stop("broken") /\ UNCHANGED store
     ELSE store' = [store EXCEPT ![op.path] = Absent] /\ Advance("read", "done")
  /\ UNCHANGED <<backend, body, ops, was, written, meddled>>

\* Another program, or another call of the step.
Meddle ==
  /\ Working /\ meddled < MaxMeddling /\ meddled' = meddled + 1
  /\ \E p \in Paths, c \in Contents \cup {Absent} : c # store[p] /\ store' = [store EXCEPT ![p] = c]
  /\ UNCHANGED <<backend, body, ops, at, phase, content, was, written>>

Next == validateHunks \/ readExistingFile \/ writeOp \/ unlinkOp \/ Meddle

Spec == Init /\ [][Next]_patchVars

-----------------------------------------------------------------------------

\* What the operations make of the files, one after the other, up to blank lines at the end.
Solid(file) ==
  IF file = Absent THEN Absent
  ELSE SubSeq(file, 1, CHOOSE n \in 0..Len(file) :
                         (n = 0 \/ file[n] # Blank) /\ \A i \in (n + 1)..Len(file) : file[i] = Blank)
Effect(s, o) ==
  CASE o.type = "add" -> [s EXCEPT ![o.path] = o.content]
    [] o.type = "delete" -> [s EXCEPT ![o.path] = Absent]
    [] o.type = "update" -> [s EXCEPT ![o.path] = applyUpdateChunks(@, o.chunks)]
    [] OTHER -> [s EXCEPT ![o.target] = applyUpdateChunks(s[o.path], o.chunks), ![o.path] = Absent]
AsPatched == FoldLeft(Effect, was, ops)

Named == SelectSeq([k \in 1..(2 * Len(ops)) |-> IF k % 2 = 1 THEN ops[(k + 1) \div 2].path ELSE ops[k \div 2].target],
                   LAMBDA p : p # Absent)
NamesAFileTwice == \E i, j \in 1..Len(Named) : i # j /\ Named[i] = Named[j]
FillsAPlace == \E k \in 1..Len(ops) :
  \/ ops[k].type = "add" /\ was[ops[k].path] # Absent
  \/ ops[k].type = "move" /\ was[ops[k].target] # Absent

\* All or nothing: while nobody else writes and the patch names no file twice, a call
\* that was rejected has changed nothing, one that is done has carried out every
\* operation, and it breaks off in between only where yjs-fs finds a place taken.
AllOrNothing ==
  meddled = 0 /\ ~NamesAFileTwice =>
    /\ phase = "rejected" => store = was
    /\ phase = "done" => \A p \in Paths : Solid(store[p]) = Solid(AsPatched[p])
    /\ phase = "broken" => backend = "yjs" /\ FillsAPlace

\* after is before with the old lines of each chunk, found somewhere in the order of the
\* chunks and below their context, exchanged for its new ones, and additions at the end.
Same(a, b) == normalizeUnicode(trim(a)) = normalizeUnicode(trim(b))
Lands(before, chunks, after) ==
  \E from \in [1..Len(chunks) -> 0..Len(before)], old, new \in [1..Len(chunks) -> 0..3] :
    LET Taken(k) == (from[k] + 1)..(from[k] + old[k])
        Replaces(k) == chunks[k].old # <<>>
    IN  /\ \A k \in 1..Len(chunks) :
             /\ old[k] \in {Len(chunks[k].old), Len(WithoutLastBlank(chunks[k].old))}
             /\ new[k] \in {Len(chunks[k].new), Len(WithoutLastBlank(chunks[k].new))}
             /\ from[k] + old[k] <= Len(before)
             /\ \A i \in Taken(k) : Same(before[i], chunks[k].old[i - from[k]])
             /\ IF Replaces(k)
                THEN /\ \A j \in 1..(k - 1) : Replaces(j) => from[j] + old[j] <= from[k]
                     /\ chunks[k].context = Absent \/ \E i \in 1..from[k] : Same(before[i], chunks[k].context)
                ELSE from[k] = Addition(before, chunks[k])[1]
        /\ Solid(after) = Solid(FlattenSeq([i \in 1..(Len(before) + 1) |->
             FlattenSeq([k \in 1..Len(chunks) |-> IF from[k] = i - 1 THEN SubSeq(chunks[k].new, 1, new[k]) ELSE <<>>])
               \o (IF i > Len(before) \/ \E k \in 1..Len(chunks) : i \in Taken(k) THEN <<>> ELSE <<before[i]>>)]))

\* An update lands, except where lines are added in front of a last blank line and another
\* chunk replaces that line: the two replacements overlap.
HunksLand ==
  written # Absent =>
    LET lines == WithoutLastBlank(written[1])
    IN  \/ Lands(lines, written[2], written[3])
        \/ /\ lines # <<>> /\ Last(lines) = Blank
           /\ \E k \in 1..Len(written[2]) : written[2][k].old = <<>>
           /\ \E k \in 1..Len(written[2]) : written[2][k].old # <<>> /\ Last(written[2][k].old) = Blank
==============================================================================
