------------------------------ MODULE FileState ------------------------------
(***************************************************************************)
(* The file state hooks of agentlayer-filesystem around the file tools of  *)
(* an agent.  What the agent has read or written is remembered as hashes:  *)
(* a second read of lines in the context is answered by a reminder, and a  *)
(* write to a file whose content was never read is refused.  The calls of  *)
(* a step run in parallel, other programs change files, and a compaction   *)
(* removes results from the context.                                       *)
(* A content stands for its own hash.  write and the add and update        *)
(* operations of apply_patch are one operation, for the hooks treat them   *)
(* alike; a patch has one operation.  A move may edit the file it moves:   *)
(* text is the content at its new place.  The string an edit replaces is   *)
(* in one content, old, once; in another it may be twice.                  *)
(***************************************************************************)
EXTENDS Naturals, Sequences

CONSTANTS
  Paths, Contents,
  NoFile,      \* content of a path without a file, and hash of an absent entry
  NumLines,    \* lines of every content
  MaxKept,     \* lines createReadTruncationHook lets through
  Multimodal,  \* the read tool is createReadMultimodalTool: its raw output is no string
  Batches,     \* the calls a message of the model may have, in message order
  MaxFileCalls, \* bound: tool calls of the model
  MaxChanges    \* bound: changes by other programs

Lines == 1..NumLines
Hashes == Contents \cup {NoFile}
AnyCall ==
  [tool : {"read"}, path : Paths, first : Lines, last : Lines]
    \cup [tool : {"write"}, path : Paths, text : Contents]
    \cup [tool : {"edit"}, path : Paths, old : Contents, text : Contents]
    \cup [tool : {"delete"}, path : Paths]
    \cup [tool : {"move"}, path : Paths, to : Paths, text : Contents]
Call == {c \in AnyCall : /\ c.tool = "read" => c.first <= c.last
                         /\ c.tool = "edit" => c.old # c.text
                         /\ c.tool = "move" => c.to # c.path}

ASSUME FileStateAssumption ==
  /\ NoFile \notin Contents /\ Contents # {}
  /\ NumLines \in Nat \ {0} /\ MaxKept \in Nat \ {0} /\ MaxKept <= NumLines
  /\ Batches \subseteq Seq(Call) \ {<<>>}
  /\ Multimodal \in BOOLEAN /\ MaxFileCalls \in Nat /\ MaxChanges \in Nat

VARIABLES
  disk,      \* the files
  readState, \* FileReadStateMap: hash last read and the lines of it that were asked for
  verified,  \* FileVerificationStateMap
  calls,     \* the parallel calls of the step, in message order
  progress,  \* of each call: new, go (the hooks let it pass), edit (found its string), ran, tracked; or done: refused or failed
  out,       \* of each call: the content read, or the hash taken after it ran
  made, changes,
  seen,      \* history: <<content, line>> in the context
  raced      \* history: files another program changed while a call was at work on them

fileVars == <<disk, readState, verified, calls, progress, out, made, changes, seen, raced>>

Targets(c) == {c.path} \cup IF c.tool = "move" THEN {c.to} ELSE {}
Requested(c) == c.first..c.last
NoEntry == [hash |-> NoFile, lines |-> {}]
Nothing == [p \in Paths |-> NoFile]

FileStateInit ==
  /\ disk \in [Paths -> Hashes]
  /\ readState = [p \in Paths |-> NoEntry] /\ verified = Nothing
  /\ calls = <<>> /\ progress = <<>> /\ out = <<>>
  /\ made = 0 /\ changes = 0 /\ seen = {} /\ raced = {}

-----------------------------------------------------------------------------
(* The model and the hooks before the tools.                               *)

\* The model knows the texts it writes.
ModelCalls(batch) ==
  /\ made + Len(batch) <= MaxFileCalls
  /\ calls' = batch
  /\ progress' = [i \in DOMAIN batch |-> "new"]
  /\ out' = [i \in DOMAIN batch |-> NoFile]
  /\ made' = made + Len(batch)
  /\ seen' = seen \cup ({batch[i].text : i \in {j \in DOMAIN batch : batch[j].tool = "write"}} \X Lines)
  /\ UNCHANGED <<disk, readState, verified, changes, raced>>

\* createWastedReadHook: the requested lines are those of an earlier read of this content.
Wasted(c) ==
  /\ disk[c.path] # NoFile
  /\ disk[c.path] = readState[c.path].hash
  /\ disk[c.path] = verified[c.path]
  /\ Requested(c) \subseteq readState[c.path].lines

\* Mutant: any earlier read will do.
OnceRead(c) == \A p \in Targets(c) : disk[p] # NoFile => verified[p] # NoFile
\* createReadBeforeWriteHook.
MayWrite(c) == \A p \in Targets(c) : disk[p] # NoFile => verified[p] = disk[p]

PreToolUse(i) ==
  /\ progress[i] = "new"
  /\ progress' = [progress EXCEPT ![i] =
       IF calls[i].tool = "read"
       THEN IF Wasted(calls[i]) THEN "done" ELSE "go"
       ELSE IF MayWrite(calls[i]) THEN "go" ELSE "done"]
  /\ UNCHANGED <<disk, readState, verified, calls, out, made, changes, seen, raced>>

-----------------------------------------------------------------------------
(* The tools.  A failed one is not seen by the hook after it.              *)

Fails(i) ==
  /\ progress[i] = "go" /\ calls[i].tool # "write" /\ disk[calls[i].path] = NoFile
  /\ progress' = [progress EXCEPT ![i] = "done"]
  /\ UNCHANGED <<disk, readState, verified, calls, out, made, changes, seen, raced>>

Read(i) ==
  /\ progress[i] = "go" /\ calls[i].tool = "read" /\ disk[calls[i].path] # NoFile
  /\ progress' = [progress EXCEPT ![i] = "ran"]
  /\ out' = [out EXCEPT ![i] = disk[calls[i].path]]
  /\ UNCHANGED <<disk, readState, verified, calls, made, changes, seen, raced>>

Mutated(c) ==
  CASE c.tool = "write" -> [disk EXCEPT ![c.path] = c.text]
    [] c.tool = "delete" -> [disk EXCEPT ![c.path] = NoFile]
    [] c.tool = "move" -> [disk EXCEPT ![c.to] = c.text, ![c.path] = NoFile]

Mutate(i) ==
  LET c == calls[i]
  IN  /\ progress[i] = "go" /\ c.tool \notin {"read", "edit"}
      /\ c.tool # "write" => disk[c.path] # NoFile
      /\ progress' = [progress EXCEPT ![i] = "ran"]
      /\ disk' = Mutated(c)
      /\ raced' = raced \cup IF c.path \in raced THEN Targets(c) ELSE {}
      /\ seen' = IF c.tool = "move" THEN seen \cup ({c.text} \X Lines) ELSE seen
      /\ UNCHANGED <<readState, verified, calls, out, made, changes>>

\* An edit whose string is not found says so and succeeds; one found twice fails.
FindString(i) ==
  LET c == calls[i]
  IN  /\ progress[i] = "go" /\ c.tool = "edit" /\ disk[c.path] # NoFile
      /\ \E s \in (IF disk[c.path] = c.old THEN {"edit"} ELSE {"ran", "done"}) :
           progress' = [progress EXCEPT ![i] = s]
      /\ UNCHANGED <<disk, readState, verified, calls, out, made, changes, seen, raced>>

\* The text is made of what was read, whatever the file is by now.
WriteEdited(i) ==
  LET c == calls[i]
  IN  /\ progress[i] = "edit" /\ progress' = [progress EXCEPT ![i] = "ran"]
      /\ disk' = [disk EXCEPT ![c.path] = c.text]
      /\ seen' = seen \cup ({c.text} \X Lines)
      /\ UNCHANGED <<readState, verified, calls, out, made, changes, raced>>

-----------------------------------------------------------------------------
(* createFileStateTrackingHook and the merge at the end of the step.       *)

\* The hash the hook takes: of the text that was read, or of the file as it is now.
Snapshot(i) ==
  IF calls[i].tool = "read" /\ ~Multimodal THEN out[i]
  ELSE disk[IF calls[i].tool = "move" THEN calls[i].to ELSE calls[i].path]

\* The lines of the result that reach the model are those of the content that was read.
Shown(i) ==
  IF calls[i].tool # "read" THEN {}
  ELSE {out[i]} \X {l \in Requested(calls[i]) : l < calls[i].first + MaxKept}

PostToolUse(i) ==
  /\ progress[i] = "ran"
  /\ progress' = [progress EXCEPT ![i] = "tracked"]
  /\ out' = [out EXCEPT ![i] = Snapshot(i)]
  /\ seen' = seen \cup Shown(i)
  /\ UNCHANGED <<disk, readState, verified, calls, made, changes, raced>>

\* Mutant: lines of an older content count for the new one.
AllLines(entry, c, hash) == [hash |-> hash, lines |-> entry.lines \cup Requested(c)]
\* setReadObservation.
ReadObservation(entry, c, hash) ==
  [hash |-> hash, lines |-> Requested(c) \cup IF entry.hash = hash THEN entry.lines ELSE {}]

\* applyFileReadStateActions, for the update of call i.
ReadUpdate(m, i) ==
  LET c == calls[i]
  IN  CASE c.tool = "read" /\ out[i] # NoFile ->
             [m EXCEPT ![c.path] = ReadObservation(@, c, out[i])]
        [] c.tool = "delete" -> [m EXCEPT ![c.path] = NoEntry]
        [] c.tool = "move" ->
             [m EXCEPT ![c.path] = NoEntry,
                       ![c.to] = IF out[i] # NoFile /\ m[c.path].hash = out[i] THEN m[c.path] ELSE @]
        [] OTHER -> m

\* applyFileVerificationStateActions.
VerificationUpdate(m, i) ==
  LET c == calls[i]
  IN  CASE c.tool \in {"read", "write", "edit"} /\ out[i] # NoFile -> [m EXCEPT ![c.path] = out[i]]
        [] c.tool = "delete" -> [m EXCEPT ![c.path] = NoFile]
        [] c.tool = "move" ->
             [m EXCEPT ![c.path] = NoFile, ![c.to] = IF out[i] # NoFile THEN out[i] ELSE @]
        [] OTHER -> m

\* mergeHookStateUpdates: in the order of the calls, whatever order they ended in.  The
\* hook states after the first k of them.
Merged[k \in 0..Len(calls)] ==
  IF k = 0 THEN [read |-> readState, verified |-> verified]
  ELSE IF progress[k] = "tracked"
  THEN [read |-> ReadUpdate(Merged[k - 1].read, k), verified |-> VerificationUpdate(Merged[k - 1].verified, k)]
  ELSE Merged[k - 1]

Settle ==
  /\ calls # <<>> /\ \A i \in DOMAIN calls : progress[i] \in {"done", "tracked"}
  /\ readState' = Merged[Len(calls)].read /\ verified' = Merged[Len(calls)].verified
  /\ calls' = <<>> /\ progress' = <<>> /\ out' = <<>>
  /\ UNCHANGED <<disk, made, changes, seen, raced>>

-----------------------------------------------------------------------------
(* Compaction, and other programs.                                         *)

\* Mutant: no compaction hook is installed.
KeptEvidence == readState
\* createFileStateCompactionHook.
DroppedEvidence == [p \in Paths |-> NoEntry]

DropEvidence ==
  /\ calls = <<>> /\ seen # {}
  /\ readState' = DroppedEvidence /\ verified' = Nothing
  /\ seen' = {} /\ raced' = {}
  /\ UNCHANGED <<disk, calls, progress, out, made, changes>>

AtWork(p) == \E i \in DOMAIN calls : progress[i] \in {"go", "edit", "ran"} /\ p \in Targets(calls[i])

OtherProgram(p, content) ==
  /\ changes < MaxChanges /\ content # disk[p]
  /\ disk' = [disk EXCEPT ![p] = content] /\ changes' = changes + 1
  /\ raced' = IF AtWork(p) THEN raced \cup {p} ELSE raced
  /\ UNCHANGED <<readState, verified, calls, progress, out, made, seen>>

-----------------------------------------------------------------------------

FileStateNext ==
  \/ calls = <<>> /\ \E batch \in Batches : ModelCalls(batch)
  \/ \E i \in DOMAIN calls :
       \/ PreToolUse(i) \/ Fails(i) \/ PostToolUse(i)
       \/ Read(i) \/ Mutate(i) \/ FindString(i) \/ WriteEdited(i)
  \/ Settle
  \/ DropEvidence
  \/ \E p \in Paths, content \in Hashes : OtherProgram(p, content)

FileStateSpec == FileStateInit /\ [][FileStateNext]_fileVars

-----------------------------------------------------------------------------

\* A read that is answered with "already in your context" asked for lines of the present
\* content of the file, all of which the model has been shown since the last compaction.
WastedReadTruthful ==
  [][\A i \in DOMAIN calls :
       progress[i] = "new" /\ progress' # <<>> /\ progress'[i] = "done" /\ calls[i].tool = "read"
         => {disk[calls[i].path]} \X Requested(calls[i]) \subseteq seen]_fileVars

\* No call replaces, moves or deletes a content the model has not seen since the last
\* compaction, save where another program changed the file while a call was at work on it.
NoBlindOverwrite ==
  [][\A p \in Paths :
       progress' # progress /\ disk[p] # NoFile /\ disk'[p] # disk[p]
         => p \in raced \/ \E l \in Lines : <<disk[p], l>> \in seen]_fileVars
=============================================================================
