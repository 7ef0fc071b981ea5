------------------------------ MODULE MCContext ------------------------------
(***************************************************************************)
(* What a run has in its context, from two sides that share no state here: *)
(* the messages that compaction replaces, and the evidence that files have *)
(* been read.  Init chooses the subject, the other one does not move.      *)
(* Two files and two contents, which nothing tells apart; at most two      *)
(* calls at once.                                                          *)
(***************************************************************************)
EXTENDS Compaction, FileState, TLC

CONSTANTS f, g, a, b
MCBatches == {<<c>> : c \in Call} \cup {<<c, d>> : c, d \in Call}
Symmetry == Permutations({f, g}) \cup Permutations({a, b})

VARIABLE subject

ContextInit ==
  /\ Init /\ FileStateInit
  /\ \/ subject = "messages" /\ \A p \in Paths : disk[p] = NoFile
     \/ subject = "files"

ContextNext ==
  \/ subject = "messages" /\ Next /\ UNCHANGED <<subject, fileVars>>
  \/ subject = "files" /\ FileStateNext /\ UNCHANGED <<subject, vars>>

ContextSpec == ContextInit /\ [][ContextNext]_<<subject, vars, fileVars>>
=============================================================================
