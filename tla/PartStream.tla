----------------------------- MODULE PartStream -----------------------------
(***************************************************************************)
(* What every language model of the repository promises to the code that   *)
(* reads its stream (codelayer/src/providers.ts hands any of them to the   *)
(* same Agent): parts arrive one at a time, a block grows and ends only    *)
(* while it is open, a tool is called only once its input has ended and    *)
(* never twice under one id, and the part that finishes the stream comes   *)
(* once and last, with no text block of its attempt left open.  After an   *)
(* error part all that is left of this is that the stream begins with its  *)
(* first part and that nothing follows its finish.                         *)
(***************************************************************************)
EXTENDS Naturals, Sequences, FiniteSets

CONSTANT Ids \* what names a block or a call: sequences of numbers

VARIABLES phase,   \* "fresh", then "open", then "finished" or "over"
          open,    \* the blocks that have started and not ended
          called,  \* the ids of the tool calls made
          errored, \* an error part has been read
          last     \* the part read last

vars == <<phase, open, called, errored, last>>

Blocks == {"text", "reasoning", "tool-input"}

\* The names of the three parts of a block.
Start(kind) == CASE kind = "text" -> "text-start" [] kind = "reasoning" -> "reasoning-start" [] OTHER -> "tool-input-start"
Delta(kind) == CASE kind = "text" -> "text-delta" [] kind = "reasoning" -> "reasoning-delta" [] OTHER -> "tool-input-delta"
End(kind)   == CASE kind = "text" -> "text-end" [] kind = "reasoning" -> "reasoning-end" [] OTHER -> "tool-input-end"

Nothing == [type |-> "none", id |-> << >>]

\* The number of the attempt an id belongs to is its first element.
SameAttempt(a, b) == Head(a) = Head(b)

Init ==
  /\ phase = "fresh"
  /\ open = {}
  /\ called = {}
  /\ errored = FALSE
  /\ last = Nothing

Begin ==
  /\ phase = "fresh"
  /\ phase' = "open"
  /\ last' = [type |-> "stream-start", id |-> << >>]
  /\ UNCHANGED <<open, called, errored>>

OpenBlock(kind, id) ==
  /\ phase = "open"
  /\ errored \/ <<kind, id>> \notin open
  /\ open' = open \cup {<<kind, id>>}
  /\ last' = [type |-> Start(kind), id |-> id]
  /\ UNCHANGED <<phase, called, errored>>

GrowBlock(kind, id) ==
  /\ phase = "open"
  /\ errored \/ <<kind, id>> \in open
  /\ last' = [type |-> Delta(kind), id |-> id]
  /\ UNCHANGED <<phase, open, called, errored>>

CloseBlock(kind, id) ==
  /\ phase = "open"
  /\ errored \/ <<kind, id>> \in open
  /\ open' = open \ {<<kind, id>>}
  /\ last' = [type |-> End(kind), id |-> id]
  /\ UNCHANGED <<phase, called, errored>>

Call(id) ==
  /\ phase = "open"
  /\ errored \/ (id \notin called /\ <<"tool-input", id>> \notin open)
  /\ called' = called \cup {id}
  /\ last' = [type |-> "tool-call", id |-> id]
  /\ UNCHANGED <<phase, open, errored>>

\* A result of a tool the provider ran: only for a call that was made.
Result(id) ==
  /\ phase = "open"
  /\ errored \/ id \in called
  /\ last' = [type |-> "tool-result", id |-> id]
  /\ UNCHANGED <<phase, open, called, errored>>

Note(type) ==
  /\ phase = "open"
  /\ last' = [type |-> type, id |-> << >>]
  /\ UNCHANGED <<phase, open, called, errored>>

Fail ==
  /\ phase = "open"
  /\ errored' = TRUE
  /\ last' = [type |-> "error", id |-> << >>]
  /\ UNCHANGED <<phase, open, called>>

Finish(id) ==
  /\ phase = "open"
  /\ errored \/ \A b \in open : b[1] = "text" => ~SameAttempt(b[2], id)
  /\ phase' = "finished"
  /\ last' = [type |-> "finish", id |-> id]
  /\ UNCHANGED <<open, called, errored>>

\* The stream ends: closed after its last part, errored, or cancelled.
Close ==
  /\ phase # "over"
  /\ phase' = "over"
  /\ UNCHANGED <<open, called, errored, last>>

Next ==
  \/ Begin \/ Fail \/ Close
  \/ \E type \in {"response-metadata", "source"} : Note(type)
  \/ \E id \in {last'.id} \cap Ids : \* the id the next part carries
       \/ Call(id) \/ Result(id) \/ Finish(id)
       \/ \E kind \in Blocks :
            OpenBlock(kind, id) \/ GrowBlock(kind, id) \/ CloseBlock(kind, id)

Spec == Init /\ [][Next]_vars
=============================================================================
