---------------------------- MODULE ModelStream ----------------------------
(***************************************************************************)
(* What the three language models share: a response body read chunk by     *)
(* chunk (`wire`, `answer`), the parser's locals (`parser`), the parts it  *)
(* has enqueued (`queue`) and what their reader has made of them (`view`). *)
(* One part is read per step; the TransformStreams of the Copilot models   *)
(* take the next chunk only when the reader has drained their queue.       *)
(***************************************************************************)
EXTENDS Naturals, Sequences, FiniteSets, SequencesExt, Functions

CONSTANT MaxFaults \* chunks lost, early ends and retries of one stream

ASSUME FaultsAssumption == MaxFaults \in Nat

VARIABLES provider, \* which language model serves the turn
          answer,   \* what the server answers, and how far it has come
          wire,     \* the body: "open", "done" (finished), "cut", "closed"
          faults,   \* faults so far
          parser,   \* the locals of doStream's closures
          queue,    \* parts enqueued and not read
          view      \* the reader: what it knows from the parts it has read

streamVars == <<provider, answer, wire, faults, parser, queue, view>>

None == << >>

\* A part; its data, where a property reads them, are a tuple of strings.
Part(type, id) == [type |-> type, id |-> id, data |-> None]
PartOf(type, id, data) == [type |-> type, id |-> id, data |-> data]

Fresh == [phase |-> "fresh", open |-> {}, errored |-> FALSE,
          last |-> [type |-> "none", id |-> << >>],
          sizes |-> << >>, calls |-> << >>, results |-> << >>,
          reason |-> None]

StartTypes == {"text-start", "reasoning-start", "tool-input-start"}
DeltaTypes == {"text-delta", "reasoning-delta", "tool-input-delta"}
EndTypes == {"text-end", "reasoning-end", "tool-input-end"}
KindOf(type) ==
  CASE type \in {"text-start", "text-delta", "text-end"} -> "text"
    [] type \in {"reasoning-start", "reasoning-delta", "reasoning-end"} -> "reasoning"
    [] OTHER -> "tool-input"

With(f, x, y) == [z \in DOMAIN f \cup {x} |-> IF z = x THEN y ELSE f[z]]

\* The size of a block in deltas; 0 before the first.
Size(v, block) == IF block \in DOMAIN v.sizes THEN v.sizes[block] ELSE 0

\* What the reader knows after one more part.
Read(v, p) ==
  LET seen  == [v EXCEPT !.last = [type |-> p.type, id |-> p.id]]
      block == <<KindOf(p.type), p.id>>
  IN  CASE p.type = "stream-start" -> [seen EXCEPT !.phase = "open"]
        [] p.type \in StartTypes ->
             [seen EXCEPT !.open = @ \cup {block},
                          !.sizes = With(@, block, Size(v, block))]
        [] p.type \in DeltaTypes ->
             [seen EXCEPT !.sizes = With(@, block, Size(v, block) + 1)]
        [] p.type \in EndTypes -> [seen EXCEPT !.open = @ \ {block}]
        [] p.type = "tool-call" ->
             [seen EXCEPT !.calls = With(@, p.id, p.data)]
        [] p.type = "tool-result" ->
             [seen EXCEPT !.results = With(@, p.id, p.data)]
        [] p.type = "error" -> [seen EXCEPT !.errored = TRUE]
        [] p.type = "finish" -> [seen EXCEPT !.phase = "finished",
                                             !.reason = p.data]
        [] OTHER -> seen

\* One part leaves the queue and is read.
Deliver ==
  /\ view.phase # "over"
  /\ queue # << >>
  /\ view' = Read(view, Head(queue))
  /\ queue' = Tail(queue)
  /\ UNCHANGED <<provider, answer, wire, faults, parser>>

\* The stream is over for its reader: what was still queued is dropped.
Over == /\ view' = [view EXCEPT !.phase = "over"]
        /\ queue' = << >>
        /\ wire' = "closed"

\* The body ends with every part read: the stream is closed.
Closed ==
  /\ view.phase # "over"
  /\ wire = "closed"
  /\ queue = << >>
  /\ Over
  /\ UNCHANGED <<provider, answer, faults, parser>>

\* The signal of the call is aborted, or the reader cancels the stream.
Abort ==
  /\ view.phase # "over"
  /\ faults < MaxFaults
  /\ faults' = faults + 1
  /\ Over
  /\ UNCHANGED <<provider, answer, parser>>

\* controller.enqueue, part by part.
Emit(parts) == queue' = queue \o parts
=============================================================================
