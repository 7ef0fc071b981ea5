---------------------------- MODULE CopilotChat ----------------------------
(***************************************************************************)
(* OpenAICompatibleChatLanguageModel (agentlayer-provider-github-copilot): *)
(* doStream reads deltas, each with a piece of reasoning, of text and of   *)
(* the arguments of any number of calls, and a call counts as whole when   *)
(* its arguments parse as JSON; doGenerate reads the whole message.        *)
(***************************************************************************)
EXTENDS ModelStream

CONSTANTS CallTotals, \* the calls of a message: how many pieces each has
          MaxPieces   \* pieces of text, and of reasoning, in a message

ASSUME PiecesAssumption == MaxPieces \in Nat /\ CallTotals \subseteq Seq(Nat)

TextId == <<1, 0>>
ToolId(k) == <<1, k>>

ChatInit ==
  /\ \E totals \in CallTotals :
       answer = [totals |-> totals, sent |-> [k \in DOMAIN totals |-> 0],
                 begun |-> 0, reasoning |-> 0, content |-> 0,
                 opaque |-> FALSE, finish |-> None]
  /\ parser = [calls |-> [k \in DOMAIN answer.totals |-> None],
               first |-> TRUE, reasoning |-> FALSE, text |-> FALSE,
               opaque |-> FALSE, finish |-> <<"other">>]
  /\ queue = <<Part("stream-start", None)>>

Sending == wire = "open" /\ queue = << >> /\ view.phase = "open"

\* The deltas the server may send next; `calls` are the calls they advance.
Deltas ==
  {d \in [reasoning : BOOLEAN, content : BOOLEAN, opaque : BOOLEAN,
          calls : {<< >>, <<1>>, <<2>>, <<1, 2>>}] :
     /\ d.reasoning => answer.reasoning < MaxPieces
     /\ d.content => answer.content < MaxPieces
     /\ d.reasoning \/ d.content \/ d.calls # << >>
     /\ \A n \in DOMAIN d.calls :
          LET k == d.calls[n]
          IN  /\ k \in DOMAIN answer.totals
              /\ k <= answer.begun + n
              /\ answer.sent[k] < answer.totals[k] \/ k > answer.begun}

\* The message after one more delta.
Advanced(d) ==
  [answer EXCEPT
     !.sent = [k \in DOMAIN @ |->
                 IF \E n \in DOMAIN d.calls : d.calls[n] = k /\ @[k] < answer.totals[k]
                 THEN @[k] + 1 ELSE @[k]],
     !.begun = Len(SelectSeq(d.calls, LAMBDA k : k > @)) + @,
     !.reasoning = IF d.reasoning THEN @ + 1 ELSE @,
     !.content = IF d.content THEN @ + 1 ELSE @,
     !.opaque = @ \/ d.opaque]

CallWith(whole) == <<"function", "client", IF whole THEN "whole" ELSE "cut">>

\* Mutant: a call is whole as soon as its arguments have begun.
ParsableOnceBegun(call, k) == call.pieces > 0

\* isParsableJson: the arguments have begun and no piece is missing.
Parsable(call, k) == call.pieces > 0 /\ call.pieces = answer.totals[k]

\* The call with the arguments received so far.
CompleteCall(call, k) ==
  <<Part("tool-input-end", ToolId(k)),
    PartOf("tool-call", ToolId(k), CallWith(call.pieces = answer.totals[k]))>>

\* The parser's record of call k once a delta with its next piece is read.
Grown(call, k) ==
  [pieces |-> (IF call = None THEN 0 ELSE call.pieces)
              + (IF answer.sent[k] < answer.totals[k] THEN 1 ELSE 0),
   done |-> FALSE]

\* A delta of call k: the first opens its input, each adds a piece, and the
\* piece that makes the arguments parse ends the input and makes the call.
CallParts(call, k) ==
  LET grown == Grown(call, k)
  IN  (IF call = None THEN <<Part("tool-input-start", ToolId(k))>> ELSE << >>)
      \o (IF call # None \/ grown.pieces > 0
          THEN <<Part("tool-input-delta", ToolId(k))>> ELSE << >>)
      \o (IF Parsable(grown, k) THEN CompleteCall(grown, k) ELSE << >>)

\* A piece of a call whose first delta was lost has neither id nor name.
Nameless(k) == parser.calls[k] = None /\ k <= answer.begun

CallAfter(k) ==
  LET call == parser.calls[k]
  IN  IF call # None /\ call.done THEN call
      ELSE [Grown(call, k) EXCEPT !.done = Parsable(Grown(call, k), k)]

PartsOfCall(k) ==
  LET call == parser.calls[k]
  IN  IF call # None /\ call.done THEN << >> ELSE CallParts(call, k)

\* What one delta makes the parser enqueue, in the order of the code.
ReasoningParts(d) ==
  IF ~d.reasoning THEN << >>
  ELSE (IF parser.reasoning THEN << >> ELSE <<Part("reasoning-start", TextId)>>)
       \o <<Part("reasoning-delta", TextId)>>

ReasoningActive(d) == parser.reasoning \/ d.reasoning

EndsBeforeText(d) == d.content /\ ReasoningActive(d) /\ ~parser.text

ContentParts(d) ==
  IF ~d.content THEN << >>
  ELSE (IF EndsBeforeText(d) THEN <<Part("reasoning-end", TextId)>> ELSE << >>)
       \o (IF parser.text THEN << >> ELSE <<Part("text-start", TextId)>>)
       \o <<Part("text-delta", TextId)>>

EndsBeforeCalls(d) == d.calls # << >> /\ ReasoningActive(d) /\ ~EndsBeforeText(d)

ToolParts(d) ==
  (IF EndsBeforeCalls(d) THEN <<Part("reasoning-end", TextId)>> ELSE << >>)
  \o FlattenSeq([n \in DOMAIN d.calls |-> PartsOfCall(d.calls[n])])

FirstParts == IF parser.first THEN <<Part("response-metadata", None)>> ELSE << >>

DeltaChunk(d) ==
  /\ Sending
  /\ ~(d.opaque /\ parser.opaque)
  /\ \A n \in DOMAIN d.calls : ~Nameless(d.calls[n])
  /\ answer' = Advanced(d)
  /\ parser' = [parser EXCEPT
                  !.first = FALSE,
                  !.opaque = @ \/ d.opaque,
                  !.reasoning = ReasoningActive(d) /\ ~EndsBeforeText(d)
                                /\ d.calls = << >>,
                  !.text = @ \/ d.content,
                  !.calls = [k \in DOMAIN @ |->
                               IF k \in ToSet(d.calls) THEN CallAfter(k) ELSE @[k]]]
  /\ Emit(FirstParts \o ReasoningParts(d) \o ContentParts(d) \o ToolParts(d))
  /\ UNCHANGED <<provider, wire, faults, view>>

\* A second reasoning_opaque, or a call that cannot be named: transform throws
\* and the stream errors, with whatever it had enqueued dropped.
DeltaThrows(d) ==
  /\ Sending
  /\ (d.opaque /\ parser.opaque) \/ \E n \in DOMAIN d.calls : Nameless(d.calls[n])
  /\ answer' = Advanced(d)
  /\ Over
  /\ UNCHANGED <<provider, faults, parser>>

\* A chunk that does not parse: its delta is lost.
UnparsableDelta(d) ==
  /\ Sending
  /\ faults < MaxFaults
  /\ faults' = faults + 1
  /\ answer' = Advanced(d)
  /\ parser' = [parser EXCEPT !.finish = <<"error">>]
  /\ Emit(<<Part("error", None)>>)
  /\ UNCHANGED <<provider, wire, view>>

\* A chunk with an `error` member.
ChatErrorChunk ==
  /\ Sending
  /\ faults < MaxFaults
  /\ faults' = faults + 1
  /\ parser' = [parser EXCEPT !.finish = <<"error">>]
  /\ wire' = "cut"
  /\ Emit(<<Part("error", None)>>)
  /\ UNCHANGED <<provider, answer, view>>

\* mapOpenAICompatibleFinishReason.
ChatFinishReason ==
  [reason \in {"stop", "length", "content_filter", "function_call", "tool_calls", "eos"} |->
     CASE reason \in {"stop", "length"} -> reason
       [] reason = "content_filter" -> "content-filter"
       [] reason \in {"function_call", "tool_calls"} -> "tool-calls"
       [] OTHER -> "other"]

MessageWhole == /\ answer.begun = Len(answer.totals)
                /\ answer.sent = answer.totals

\* The chunk that carries finish_reason: "length" and "content_filter" may
\* come before the message is whole.
FinishChunk ==
  /\ Sending
  /\ \E reason \in DOMAIN ChatFinishReason :
       /\ reason \notin {"length", "content_filter"} => MessageWhole
       /\ reason \in {"function_call", "tool_calls"} <=> answer.totals # << >>
                                          /\ reason \notin {"length", "content_filter", "eos"}
       /\ answer' = [answer EXCEPT !.finish = <<ChatFinishReason[reason]>>]
       /\ parser' = [parser EXCEPT !.finish = <<ChatFinishReason[reason]>>,
                                   !.first = FALSE]
  /\ wire' = "done"
  /\ Emit(FirstParts)
  /\ UNCHANGED <<provider, faults, view>>

ChatCutShort ==
  /\ wire = "open"
  /\ faults < MaxFaults
  /\ faults' = faults + 1
  /\ wire' = "cut"
  /\ UNCHANGED <<provider, answer, parser, queue, view>>

\* The calls that were begun and never parsed, in order.
UnfinishedParts ==
  FlattenSeq([k \in DOMAIN parser.calls |->
                IF parser.calls[k] # None /\ ~parser.calls[k].done
                THEN CompleteCall(parser.calls[k], k) ELSE << >>])

ChatFlush ==
  /\ wire \in {"done", "cut"} /\ queue = << >> /\ view.phase = "open"
  /\ wire' = "closed"
  /\ Emit((IF parser.reasoning THEN <<Part("reasoning-end", TextId)>> ELSE << >>)
          \o (IF parser.text THEN <<Part("text-end", TextId)>> ELSE << >>)
          \o UnfinishedParts \o <<PartOf("finish", <<1>>, parser.finish)>>)
  /\ UNCHANGED <<provider, answer, faults, parser, view>>

ChatNext ==
  /\ provider = "copilot-chat"
  /\ \/ ChatErrorChunk \/ FinishChunk \/ ChatCutShort \/ ChatFlush
     \/ \E d \in Deltas : DeltaChunk(d) \/ DeltaThrows(d) \/ UnparsableDelta(d)

-----------------------------------------------------------------------------
(* doGenerate: the content of the whole message, and its finish reason.    *)

SameAsMessage(v) ==
  /\ Size(v, <<"text", TextId>>) = answer.content
  /\ Size(v, <<"reasoning", TextId>>) = answer.reasoning
  /\ v.calls = [id \in {ToolId(k) : k \in DOMAIN answer.totals} |-> CallWith(TRUE)]
  /\ v.reason = answer.finish
=============================================================================
