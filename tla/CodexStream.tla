---------------------------- MODULE CodexStream ----------------------------
(***************************************************************************)
(* The Codex language models (agentlayer-provider-openai-codex over        *)
(* opencode-llm-vendor): a request is opened, its events run through the   *)
(* OpenAI Responses protocol, and the events it yields are enqueued for    *)
(* the reader without waiting for it.  A transport failure and a first     *)
(* event that does not come start the request again, with a new parser     *)
(* and whatever the reader has already read; an idle stream, a frame that  *)
(* does not decode and a refused event fail it for good.  The transport is *)
(* a WebSocket, opened with retries, or a POST answered with server-sent   *)
(* events, whose refusals the executor retries when their status allows.   *)
(***************************************************************************)
EXTENDS ModelStream

CONSTANTS CodexAnswers, \* the answers tried: sequences of item types
          Retries,      \* firstEventTimeoutRetries (5 in the code)
          OpenRetries,  \* attempts to open one WebSocket (5 in the code)
          StatusRetries, \* MAX_RETRIES of one POST (2 in the code)
          MaxLag        \* parts enqueued and unread at the next event

ASSUME RetriesAssumption ==
  Retries \in Nat /\ OpenRetries \in Nat /\ StatusRetries \in Nat /\ MaxLag \in Nat

At(type, part) == [type |-> type, part |-> part]

\* The events of an item; part 0 where the event has no summary_index.
CodexEventsOf ==
  [function_call |->
     <<At("added", 0), At("arguments_delta", 0), At("done", 0)>>,
   web_search_call |-> <<At("added", 0), At("done", 0)>>,
   message |-> <<At("added", 0), At("text_delta", 0), At("text_delta", 0), At("done", 0)>>,
   summary |->
     <<At("added", 0), At("part_added", 0), At("summary_delta", 0), At("part_done", 0),
       At("part_added", 1), At("summary_delta", 1), At("part_done", 1), At("done", 0)>>,
   summary_no_start |->
     <<At("part_added", 0), At("summary_delta", 0), At("part_done", 0), At("done", 0)>>,
   reasoning_text |-> <<At("reasoning_delta", 0), At("done", 0)>>,
   reasoning_empty |-> <<At("done", 0)>>]

ASSUME CodexAnswersAssumption == CodexAnswers \subseteq Seq(DOMAIN CodexEventsOf)

Kind(i) == answer.items[i]
Sent(i) == answer.sent[i] = Len(CodexEventsOf[Kind(i)])

MayFollow(i) ==
  /\ ~Sent(i)
  /\ \A j \in 1..(i - 1) :
       Sent(j) \/ (Kind(j) = "function_call" /\ Kind(i) = "function_call")

Ready == {i \in DOMAIN answer.items : MayFollow(i)}

Upcoming(i) == CodexEventsOf[Kind(i)][answer.sent[i] + 1]

\* The states of the summary parts of an item: when its first part starts, when a
\* later one does, and when one is done.
FirstStarted == [part \in {0, 1} |-> IF part = 0 THEN "active" ELSE "absent"]
LaterStarted(states, part) ==
  [p \in DOMAIN states |-> IF p = part THEN "active"
                           ELSE IF states[p] = "can-conclude" THEN "concluded"
                           ELSE states[p]]
PartDone(states, part, store) ==
  IF states = None THEN states
  ELSE [states EXCEPT ![part] = IF store THEN "concluded" ELSE "can-conclude"]

\* protocol.stream.initial: the parser of one attempt.
Initial(transport, store, attempt) ==
  [transport |-> transport, attempt |-> attempt, opens |-> 0, store |-> store,
   started |-> FALSE, productive |-> FALSE,
   text |-> {}, reasoning |-> {},
   items |-> [i \in DOMAIN answer.items |-> None],
   tools |-> {}, hasFunctionCall |-> FALSE]

\* The server-sent events provider; Codex asks for no store.
SseStarts == parser = Initial("sse", FALSE, 1)

CodexInit ==
  /\ \E items \in CodexAnswers :
       answer = [items |-> items, sent |-> [i \in DOMAIN items |-> 0],
                 ends |-> None]
  /\ \/ \E store \in BOOLEAN : parser = Initial("websocket", store, 1)
     \/ SseStarts
  /\ queue = <<Part("stream-start", None)>>

\* Ids carry the attempt: a new response has new ids.
Of(i) == <<parser.attempt, i>>
PartOfItem(i, part) == <<parser.attempt, i, part>>

Streaming == wire = "open" /\ view.phase # "over" /\ Len(queue) <= MaxLag

\* The request of one attempt, started again with a fresh parser.
Restarted ==
  /\ parser' = Initial(parser.transport, parser.store, parser.attempt + 1)
  /\ answer' = [answer EXCEPT !.sent = [i \in DOMAIN @ |-> 0]]
  /\ wire' = "connecting"
  /\ UNCHANGED <<provider, faults, queue, view>>

\* controller.error: parts not yet read are dropped with the stream.
Failed ==
  /\ Over
  /\ UNCHANGED <<provider, answer, faults, parser>>

\* retryFirstEventTimeout: retryable transport errors start again.
RetryOrFail == IF parser.attempt <= Retries THEN Restarted ELSE Failed

Connecting(transport) ==
  wire = "connecting" /\ view.phase # "over" /\ parser.transport = transport

\* One more try within this attempt.
TryAgain ==
  /\ parser' = [parser EXCEPT !.opens = @ + 1]
  /\ UNCHANGED <<provider, answer, wire, faults, queue, view>>

\* The socket is open and the request sent, or the server answers the POST with 2xx.
Connect ==
  /\ \E transport \in {"websocket", "sse"} : Connecting(transport)
  /\ wire' = "open"
  /\ UNCHANGED <<provider, answer, faults, parser, queue, view>>

\* The socket errors, closes or is not open within the connect timeout.
ConnectFails ==
  /\ Connecting("websocket")
  /\ IF parser.opens < OpenRetries THEN TryAgain ELSE RetryOrFail

\* What a refusal means: its status, unless its body says more.
Refusals == [status : {400, 401, 403, 418, 429, 503}, body : {"other", "policy", "quota"}]

statusReason(refusal) ==
  IF refusal.body = "policy" THEN "ContentPolicy"
  ELSE CASE refusal.status \in {401, 403} -> "Authentication"
         [] refusal.status = 429 -> IF refusal.body = "quota" THEN "QuotaExceeded" ELSE "RateLimit"
         [] refusal.status \in {400, 404, 409, 422} -> "InvalidRequest"
         [] refusal.status >= 500 -> "ProviderInternal"
         [] OTHER -> "UnknownProvider"

\* What HTTP does not answer is a transport failure.
Failures == {"Transport"} \cup {statusReason(refusal) : refusal \in Refusals}
RetryableReasons == {"RateLimit", "ProviderInternal", "Transport"}

\* A POST that fails is sent again by the executor; then only a transport failure
\* starts the attempt again.
PostFails ==
  /\ Connecting("sse")
  /\ \E reason \in Failures :
       IF reason \in RetryableReasons /\ parser.opens < StatusRetries THEN TryAgain
       ELSE IF reason = "Transport" THEN RetryOrFail
       ELSE Failed

\* The headers do not come in time, the executor's retries included.
HeaderTimeout == Connecting("sse") /\ RetryOrFail

\* The timer runs from the opening of the transport.
FirstEventTimeout ==
  /\ wire = "connecting" \/ Streaming
  /\ view.phase # "over" /\ ~parser.started
  /\ RetryOrFail

\* Mutant: only a stream that has yielded something is taken for idle.
IdleOnceProductive == Streaming /\ parser.started /\ parser.productive /\ Failed

\* Silence after the first event is not retried.
EventIdleTimeout == Streaming /\ parser.started /\ Failed

\* The socket errors or is closed with an error code.
TransportFails == Streaming /\ parser.transport = "websocket" /\ RetryOrFail

\* The body of a POST breaks off: what is not known for a transport error is final.
StreamReadFails == Streaming /\ parser.transport = "sse" /\ (RetryOrFail \/ Failed)

\* An event past maxStreamDuration fails the stream, with a retryable error.
MaxDuration ==
  /\ Streaming /\ parser.started
  /\ Ready # {}
  /\ RetryOrFail

BadFrame == Streaming /\ Failed

\* The socket is closed with code 1000 or 1005, or the body is over: the stream just ends.
CleanClose ==
  /\ Streaming
  /\ wire' = "closed"
  /\ UNCHANGED <<provider, answer, faults, parser, queue, view>>

\* The abort signal closes the controller: parts already enqueued are read.
CodexAbort ==
  /\ wire \in {"connecting", "open"} /\ view.phase # "over"
  /\ wire' = "closed"
  /\ UNCHANGED <<provider, answer, faults, parser, queue, view>>

\* step is given the next event of item i, of one of `types`; the parser
\* becomes `next` and the parts `out` are enqueued.
Step(i, types, next, out) ==
  /\ Streaming
  /\ Upcoming(i).type \in types
  /\ answer' = [answer EXCEPT !.sent[i] = @ + 1]
  /\ parser' = [next EXCEPT !.started = TRUE, !.productive = @ \/ out # << >>]
  /\ Emit(out)
  /\ UNCHANGED <<provider, wire, faults, view>>

\* The event that ends a first silence of the model counts as too late even
\* when it is productive: its parts are not emitted.
ProductiveFirstTimeout == Streaming /\ ~parser.productive /\ Ready # {} /\ RetryOrFail

ReasoningStarts(id) ==
  IF id \in parser.reasoning THEN << >> ELSE <<Part("reasoning-start", id)>>

ReasoningEnds(ids) ==
  [n \in DOMAIN ids |-> Part("reasoning-end", ids[n])]

\* The summary parts of item i in one of `states`, open ones only, in order.
PartsIn(i, states) ==
  LET In(part) == IF parser.items[i][part] \in states /\ PartOfItem(i, part) \in parser.reasoning
                  THEN <<PartOfItem(i, part)>> ELSE << >>
  IN  In(0) \o In(1)

OnOutputTextDelta(i) ==
  Step(i, {"text_delta"},
       [parser EXCEPT !.text = @ \cup {Of(i)}],
       (IF Of(i) \in parser.text THEN << >> ELSE <<Part("text-start", Of(i))>>)
       \o <<Part("text-delta", Of(i))>>)

OnReasoningDelta(i) ==
  LET id == IF Upcoming(i).type = "summary_delta" \/ parser.items[i] # None
            THEN PartOfItem(i, Upcoming(i).part) ELSE Of(i)
  IN  Step(i, {"summary_delta", "reasoning_delta"},
           [parser EXCEPT !.reasoning = @ \cup {id}],
           ReasoningStarts(id) \o <<Part("reasoning-delta", id)>>)

OnReasoningAdded(i) ==
  /\ Kind(i) = "summary"
  /\ Step(i, {"added"},
          [parser EXCEPT !.reasoning = @ \cup {PartOfItem(i, 0)},
                         !.items[i] = FirstStarted],
          ReasoningStarts(PartOfItem(i, 0)))

\* ToolStream: the calls whose arguments are being collected.
start(tools, i) == tools \cup {i}
finishWithInput(tools, i) == tools \ {i}
appendExisting(tools, i) == IF i \in tools THEN <<Part("tool-input-delta", Of(i))>> ELSE None

OnFunctionCallAdded(i) ==
  /\ Kind(i) = "function_call"
  /\ Step(i, {"added"}, [parser EXCEPT !.tools = start(@, i)],
          <<Part("tool-input-start", Of(i))>>)

\* Items whose start says nothing, and a message's end.
OnOtherItem(i) ==
  \/ Kind(i) \in {"message", "web_search_call"} /\ Step(i, {"added"}, parser, << >>)
  \/ Kind(i) = "message" /\ Step(i, {"done"}, parser, << >>)

\* The first part of an item opens it, unless its start did; the start of a
\* later part ends the parts that may conclude.
OnReasoningSummaryPartAdded(i) ==
  LET part  == Upcoming(i).part
      ended == PartsIn(i, {"can-conclude"})
      known == parser.items[i] # None
  IN  IF part = 0
      THEN Step(i, {"part_added"},
                IF known THEN parser
                ELSE [parser EXCEPT !.reasoning = @ \cup {PartOfItem(i, 0)},
                                    !.items[i] = FirstStarted],
                IF known THEN << >> ELSE ReasoningStarts(PartOfItem(i, 0)))
      ELSE Step(i, {"part_added"},
                [parser EXCEPT
                   !.reasoning = (@ \ ToSet(ended)) \cup {PartOfItem(i, part)},
                   !.items[i] = LaterStarted(@, part)],
                ReasoningEnds(ended) \o ReasoningStarts(PartOfItem(i, part)))

\* Stored responses end a part when it is done; without a store it may still
\* receive the encrypted content of the item.
OnReasoningSummaryPartDone(i) ==
  LET part == Upcoming(i).part
      id == PartOfItem(i, part)
      ends == parser.store /\ id \in parser.reasoning
  IN  Step(i, {"part_done"},
           [parser EXCEPT
              !.reasoning = IF ends THEN @ \ {id} ELSE @,
              !.items[i] = PartDone(@, part, parser.store)],
           IF ends THEN <<Part("reasoning-end", id)>> ELSE << >>)

OnFunctionCallArgumentsDelta(i) ==
  /\ i \in parser.tools
  /\ Step(i, {"arguments_delta"}, parser, appendExisting(parser.tools, i))

CallOf(i) == PartOf("tool-call", Of(i), <<Kind(i), "client">>)

OnFunctionCallDone(i) ==
  /\ Kind(i) = "function_call"
  /\ Step(i, {"done"},
          [parser EXCEPT !.tools = finishWithInput(@, i), !.hasFunctionCall = TRUE],
          <<Part("tool-input-end", Of(i)), CallOf(i)>>)

\* A tool the provider ran: its call is a part, its result is not.
OnHostedToolDone(i) ==
  /\ Kind(i) = "web_search_call"
  /\ Step(i, {"done"}, parser, <<CallOf(i)>>)

OnReasoningDone(i) ==
  /\ Kind(i) \in {"summary", "summary_no_start", "reasoning_text", "reasoning_empty"}
  /\ LET ended == PartsIn(i, {"active", "can-conclude"})
     IN  IF parser.items[i] # None
         THEN Step(i, {"done"},
                   [parser EXCEPT !.reasoning = @ \ ToSet(ended),
                                  !.items[i] = None],
                   ReasoningEnds(ended))
         ELSE IF Of(i) \in parser.reasoning
         THEN Step(i, {"done"}, [parser EXCEPT !.reasoning = @ \ {Of(i)}],
                   ReasoningEnds(<<Of(i)>>))
         ELSE Step(i, {"done"}, parser,
                   <<Part("reasoning-start", Of(i)), Part("reasoning-end", Of(i))>>)

\* The orders in which the blocks of a set may be closed at the end; the code has
\* them in the order in which they were opened.
Orders(ids) == {order \in [1..Cardinality(ids) -> ids] : IsInjective(order)}

\* convertFinishReason after mapFinishReason.
CodexFinishReason(ends) ==
  CASE ends = "none" -> IF parser.hasFunctionCall THEN "tool-calls" ELSE "stop"
    [] ends = "max_output_tokens" -> "length"
    [] ends = "content_filter" -> "content-filter"
    [] OTHER -> IF parser.hasFunctionCall THEN "tool-calls" ELSE "other"

\* response.completed, or response.incomplete at any point: closeOpenBlocks,
\* finish, and the stream of events ends.
OnResponseFinish ==
  /\ Streaming
  /\ \E ends \in {"none", "max_output_tokens", "content_filter", "unknown"} :
       /\ ends = "none" => \A i \in DOMAIN answer.items : Sent(i)
       /\ answer' = [answer EXCEPT !.ends = <<ends>>]
       /\ \E thoughts \in Orders(parser.reasoning), texts \in Orders(parser.text) :
            Emit(ReasoningEnds(thoughts)
               \o [n \in DOMAIN texts |-> Part("text-end", texts[n])]
               \o <<PartOf("finish", <<parser.attempt>>, <<CodexFinishReason(ends)>>)>>)
  /\ parser' = [parser EXCEPT !.text = {}, !.reasoning = {}, !.started = TRUE]
  /\ wire' = "closed"
  /\ UNCHANGED <<provider, faults, view>>

\* response.failed ends the stream of events; an `error` event does not.
OnProviderError ==
  /\ Streaming
  /\ faults < MaxFaults
  /\ faults' = faults + 1
  /\ parser' = [parser EXCEPT !.started = TRUE, !.productive = TRUE]
  /\ wire' \in {"open", "closed"}
  /\ Emit(<<Part("error", None)>>)
  /\ UNCHANGED <<provider, answer, view>>

OnCodexItem(i) ==
  \/ OnOutputTextDelta(i) \/ OnReasoningDelta(i) \/ OnReasoningAdded(i)
  \/ OnFunctionCallAdded(i) \/ OnOtherItem(i) \/ OnReasoningSummaryPartAdded(i)
  \/ OnReasoningSummaryPartDone(i) \/ OnFunctionCallArgumentsDelta(i)
  \/ OnFunctionCallDone(i) \/ OnHostedToolDone(i) \/ OnReasoningDone(i)

Timeouts ==
  \/ Connect \/ ConnectFails \/ PostFails \/ HeaderTimeout
  \/ FirstEventTimeout \/ EventIdleTimeout

CodexNext ==
  /\ provider = "codex"
  /\ \/ Timeouts \/ TransportFails \/ StreamReadFails \/ MaxDuration \/ BadFrame \/ CleanClose
     \/ ProductiveFirstTimeout \/ CodexAbort \/ OnResponseFinish \/ OnProviderError
     \/ \E i \in Ready : OnCodexItem(i)

-----------------------------------------------------------------------------
(* What the items of one response amount to, for the attempt that finished. *)

CodexItems(types) == {i \in DOMAIN answer.items : Kind(i) \in types}

SameAsAnswered(v, attempt) ==
  LET mine(f) == {id \in f : Head(id) = attempt}
  IN  /\ \A i \in CodexItems({"message"}) :
           Size(v, <<"text", <<attempt, i>>>>) = 2
      /\ \A i \in CodexItems({"summary"}) : \A part \in {0, 1} :
           Size(v, <<"reasoning", <<attempt, i, part>>>>) = 1
      /\ mine(DOMAIN v.calls) =
           {<<attempt, i>> : i \in CodexItems({"function_call", "web_search_call"})}
      /\ v.reason = <<IF CodexItems({"function_call"}) = {} THEN "stop"
                      ELSE "tool-calls">>
=============================================================================
