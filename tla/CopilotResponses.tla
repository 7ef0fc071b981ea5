-------------------------- MODULE CopilotResponses --------------------------
(***************************************************************************)
(* OpenAIResponsesLanguageModel (agentlayer-provider-github-copilot):      *)
(* doStream reads the events of a response and writes parts, doGenerate    *)
(* reads the finished response at once.  The server streams the items of a *)
(* response in order, function calls possibly side by side; Copilot leaves *)
(* out the start of some messages and gives text and reasoning events a    *)
(* new item id each time.                                                  *)
(***************************************************************************)
EXTENDS ModelStream

CONSTANTS
  Answers,          \* the answers tried: sequences of item types
  webSearchToolName \* the one name of the hosted web search among the caller's tools, or None

E(type) == [type |-> type, part |-> 0]

\* The events of an item, in the order the server sends them.
EventsOf ==
  [function_call |-> <<E("added"), E("arguments_delta"), E("done")>>,
   web_search_call |-> <<E("added"), E("done")>>,
   computer_call |-> <<E("added"), E("done")>>,
   file_search_call |-> <<E("added"), E("done")>>,
   code_interpreter_call |->
     <<E("added"), E("code_delta"), E("code_done"), E("done")>>,
   image_generation_call |-> <<E("added"), E("partial_image"), E("done")>>,
   local_shell_call |-> <<E("added"), E("done")>>,
   message |->
     <<E("added"), E("text_delta"), E("text_delta"), E("annotation"), E("done")>>,
   bare_message |-> <<E("text_delta"), E("text_delta"), E("done")>>,
   reasoning |->
     <<E("added"), E("summary_part"), E("summary_delta"),
       [type |-> "summary_part", part |-> 1],
       [type |-> "summary_delta", part |-> 1], E("done")>>]

ASSUME AnswersAssumption ==
  Answers \subseteq Seq(DOMAIN EventsOf) /\ webSearchToolName \in Seq(STRING) /\ Len(webSearchToolName) =< 1

Items == DOMAIN answer.items
Type(i) == answer.items[i]
Complete(i) == answer.sent[i] = Len(EventsOf[Type(i)])

\* Function calls may be streamed side by side, other items one by one.
MaySend(i) ==
  /\ ~Complete(i)
  /\ \A j \in 1..(i - 1) :
       Complete(j) \/ (Type(j) = "function_call" /\ Type(i) = "function_call")

NextEvent(i) == EventsOf[Type(i)][answer.sent[i] + 1]

\* The id the server puts on the next event of item i.
ItemId(i) == IF Type(i) \in {"message", "bare_message", "reasoning"}
             THEN <<1, i, answer.sent[i]>>
             ELSE <<1, i>>

CallId(i) == <<1, i>>

\* The tool name of an item's call, as the stream gives it: a hosted web search is always
\* 'web_search' there.
ToolName(type) ==
  [web_search_call |-> "web_search", computer_call |-> "computer_use",
   code_interpreter_call |-> "code_interpreter",
   file_search_call |-> "file_search",
   image_generation_call |-> "image_generation",
   function_call |-> "function", local_shell_call |-> "local_shell"][type]

CallData(type) ==
  <<ToolName(type),
    IF type \in {"function_call", "local_shell_call"} THEN "client" ELSE "provider">>

CallPart(type, id) == PartOf("tool-call", id, CallData(type))
ResultPart(type, id, what) == PartOf("tool-result", id, <<ToolName(type), what>>)

ResponsesInit ==
  /\ \E items \in Answers :
       answer = [items |-> items, sent |-> [i \in DOMAIN items |-> 0],
                 ends |-> None]
  /\ parser = [ongoing |-> [i \in DOMAIN answer.items |-> None],
               hasFunctionCall |-> FALSE,
               active |-> [i \in DOMAIN answer.items |-> None],
               current |-> 0,
               text |-> None,
               finish |-> <<"other">>]
  /\ queue = <<Part("stream-start", None)>>

\* transform is called for the next event of item i, of one of `types`.
Chunk(i, types) ==
  /\ wire = "open" /\ queue = << >> /\ view.phase = "open"
  /\ MaySend(i)
  /\ NextEvent(i).type \in types
  /\ answer' = [answer EXCEPT !.sent[i] = @ + 1]
  /\ UNCHANGED <<provider, wire, faults, view>>

Created ==
  /\ wire = "new" /\ queue = << >> /\ view.phase = "open"
  /\ wire' = "open"
  /\ Emit(<<Part("response-metadata", None)>>)
  /\ UNCHANGED <<provider, answer, faults, parser, view>>

InputStart(i) == Part("tool-input-start", ItemId(i))
InputDelta(id) == Part("tool-input-delta", id)
InputEnd(id) == Part("tool-input-end", id)

OutputItemAdded(i) ==
  /\ Chunk(i, {"added"})
  /\ CASE Type(i) \in {"function_call", "web_search_call", "computer_call"} ->
            /\ parser' = [parser EXCEPT !.ongoing[i] = ItemId(i)]
            /\ Emit(<<InputStart(i)>>)
       [] Type(i) = "code_interpreter_call" ->
            /\ parser' = [parser EXCEPT !.ongoing[i] = ItemId(i)]
            /\ Emit(<<InputStart(i), InputDelta(ItemId(i))>>)
       [] Type(i) \in {"file_search_call", "image_generation_call"} ->
            /\ Emit(<<CallPart(Type(i), ItemId(i))>>)
            /\ UNCHANGED parser
       [] Type(i) = "message" ->
            /\ parser' = [parser EXCEPT !.text = ItemId(i)]
            /\ Emit(<<Part("text-start", ItemId(i))>>)
       [] Type(i) = "reasoning" ->
            /\ parser' = [parser EXCEPT
                            !.active[i] = [id |-> ItemId(i), parts |-> <<0>>],
                            !.current = i]
            /\ Emit(<<Part("reasoning-start", Append(ItemId(i), 0))>>)
       [] OTHER -> UNCHANGED <<parser, queue>>

\* The reasoning block of an active item that a summary index names.
ReasoningId(a, index) == Append(a.id, index)

OutputItemDone(i) ==
  /\ Chunk(i, {"done"})
  /\ CASE Type(i) = "function_call" ->
            /\ parser' = [parser EXCEPT !.ongoing[i] = None,
                                        !.hasFunctionCall = TRUE]
            /\ Emit(<<InputEnd(CallId(i)), CallPart(Type(i), CallId(i))>>)
       [] Type(i) \in {"web_search_call", "computer_call"} ->
            /\ parser' = [parser EXCEPT !.ongoing[i] = None]
            /\ Emit(<<InputEnd(ItemId(i)), CallPart(Type(i), ItemId(i)),
                      ResultPart(Type(i), ItemId(i), "final")>>)
       [] Type(i) \in {"file_search_call", "code_interpreter_call"} ->
            /\ parser' = [parser EXCEPT !.ongoing[i] = None]
            /\ Emit(<<ResultPart(Type(i), ItemId(i), "final")>>)
       [] Type(i) = "image_generation_call" ->
            /\ Emit(<<ResultPart(Type(i), ItemId(i), "final")>>)
            /\ UNCHANGED parser
       [] Type(i) = "local_shell_call" ->
            /\ parser' = [parser EXCEPT !.ongoing[i] = None]
            /\ Emit(<<CallPart(Type(i), CallId(i))>>)
       [] Type(i) \in {"message", "bare_message"} /\ parser.text # None ->
            /\ parser' = [parser EXCEPT !.text = None]
            /\ Emit(<<Part("text-end", parser.text)>>)
       [] Type(i) = "reasoning" /\ parser.active[i] # None ->
            LET a == parser.active[i]
            IN  /\ parser' = [parser EXCEPT
                                !.active[i] = None,
                                !.current = IF @ = i THEN 0 ELSE @]
                /\ Emit([k \in DOMAIN a.parts |->
                           Part("reasoning-end", ReasoningId(a, a.parts[k]))])
       [] OTHER -> UNCHANGED <<parser, queue>>

\* Arguments of a function call, or code of an interpreter: only for a call
\* whose start was read.
InputChunk(i) ==
  /\ Chunk(i, {"arguments_delta", "code_delta"})
  /\ IF parser.ongoing[i] # None THEN Emit(<<InputDelta(parser.ongoing[i])>>)
                                 ELSE UNCHANGED queue
  /\ UNCHANGED parser

CodeDone(i) ==
  /\ Chunk(i, {"code_done"})
  /\ LET id == parser.ongoing[i]
     IN  IF id # None
         THEN Emit(<<InputDelta(id), InputEnd(id), CallPart(Type(i), id)>>)
         ELSE UNCHANGED queue
  /\ UNCHANGED parser

PartialImage(i) ==
  /\ Chunk(i, {"partial_image"})
  /\ Emit(<<ResultPart(Type(i), ItemId(i), "partial")>>)
  /\ UNCHANGED parser

\* Mutant: the id of each delta is taken as it comes.
TextDeltaByItemId(i) ==
  /\ Chunk(i, {"text_delta"})
  /\ Emit(<<Part("text-start", ItemId(i)), Part("text-delta", ItemId(i)),
            Part("text-end", ItemId(i))>>)
  /\ UNCHANGED parser

TextDelta(i) ==
  /\ Chunk(i, {"text_delta"})
  /\ IF parser.text = None
     THEN /\ parser' = [parser EXCEPT !.text = ItemId(i)]
          /\ Emit(<<Part("text-start", ItemId(i)), Part("text-delta", ItemId(i))>>)
     ELSE /\ Emit(<<Part("text-delta", parser.text)>>)
          /\ UNCHANGED parser

\* The reasoning item the summary events are taken to belong to.
CurrentReasoning ==
  IF parser.current = 0 THEN None ELSE parser.active[parser.current]

SummaryPartAdded(i) ==
  /\ Chunk(i, {"summary_part"})
  /\ LET part == NextEvent(i).part
     IN  IF CurrentReasoning # None /\ part > 0
         THEN /\ parser' = [parser EXCEPT
                              !.active[parser.current] =
                                [id |-> @.id, parts |-> Append(@.parts, part)]]
              /\ Emit(<<Part("reasoning-start", ReasoningId(CurrentReasoning, part))>>)
         ELSE UNCHANGED <<parser, queue>>

SummaryTextDelta(i) ==
  /\ Chunk(i, {"summary_delta"})
  /\ IF CurrentReasoning # None
     THEN Emit(<<Part("reasoning-delta",
                      ReasoningId(CurrentReasoning, NextEvent(i).part))>>)
     ELSE UNCHANGED queue
  /\ UNCHANGED parser

AnnotationAdded(i) ==
  /\ Chunk(i, {"annotation"})
  /\ Emit(<<Part("source", None)>>)
  /\ UNCHANGED parser

\* A chunk that does not parse: the event it carried is lost.
UnparsableChunk(i) ==
  /\ faults < MaxFaults
  /\ wire = "open" /\ queue = << >> /\ view.phase = "open"
  /\ MaySend(i)
  /\ answer' = [answer EXCEPT !.sent[i] = @ + 1]
  /\ faults' = faults + 1
  /\ parser' = [parser EXCEPT !.finish = <<"error">>]
  /\ Emit(<<Part("error", None)>>)
  /\ UNCHANGED <<provider, wire, view>>

\* mapOpenAIResponseFinishReason, for the reason an incomplete response gives.
MapFinishReason(ends, hasFunctionCall) ==
  CASE ends = "none" -> IF hasFunctionCall THEN "tool-calls" ELSE "stop"
    [] ends = "max_output_tokens" -> "length"
    [] ends = "content_filter" -> "content-filter"
    [] OTHER -> IF hasFunctionCall THEN "tool-calls" ELSE "other"

EndReasons == {"none", "max_output_tokens", "content_filter", "unknown"}

\* response.completed, or response.incomplete at any point.
ResponseFinished ==
  /\ wire = "open" /\ queue = << >> /\ view.phase = "open"
  /\ \E ends \in EndReasons :
       /\ ends = "none" => \A i \in Items : Complete(i)
       /\ answer' = [answer EXCEPT !.ends = <<ends>>]
       /\ parser' = [parser EXCEPT
                       !.finish = <<MapFinishReason(ends, parser.hasFunctionCall)>>]
  /\ wire' = "done"
  /\ UNCHANGED <<provider, faults, queue, view>>

\* An error event: the server gives up; finishReason keeps what it was.
ErrorChunk ==
  /\ wire = "open" /\ queue = << >> /\ view.phase = "open"
  /\ faults < MaxFaults
  /\ faults' = faults + 1
  /\ wire' = "cut"
  /\ Emit(<<Part("error", None)>>)
  /\ UNCHANGED <<provider, answer, parser, view>>

\* The body ends although the response has not.
CutShort ==
  /\ wire \in {"new", "open"}
  /\ faults < MaxFaults
  /\ faults' = faults + 1
  /\ wire' = "cut"
  /\ UNCHANGED <<provider, answer, parser, queue, view>>

\* Mutant: a text block the body's end leaves open is not closed.
FlushWithoutTextEnd ==
  /\ wire \in {"done", "cut"} /\ queue = << >> /\ view.phase = "open"
  /\ wire' = "closed"
  /\ Emit(<<PartOf("finish", <<1>>, parser.finish)>>)
  /\ UNCHANGED <<provider, answer, faults, parser, view>>

ResponsesFlush ==
  /\ wire \in {"done", "cut"} /\ queue = << >> /\ view.phase = "open"
  /\ wire' = "closed"
  /\ parser' = [parser EXCEPT !.text = None]
  /\ Emit((IF parser.text # None THEN <<Part("text-end", parser.text)>> ELSE << >>)
          \o <<PartOf("finish", <<1>>, parser.finish)>>)
  /\ UNCHANGED <<provider, answer, faults, view>>

OnItem(i) ==
  \/ OutputItemAdded(i) \/ OutputItemDone(i) \/ InputChunk(i) \/ CodeDone(i)
  \/ PartialImage(i) \/ TextDelta(i) \/ SummaryPartAdded(i)
  \/ SummaryTextDelta(i) \/ AnnotationAdded(i) \/ UnparsableChunk(i)

ResponsesNext ==
  /\ provider = "copilot-responses"
  /\ \/ Created \/ ResponseFinished \/ ErrorChunk \/ CutShort \/ ResponsesFlush
     \/ \E i \in Items : OnItem(i)

-----------------------------------------------------------------------------
(* doGenerate: the content of the whole response, and its finish reason.    *)

HasType(types) == {i \in Items : Type(i) \in types}

GeneratedText == [i \in HasType({"message", "bare_message"}) |-> 2]

\* One reasoning content for each part of the summary, with its one delta.
GeneratedReasoning == [k \in HasType({"reasoning"}) \X {0, 1} |-> 1]

\* Here a hosted web search has the name the caller gave it.
GeneratedName(type) ==
  IF type = "web_search_call" /\ webSearchToolName # None THEN webSearchToolName[1] ELSE ToolName(type)

GeneratedCalls ==
  [i \in HasType(DOMAIN EventsOf \ {"message", "bare_message", "reasoning"})
     |-> <<GeneratedName(Type(i)), CallData(Type(i))[2]>>]

GeneratedResults ==
  [i \in {j \in DOMAIN GeneratedCalls : GeneratedCalls[j][2] = "provider"}
     |-> <<GeneratedName(Type(i)), "final">>]

GeneratedReason ==
  <<MapFinishReason(answer.ends[1], HasType({"function_call"}) # {})>>

\* What the stream's reader has put together, by item.
BlockIds(v, kind) == {b[2] : b \in {c \in DOMAIN v.sizes : c[1] = kind}}

StreamedText(v) ==
  [i \in {id[2] : id \in BlockIds(v, "text")} |->
     Size(v, <<"text", CHOOSE id \in BlockIds(v, "text") : id[2] = i>>)]

StreamedReasoning(v) ==
  [k \in {<<id[2], id[4]>> : id \in BlockIds(v, "reasoning")} |->
     Size(v, <<"reasoning", CHOOSE id \in BlockIds(v, "reasoning") :
                              <<id[2], id[4]>> = k>>)]

ByItem(f) == [i \in {id[2] : id \in DOMAIN f} |-> f[<<1, i>>]]

\* The exception: what a hosted web search is called in the stream.
Streamed(f) == [i \in DOMAIN f |-> IF Type(i) = "web_search_call" THEN <<"web_search", f[i][2]>> ELSE f[i]]

SameAsGenerated(v) ==
  /\ StreamedText(v) = GeneratedText
  /\ StreamedReasoning(v) = GeneratedReasoning
  /\ ByItem(v.calls) = Streamed(GeneratedCalls)
  /\ ByItem(v.results) = Streamed(GeneratedResults)
  /\ v.reason = GeneratedReason
=============================================================================
