------------------------------ MODULE Conversion ------------------------------
(***************************************************************************)
(* What a provider sends of a conversation.  Copilot's models are asked    *)
(* through the Responses interface or the Chat interface, Codex through    *)
(* the vendored Responses protocol; each has a converter of its own, of    *)
(* messages (texts, reasoning, tool calls, their results) into the items   *)
(* of a request, and picks the settings the model understands.             *)
(***************************************************************************)
EXTENDS Naturals, Sequences, SequencesExt, FiniteSets

CONSTANT None

\* A part of a message; the fields a type does not use keep these values.
NoPart == [type |-> None, id |-> 0, item |-> 0, \* the reasoning item a block belongs to
           space |-> "openai",  \* where its metadata is: providerOptions.openai or .copilot
           sealed |-> FALSE,    \* with encrypted content
           blank |-> FALSE, opaque |-> FALSE, hosted |-> FALSE, tool |-> "function", output |-> None]

\* An item of a request.
Item(is, id) == [is |-> is, id |-> id, parts |-> <<>>, calls |-> <<>>, sealed |-> FALSE, image |-> FALSE]

Words(part) == IF part.blank THEN <<>> ELSE <<part.id>>
Ids(parts, Of(_)) == LET S == SelectSeq(parts, Of) IN [k \in 1..Len(S) |-> S[k].id]
HasImage(content) == \E k \in 1..Len(content) : content[k].type = "image"

-----------------------------------------------------------------------------
(* Models.  A name is its series, number and variant.                      *)

IsGpt5(m) == m.series = "gpt" /\ m.number = 5
IsO3OrO4Mini(m) == m.series = "o" /\ (m.number = 3 \/ (m.number = 4 /\ m.variant = "mini"))

shouldUseCopilotResponsesApi(m) ==
  m.series = "gpt" /\ m.number >= 5 /\ ~(m.number = 5 /\ m.variant = "mini")

\* sdk.responses(...) asks for the interface by hand.
Interface(m) ==
  CASE m.provider = "codex" -> "codex"
    [] m.provider = "sdk" \/ shouldUseCopilotResponsesApi(m) -> "responses"
    [] OTHER -> "chat"

getResponsesModelConfig(m) ==
  LET reasons == m.series = "o" \/ (IsGpt5(m) /\ m.variant # "chat")
  IN  [isReasoningModel |-> reasons,
       systemMessageMode |-> CASE ~reasons -> "system"
                               [] m.series = "o" /\ m.number = 1 /\ m.variant \in {"mini", "preview"} -> "remove"
                               [] OTHER -> "developer",
       tiers |-> (IF IsO3OrO4Mini(m) \/ (IsGpt5(m) /\ m.variant # "chat") THEN {"flex"} ELSE {})
                 \cup (IF \/ IsO3OrO4Mini(m) \/ (m.series = "gpt" /\ m.number = 4)
                          \/ IsGpt5(m) /\ m.variant \notin {"nano", "chat"} THEN {"priority"} ELSE {})]

-----------------------------------------------------------------------------
(* Copilot, Responses interface.                                           *)

\* Blocks of one reasoning item are put together; with store it is referred to, once.
Reasoned(input, part, store) ==
  LET at == {i \in 1..Len(input) : input[i].is \in {"reasoning", "reference"} /\ input[i].id = part.item}
  IN  IF part.space # "copilot" \/ part.item = 0 THEN input
      ELSE IF at = {} THEN
        Append(input, IF store THEN Item("reference", part.item)
                      ELSE [Item("reasoning", part.item) EXCEPT !.parts = Words(part), !.sealed = part.sealed])
      ELSE IF store THEN input
      ELSE [input EXCEPT ![CHOOSE i \in at : TRUE].parts = @ \o Words(part)]

AssistantPart(input, part, store) ==
  CASE part.type = "text" -> Append(input, [Item("text", part.id) EXCEPT !.parts = <<part.id>>])
    [] part.type = "tool-call" -> IF part.hosted THEN input ELSE Append(input, Item("call", part.id))
    [] part.type = "tool-result" -> IF store THEN Append(input, Item("reference", part.id)) ELSE input
    [] part.type = "reasoning" -> Reasoned(input, part, store)

\* so: the items, the approvals said in any message, and whether this message is cut
\* short: the `break` behind a shell's output leaves the loop, not the switch.
LeavesLoop(part, shell) == shell /\ part.tool = "local_shell" /\ part.output = "json"

AnsweredByApproval(part) == part.output = "denied by approval"

ToolPart(so, part, store, shell) ==
  IF so.cut THEN so
  ELSE IF part.type = "approval" THEN
    IF part.id \in so.approvals THEN so
    ELSE [so EXCEPT !.approvals = @ \cup {part.id},
                    !.input = @ \o (IF store THEN <<Item("reference", part.id)>> ELSE <<>>) \o <<Item("approval", part.id)>>]
  ELSE IF AnsweredByApproval(part) THEN so
  ELSE [so EXCEPT !.input = Append(@, Item("output", part.id)), !.cut = LeavesLoop(part, shell)]

SystemItems(k, mode) == IF mode = "remove" THEN <<>> ELSE <<Item(mode, k)>>

UserItem(k, content) == [Item("user", k) EXCEPT !.parts = Ids(content, LAMBDA p : TRUE), !.image = HasImage(content)]

convertToOpenAIResponsesInput(prompt, mode, store, shell) ==
  LET Message(so, k) ==
        LET content == prompt[k].content
        IN  CASE prompt[k].role = "system" -> [so EXCEPT !.input = @ \o SystemItems(k, mode)]
              [] prompt[k].role = "user" -> [so EXCEPT !.input = Append(@, UserItem(k, content))]
              [] prompt[k].role = "assistant" ->
                   [so EXCEPT !.input = @ \o FoldLeft(LAMBDA input, part : AssistantPart(input, part, store), <<>>, content)]
              [] OTHER ->
                   FoldLeft(LAMBDA seen, part : ToolPart(seen, part, store, shell), [so EXCEPT !.cut = FALSE], content)
  IN  FoldLeft(Message, [input |-> <<>>, approvals |-> {}, cut |-> FALSE], [k \in 1..Len(prompt) |-> k]).input

-----------------------------------------------------------------------------
(* Copilot, Chat interface: one message of each.                           *)

\* Only the last reasoning, and only with what Copilot signed.
ChatAssistant(k, content) ==
  LET opaque == \E i \in 1..Len(content) : content[i].opaque
      said == Ids(content, LAMBDA p : p.type = "reasoning" /\ ~p.blank)
  IN  [Item("message", IF opaque /\ said # <<>> THEN Last(said) ELSE 0) EXCEPT
         !.parts = Ids(content, LAMBDA p : p.type = "text"),
         !.calls = Ids(content, LAMBDA p : p.type = "tool-call"),
         !.sealed = opaque]

\* Hosted results are left out, the calls they answer are not; approvals are skipped.
convertToOpenAICompatibleChatMessages(prompt) ==
  FlattenSeq([k \in 1..Len(prompt) |->
    LET content == prompt[k].content
    IN  CASE prompt[k].role = "system" -> SystemItems(k, "system")
          [] prompt[k].role = "user" -> <<UserItem(k, content)>>
          [] prompt[k].role = "assistant" -> <<ChatAssistant(k, content)>>
          [] OTHER -> LET outputs == Ids(content, LAMBDA p : p.type = "tool-result")
                      IN  [i \in 1..Len(outputs) |-> Item("output", outputs[i])]])

\* A file that is no image is refused by Chat; Responses takes PDFs too.
Refuses(interface, prompt) ==
  interface = "chat" /\ \E k \in 1..Len(prompt), i \in 1..3 :
    prompt[k].role = "user" /\ i <= Len(prompt[k].content) /\ prompt[k].content[i].type = "pdf"

-----------------------------------------------------------------------------
(* Codex: first into the vendored client's messages, then into items.      *)

\* Reasoning without an item or encrypted content is dropped, block by block, and so is
\* whatever is not text, reasoning or a call; messages left empty go too.
Keeps(part) ==
  \/ part.type \in {"text", "tool-call"}
  \/ part.type = "reasoning" /\ part.space = "openai" /\ part.item # 0 /\ part.sealed

convertPromptMessages(prompt) ==
  LET Content(k) ==
        CASE prompt[k].role = "user" -> SelectSeq(prompt[k].content, LAMBDA p : p.type # "pdf")
          [] prompt[k].role = "assistant" -> SelectSeq(prompt[k].content, Keeps)
          [] prompt[k].role = "tool" -> SelectSeq(prompt[k].content, LAMBDA p : p.type = "tool-result")
          [] OTHER -> <<>>
      made == [k \in 1..Len(prompt) |-> [role |-> prompt[k].role, content |-> Content(k), id |-> k]]
  IN  SelectSeq(made, LAMBDA msg : msg.role = "user" \/ msg.content # <<>>)

\* so: the items of this message, and its texts not yet put into one.
flushText(so) ==
  IF so.texts = <<>> THEN so
  ELSE [input |-> Append(so.input, [Item("text", so.texts[1]) EXCEPT !.parts = so.texts]), texts |-> <<>>]

\* Mutant: texts wait for the end of the message.
KeepsText(so) == so
BeforeCall(so) == flushText(so)

Existing(input, item) == {i \in 1..Len(input) : input[i].is \in {"reasoning", "reference"} /\ input[i].id = item}

lowerReasoning(so, part, store) ==
  LET at == Existing(so.input, part.item)
  IN  IF at = {} THEN
        [so EXCEPT !.input = Append(@, IF store THEN Item("reference", part.item)
                                       ELSE [Item("reasoning", part.item) EXCEPT !.parts = Words(part), !.sealed = part.sealed])]
      ELSE IF store THEN so
      ELSE [so EXCEPT !.input[CHOOSE i \in at : TRUE] = [@ EXCEPT !.parts = @ \o Words(part), !.sealed = @ \/ part.sealed]]

lowerPart(so, part, store) ==
  CASE part.type = "text" -> [so EXCEPT !.texts = Append(@, part.id)]
    [] part.type = "reasoning" -> lowerReasoning(flushText(so), part, store)
    [] part.type = "tool-call" -> LET flushed == BeforeCall(so) IN [flushed EXCEPT !.input = Append(@, Item("call", part.id))]

lowerMessages(messages, store) ==
  LET Lowered(msg) ==
        CASE msg.role = "user" -> <<UserItem(msg.id, msg.content)>>
          [] msg.role = "assistant" ->
               flushText(FoldLeft(LAMBDA so, part : lowerPart(so, part, store), [input |-> <<>>, texts |-> <<>>], msg.content)).input
          [] OTHER -> [i \in 1..Len(msg.content) |-> Item("output", msg.content[i].id)]
      input == FlattenSeq([k \in 1..Len(messages) |-> Lowered(messages[k])])
  IN  IF store THEN input ELSE SelectSeq(input, LAMBDA item : item.is # "reasoning" \/ item.sealed)

-----------------------------------------------------------------------------
(* Settings.  options.asked is the set of settings the caller gives,       *)
(* options.tools what tools it offers, options.choice the tool it names.   *)

ProviderTools == {"local_shell", "web_search", "unknown"}

\* The Responses interface knows some provider tools; the others are skipped.
prepareResponsesTools(options) ==
  [tools |-> options.tools \ {"unknown"},
   choice |-> IF options.tools = {} THEN None ELSE options.choice]

prepareTools(options) ==
  [tools |-> options.tools \ ProviderTools,
   choice |-> IF options.tools = {} THEN None ELSE options.choice]

convertTools(options) == [tools |-> options.tools \ ProviderTools, choice |-> options.choice]

Tiers == {"flex", "priority"}

\* What the model cannot take is left out, with a warning.
SettingsLeft(m, asked) ==
  LET config == getResponsesModelConfig(m)
  IN  asked \ ({"topK", "seed", "penalties", "stop"}
               \cup (IF config.isReasoningModel THEN {"temperature", "topP"} ELSE {"effort", "summary"})
               \cup (Tiers \ config.tiers))

\* Codex always asks for encrypted reasoning, unless told what to include, and for an
\* effort and a summary; the caller's instructions come before the system messages.
mapProviderOptions(options) ==
  [settings |-> (options.asked \cap (Tiers \cup {"temperature", "topP", "seed"})) \cup {"effort", "summary"},
   include |-> IF options.include = {} THEN {"encrypted"} ELSE options.include]

Request(input, settings, include, made, store) ==
  [input |-> input, instructions |-> <<>>, settings |-> settings, include |-> include,
   tools |-> made.tools, choice |-> made.choice, store |-> store, refused |-> FALSE]

\* Unset, the server stores.
getArgs(m, options, prompt) ==
  LET shell == "local_shell" \in options.tools
      input == convertToOpenAIResponsesInput(prompt, getResponsesModelConfig(m).systemMessageMode, options.store # "off", shell)
      include == options.include \cup (IF "web_search" \in options.tools THEN {"sources"} ELSE {})
  IN  Request(input, SettingsLeft(m, options.asked), include, prepareResponsesTools(options), options.store)

ChatArgs(options, prompt) ==
  [Request(convertToOpenAICompatibleChatMessages(prompt), options.asked \ {"topK"}, {}, prepareTools(options), "off")
     EXCEPT !.refused = Refuses("chat", prompt)]

isReasoningEffortForModel(m, asked) ==
  "max effort" \in asked =>
    <<m.number, m.variant>> \in {<<5, "sol">>, <<5, "terra">>, <<5, "luna">>, <<6, "sol">>, <<6, "luna">>}

\* System messages go to the top, whatever their place.
convertCallOptionsToLLMRequest(m, options, prompt) ==
  LET mapped == mapProviderOptions(options)
      input == lowerMessages(convertPromptMessages(prompt), FALSE)
  IN  [Request(input, mapped.settings, mapped.include, convertTools(options), "off")
         EXCEPT !.refused = ~isReasoningEffortForModel(m, options.asked),
                !.instructions = SelectSeq([k \in 1..Len(prompt) |-> k], LAMBDA k : prompt[k].role = "system")]

RequestFor(m, options, prompt) ==
  CASE Interface(m) = "codex" -> convertCallOptionsToLLMRequest(m, options, prompt)
    [] Interface(m) = "responses" -> getArgs(m, options, prompt)
    [] Interface(m) = "chat" -> ChatArgs(options, prompt)

-----------------------------------------------------------------------------
(* Headers, read off the request that goes out.                            *)

NotUser(item) == item.is # "user"

IsSynthetic(prompt, item) == \E i \in 1..Len(prompt[item.id].content) : prompt[item.id].content[i].type = "attachment prompt"

detectAgentRequest(request, prompt) ==
  IF request.input = <<>> THEN FALSE
  ELSE LET last == Last(request.input) IN NotUser(last) \/ IsSynthetic(prompt, last)

detectVisionRequest(request) == \E i \in 1..Len(request.input) : request.input[i].image

\* Who the caller says asks goes before what the request shows.
buildCopilotHeaders(request, prompt, initiator) ==
  [initiator |-> CASE initiator # None -> initiator
                   [] initiator = None /\ detectAgentRequest(request, prompt) -> "agent"
                   [] OTHER -> "user",
   vision |-> detectVisionRequest(request)]
==============================================================================
