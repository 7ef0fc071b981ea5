------------------------------- MODULE Requests -------------------------------
(***************************************************************************)
(* A conversation and the requests made of it: the user speaks, a model    *)
(* is asked, its answer is appended part by part, its calls are answered,  *)
(* and the model is asked again, or another one, of another provider, is   *)
(* given the conversation so far.                                          *)
(***************************************************************************)
EXTENDS Conversion

CONSTANTS
  Setups,       \* models with the options they are called with
  UserContents, \* what the user says
  Spaces,       \* where the metadata of reasoning blocks may be
  MaxMessages, MaxParts \* bounds: messages, parts of all answers

VARIABLES
  model, options,
  history,  \* the prompt
  turn,     \* open, asked, answering, calling
  request   \* the one under way, or None

requestVars == <<model, options, history, turn, request>>

Message(role, content) == [role |-> role, content |-> content]
Text(type) == [NoPart EXCEPT !.type = type]
\* Prompts start with one system message.
System == Message("system", <<Text("text")>>)

Init ==
  /\ \E s \in Setups : model = s[1] /\ options = s[2]
  /\ history \in {<<System, Message("user", c)>> : c \in UserContents}
  /\ turn = "open" /\ request = None

mine == Interface(model)

\* Parts get the number of the part as their id, blocks that of their item's first.
PartCount == FoldLeft(LAMBDA n, msg : IF msg.role = "assistant" THEN n + Len(msg.content) ELSE n, 0, history)
Answering == Last(history).content
Open == SelectSeq(Answering, LAMBDA p : p.type = "tool-call" /\ ~p.hosted)

\* A model is asked of a conversation a user or a tool spoke last in.
Send ==
  /\ turn = "open" /\ Last(history).role \in {"user", "tool"}
  /\ request' = RequestFor(model, options, history)
  /\ turn' = IF request'.refused THEN "open" ELSE "asked"
  /\ UNCHANGED <<model, options, history>>

\* An answer leaves room for what follows it.
Begin ==
  /\ turn = "asked" /\ turn' = "answering" /\ request' = None
  /\ Len(history) + 1 < MaxMessages
  /\ history' = Append(history, Message("assistant", <<>>))
  /\ UNCHANGED <<model, options>>

\* What the model may add.  Only the Responses interface marks what its server ran as
\* hosted; the blocks of an item follow each other, any of them sealed.
Added ==
  LET n == PartCount + 1
      P(type) == [NoPart EXCEPT !.type = type, !.id = n]
      last == IF Answering = <<>> THEN NoPart ELSE Last(Answering)
      encrypts == "encrypted" \in (IF mine = "codex" THEN mapProviderOptions(options).include ELSE options.include)
      items == ({n} \X (IF mine = "codex" THEN {"openai"} ELSE Spaces)) \cup (IF last.type = "reasoning" THEN {<<last.item, last.space>>} ELSE {})
  IN  {P("text"), P("tool-call")}
      \cup (IF mine = "chat"
            THEN {[P(t) EXCEPT !.opaque = TRUE] : t \in {"reasoning", "text"}}
            ELSE {[P("reasoning") EXCEPT !.item = i[1], !.space = i[2], !.sealed = e, !.blank = b] :
                    i \in items, e \in (IF encrypts THEN BOOLEAN ELSE {FALSE}), b \in BOOLEAN})
      \cup (IF mine = "responses"
            THEN {[P("tool-call") EXCEPT !.hosted = TRUE]}
                 \cup (IF last.hosted /\ last.type = "tool-call" THEN {[NoPart EXCEPT !.type = "tool-result", !.id = last.id, !.hosted = TRUE]} ELSE {})
                 \cup (IF "local_shell" \in options.tools THEN {[P("tool-call") EXCEPT !.tool = "local_shell"]} ELSE {})
            ELSE {})

Answer ==
  /\ turn = "answering" /\ PartCount < MaxParts
  /\ \E part \in Added : history' = [history EXCEPT ![Len(history)].content = Append(@, part)]
  /\ UNCHANGED <<model, options, turn, request>>

Finish ==
  /\ turn = "answering" /\ turn' = IF Open = <<>> THEN "open" ELSE "calling"
  /\ UNCHANGED <<model, options, history, request>>

\* A call is answered by its output, or by a denial with the approval that was asked for,
\* which a caller may say again.
Answers(call) ==
  LET R(output) == [NoPart EXCEPT !.type = "tool-result", !.id = call.id, !.tool = call.tool, !.output = output]
      A == [NoPart EXCEPT !.type = "approval", !.id = call.id]
  IN  {<<R("json")>>, <<R("denied")>>, <<A, R("denied by approval")>>, <<A, A, R("denied by approval")>>}

CallTools ==
  /\ turn = "calling" /\ turn' = "open"
  /\ \E answers \in {f \in [1..Len(Open) -> UNION {Answers(Open[k]) : k \in 1..Len(Open)}] :
                       \A k \in 1..Len(Open) : f[k] \in Answers(Open[k])} :
       history' = Append(history, Message("tool", FlattenSeq(answers)))
  /\ UNCHANGED <<model, options, request>>

UserSays ==
  /\ turn = "open" /\ request = None /\ Last(history).role # "user" /\ Len(history) < MaxMessages
  /\ \E c \in UserContents : history' = Append(history, Message("user", c))
  /\ UNCHANGED <<model, options, turn, request>>

\* Before it is saved, a state may be freed of the ids of the server's items, which blocks
\* of reasoning are known by.
sanitizeMessage(msg) == [msg EXCEPT !.content = [j \in DOMAIN @ |-> [@[j] EXCEPT !.item = 0]]]
sanitizeStateForPersistence(state) == [k \in DOMAIN state |-> sanitizeMessage(state[k])]

\* The state is saved, as it is or without ids, and resumed, also with another model or
\* other options.
Resume ==
  /\ turn = "open" /\ request = None /\ Last(history).role = "tool"
  /\ \E s \in Setups : model' = s[1] /\ options' = s[2]
  /\ history' \in {history, sanitizeStateForPersistence(history)}
  /\ UNCHANGED <<turn, request>>

Next == Send \/ Begin \/ Answer \/ Finish \/ CallTools \/ UserSays \/ Resume

Spec == Init /\ [][Next]_requestVars

-----------------------------------------------------------------------------

Stores == mine = "responses" /\ options.store # "off"
Shell == mine = "responses" /\ "local_shell" \in options.tools

\* What of part j of message k does not go out, by the interface.
Unsent(k, j) ==
  LET content == history[k].content
      part == content[j]
      Earlier(P(_)) == \E i \in 1..(j - 1) : P(content[i])
  IN  CASE part.type = "reasoning" ->
             \/ mine = "chat"
             \/ mine = "codex" /\ ~Keeps(part)
             \/ mine = "responses" /\ (part.space # "copilot" \/ part.item = 0)
             \/ Earlier(LAMBDA p : p.type = "reasoning" /\ p.item = part.item /\ (mine = "codex" => Keeps(p)))
        [] part.type = "tool-call" -> mine = "responses" /\ part.hosted
        [] part.type = "approval" -> mine # "responses" \/ Earlier(LAMBDA p : p = part) \/ Earlier(LAMBDA p : LeavesLoop(p, Shell))
        [] part.type = "tool-result" ->
             \/ history[k].role = "assistant" /\ ~Stores
             \/ history[k].role = "tool" /\ mine = "responses"
                  /\ (part.output = "denied by approval" \/ Earlier(LAMBDA p : LeavesLoop(p, Shell)))
        [] OTHER -> FALSE

\* What part j of message k is said as.
SaidAs(k, j) ==
  LET part == history[k].content[j]
  IN  CASE part.type = "reasoning" -> <<<<IF Stores THEN "reference" ELSE "reasoning", part.item>>>>
        [] part.type = "approval" -> (IF Stores THEN <<<<"reference", part.id>>>> ELSE <<>>) \o <<<<"approval", part.id>>>>
        [] part.type = "tool-result" -> <<<<IF history[k].role = "assistant" THEN "reference" ELSE "output", part.id>>>>
        [] part.type = "tool-call" -> <<<<"call", part.id>>>>
        [] OTHER -> <<<<part.type, part.id>>>>

\* Chat sends the texts of an answer before its calls.
Arranged(said) ==
  IF mine = "chat" THEN SelectSeq(said, LAMBDA x : x[1] = "text") \o SelectSeq(said, LAMBDA x : x[1] # "text") ELSE said

ToBeSaid ==
  FlattenSeq([k \in 1..Len(history) |->
    CASE history[k].role = "system" -> <<>>
      [] history[k].role = "user" -> <<<<"user", k>>>>
      [] OTHER -> Arranged(FlattenSeq([j \in 1..Len(history[k].content) |-> IF Unsent(k, j) THEN <<>> ELSE SaidAs(k, j)]))])

Said ==
  FlattenSeq([i \in 1..Len(request.input) |->
    LET item == request.input[i]
        Each(kind, ids) == [x \in 1..Len(ids) |-> <<kind, ids[x]>>]
    IN  CASE item.is \in {"system", "developer"} -> <<>>
          [] item.is = "text" -> Each("text", item.parts)
          [] item.is = "message" -> Each("text", item.parts) \o Each("call", item.calls)
          [] OTHER -> <<<<item.is, item.id>>>>])

\* Reasoning goes back whole: one item with every block that may be sent, in order, and to
\* Codex only sealed.
BlocksOf(id) ==
  LET all == FlattenSeq([k \in 1..Len(history) |-> history[k].content])
  IN  Ids(all, LAMBDA p : p.type = "reasoning" /\ p.item = id /\ ~p.blank /\ (mine = "codex" => p.sealed))
ReasoningWhole ==
  \A i \in 1..Len(request.input) : LET item == request.input[i] IN item.is = "reasoning" =>
    /\ item.parts = BlocksOf(item.id)
    /\ mine = "codex" => item.sealed
    /\ \A j \in 1..Len(request.input) : request.input[j].is = "reasoning" /\ request.input[j].id = item.id => j = i

\* Copilot counts a request as the user's exactly if the user spoke last, in words of its
\* own, and as one with pictures if a user has sent one.
InitiatorKnown ==
  model.provider = "copilot" =>
    LET headers == buildCopilotHeaders(request, history, None)
        last == Last(history)
    IN
    /\ headers.initiator = "user"
         <=> last.role = "user" /\ \A j \in 1..Len(last.content) : last.content[j].type # "attachment prompt"
    /\ headers.vision <=> \E k \in 1..Len(history) : history[k].role = "user" /\ HasImage(history[k].content)

\* A request tells the conversation: every user message, text, call, output and reasoning
\* item is in it once and in its order, except for what the interface leaves out by name,
\* the reasoning items are whole, and its headers say who asks.
Retold == request # None => Said = ToBeSaid /\ ReasoningWhole /\ InitiatorKnown
==============================================================================
