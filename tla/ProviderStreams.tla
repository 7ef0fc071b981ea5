-------------------------- MODULE ProviderStreams --------------------------
(***************************************************************************)
(* One turn of the model, whichever provider the agent was given           *)
(* (codelayer/src/providers.ts): the stream that CopilotResponses,         *)
(* CopilotChat or CodexStream writes, read part by part to its end.        *)
(***************************************************************************)
EXTENDS CopilotResponses, CopilotChat, CodexStream

StreamsInit ==
  /\ provider \in {"copilot-responses", "copilot-chat", "codex"}
  /\ CASE provider = "copilot-responses" -> wire = "new" /\ ResponsesInit
       [] provider = "copilot-chat" -> wire = "open" /\ ChatInit
       [] provider = "codex" -> wire = "connecting" /\ CodexInit
  /\ faults = 0
  /\ view = Fresh

StreamsNext == ResponsesNext \/ ChatNext \/ CodexNext \/ Deliver \/ Closed \/ Abort

\* Readers read on and streams that can close do; the code itself bounds how
\* long Codex waits for a connection, a first event and the next one.
Fairness ==
  /\ WF_streamVars(Deliver)
  /\ WF_streamVars(Closed)
  /\ WF_streamVars(provider = "copilot-responses" /\ ResponsesFlush)
  /\ WF_streamVars(provider = "copilot-chat" /\ ChatFlush)
  /\ WF_streamVars(provider = "codex" /\ Timeouts)

StreamsSpec == StreamsInit /\ [][StreamsNext]_streamVars /\ Fairness

-----------------------------------------------------------------------------

\* The ids of blocks and calls: attempt, item or index, part.
Ids == Seq(Nat) \ {None}

Parts == INSTANCE PartStream WITH
           phase <- view.phase, open <- view.open,
           called <- DOMAIN view.calls, errored <- view.errored,
           last <- view.last

\* Every provider's stream keeps the promises of PartStream: the blocks are
\* well nested, calls come once and after their input, the finish is last
\* (doStream of both Copilot models, the Codex protocol and its bridge).
KeepsPromises == Parts!Spec

\* A turn whose response was read whole, with no error part, gives its reader
\* what the response holds: as much text and reasoning, the same calls and
\* results and the same finish reason as doGenerate would have given, except that a hosted
\* web search is 'web_search' in the stream of a Copilot response whatever the caller named it.
ReadsWholeAnswer ==
  view.phase = "finished" /\ ~view.errored =>
    CASE provider = "copilot-responses" ->
           answer.ends = <<"none">> => SameAsGenerated(view)
      [] provider = "copilot-chat" ->
           answer.finish # None /\ MessageWhole => SameAsMessage(view)
      [] provider = "codex" ->
           answer.ends = <<"none">> => SameAsAnswered(view, parser.attempt)

\* A function is called with arguments a piece of which is missing only in a
\* stream that lost a chunk, was cut or was told its message is not whole.
CallsAreWhole ==
  provider = "copilot-chat" =>
    \A id \in DOMAIN view.calls :
      view.calls[id][3] = "cut" =>
        \/ faults > 0
        \/ parser.finish[1] \in {"length", "content-filter"}

\* A stream whose body has ended is read to its end, and a Codex stream ends
\* whatever the server does.
Settles ==
  (provider = "codex" \/ wire \in {"done", "cut", "closed"})
    ~> (view.phase = "over")
=============================================================================
