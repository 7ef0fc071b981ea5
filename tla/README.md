# TLA+ specifications of agentlayer

agentlayer is a TypeScript library for LLM agents: a loop that calls a model and runs
the tools it asks for, with hooks, approvals, sub-agents and compaction, whose whole
state is a value the caller can save and pass to a later run; the providers that speak to
models and keep their credentials; tools and hooks over a file system; and a collaborative
file system over Yjs. These modules model the parts in which order, interruption, merging
and resumption matter, check them with TLC on small instances, and prove the main
properties with TLAPS for every value of the constants.

Paths below are relative to `src/packages/`; `agent.ts` is `agentlayer-core/src/agent.ts`.

## The system

| Component | State | Operations | What makes it correct |
|---|---|---|---|
| **Agent loop** (`agent.ts`, `hooks/*.ts`, `state.ts`) | `AgentState`: messages, `pendingToolCalls`; locals of a run: step count, outcomes of the parallel calls, resolvers | `run`, the preamble over dangling calls, model step, `resolveToolCall` (approval hooks, preToolUse hooks, execution), `resolveApproval`, `withApprovals`, abort, `finishRun` | one result per call, no call run twice, no call run without consent, requests in which every call is answered, every run ends |
| **Run handle** (`agent-run.ts`, `execute-tool-call.ts`) | event buffer, iterator slot, `activeChildren`, `pendingResolvers` | `pushEvent`, `finish`, iteration, `resolveApproval`, `awaitSubAgent` | a consumer sees every event of the tree in order and ends; an approval answered promptly is in time |
| **Sub-agents** (`tools/subagent.ts`, `tools/subagent-fork.ts`, `state.ts`) | `subAgents` (paused), `terminalChildren` (records), `subAgent` entries | start, resume by `agent_id`, pause, resume with the parent, decide in the tree | granted approvals carried out once and no other call; every call answered |
| **Compaction** (`compaction/engine.ts`, `compaction/policy.ts`, `agent.ts`, `tools/subagent-fork.ts`) | messages, checkpoint, token estimate | caller's `compact`, `/compact`, threshold, overflow with one retry, what a fork is told | nothing lost or summarized twice, requests stay coherent, pending calls kept |
| **Stop conditions** (`stop-conditions.ts`) | the steps of a run | seven conditions with their timing | a run stops exactly when one is due |
| **Token usage** (`token-usage.ts`, `agent.ts`) | one accumulator per run | `addUsage`, `snapshot`, usage of sub-agents | every prompt token is priced once |
| **Terminal renderer** (`output-renderer.ts`) | buffers per block, the open tool line, labels | `handle`, `flush` | every word once, in order, in whole lines |
| **File state hooks** (`agentlayer-filesystem/src/hooks/file-state.ts`) | hash and ranges read, hash verified, per path | check before read and write, tracking after, drop on compaction | "already in your context" is true; no overwrite of what was not read |
| **Patches** (`utils/patch-parser.ts`, `apply-patch.ts` of three packages) | none | parse, seek, replace, carry out | whole or not at all; chunks land where their lines are |
| **Processes** (`agentlayer-filesystem/src/utils/process.ts`) | one child process and its timers | spawn, timeout, abort, signals, exit, close | a call returns whatever its command leaves behind |
| **Language models** (github-copilot `responses/`, `chat/`; openai-codex; opencode-llm-vendor) | the parser of one stream; transport, timeouts, retries | a handler per event, flush, abort, reconnect | the promises every reader of a stream relies on; a stream says what the whole answer says; it ends |
| **Requests of the providers** (the converters) | none | conversation into items, settings, headers | the conversation is retold whole, for every model it is given to |
| **Credentials** (`agentlayer-provider-auth`, openai-codex `oauth.ts`, `shared/auth.ts`, copilot login) | one JSON file, tokens, a browser login's promise, timer and port | get, set, delete, import, refresh, logins, cancel | no writer disturbs another, the stored token works, logged out is logged out, cancelled is cancelled |
| **Collaborative file system** (`yjs-fs/src/filesystem/`) | Yjs maps: entries, children links, path index, contents | mkdir, createFile, rename, unlink, merge of replicas | index, links and entries describe one tree |
| **Contents, comments, views** (`yjs-fs`, `yjs-fs-react`) | Y.Text, sizes, anchors, resolvers; a hook's snapshot | write, edit, type, comment, toggle, unlink, exchange; subscribe, render | ranges hold their text, records agree with it, views catch up |
| **Release scripts** (`src/scripts/release`) | staged manifests, the registry | stage, publish, rerun | what is released can be installed |
| Hook library, single tools, event texts, bindings, applications, site | - | formatting, one-shot I/O, configuration | not modelled (see the end) |

How they interact. The loop calls hooks and tools as promises and joins the calls of one
step with `Promise.all`; a hook that throws rejects the join but cancels nothing. The
sub-agent tool runs another `Agent` inside a tool call, forwards its events into its own
stream, and hands the child's state and bill back inside the parent's. Approvals travel
down: in flight through `activeChildren`, between runs through `withApprovals`. Compaction
replaces messages at the head of a loop iteration and tells hooks to drop evidence about
them; the file state hooks live in the state maps of the loop. One model step converts the
conversation into a request of the provider, fetches credentials (refreshing them first if
they expired) and reads a stream of parts; the renderer reads the events the loop makes of
them. The file system of yjs-fs stands under its own tools and `apply_patch`.

What is hard here: interleavings of parallel calls; runs that end in the middle (pause,
stop, abort, exception) and are resumed from a state which says only part of what
happened; decisions that race a one-macrotask wait; continuations that must run before a
timer; two stores that hold the same child; streams that are cut, retried or reordered
below a parser that trusts ids; a file without a lock and tokens that rotate; merges of
replicas that each were right. `PROJECT.json` lists these hazards at their lines.

## Modules

| Module | Models |
|---|---|
| `AgentLoop` | one agent across the runs of a conversation |
| `AgentLoopProofs` | TLAPS proofs about `AgentLoop` and `FileState` |
| `AgentRun`, `AgentRunProofs`, `MCAgentRun` | streams and approvals in a tree of running agents |
| `SubAgents`, `SubAgentsProofs` | states of children across the runs of their parent |
| `Compaction` | a growing conversation and every trigger of compaction |
| `FileState` | file state hooks, file tools, other writers, compaction |
| `MCContext` | `Compaction` and `FileState` side by side for TLC |
| `Catalog`, `CatalogProofs` | two replicas of the namespace of yjs-fs |
| `Documents` | one file of yjs-fs: contents, comments, selection, a React view |
| `PartStream` | abstract: what every language model promises its reader |
| `ModelStream` | what the three language models share: wire, queue, reader |
| `CopilotResponses`, `CopilotChat`, `CodexStream` | the three language models |
| `ProviderStreams`, `MCProviderStreams` | any of the three behind one reader; the refinement |
| `StreamProofs` | TLAPS proofs about parts and about `CopilotResponses` |
| `ConversationProofs` | TLAPS proofs about `Compaction`, `CopilotChat` and `CodexStream`; that `ProviderStreams` implements `PartStream` |
| `AuthStore` | the credentials file |
| `Credentials`, `CredentialsProofs`, `MCCredentials` | requests, logins and logouts over it |
| `Patch`, `Patching` | patches as pure operators; one call of `apply_patch` on three backends |
| `Conversion`, `Requests` | the converters as pure operators; a conversation and its requests |
| `Processes`, `Renderer`, `Release`, `StopConditions` | the components of these names |
| `TokenUsage` | bills in a tree of runs |
| `PackagesProofs` | TLAPS proofs about `TokenUsage`, `Release`, `StopConditions` and the view of `Documents` |
| `MCTools` | the last seven components side by side for TLC |

### AgentLoop

Tool calls are numbers in the order the model emits them. The conversation is kept as
what the loop tells apart: the calls of the last assistant message (`batch`), how many
results each call has, and the entries of `pendingToolCalls`. `phase` is where
`executeLoop` stands; `stage[c]` is how far `resolveToolCall` has come for call `c`, then
the kind of its outcome. What hooks, tools and the model answer is a choice among the
answers the constants allow, so one configuration of the constants is one kind of agent.

- `StartRun`, `Preamble*`: `executeDanglingToolCalls`. One action per branch: entry
  parked, call without any pending entry executed straight, sub-agent call, call beside
  entries, stop.
- `LoopHead`, `ModelFails`, `ModelAnswers`, `ModelCallsTools`: the head of the loop, the
  model step and the `beforeExecution` conditions. `maxSteps` is optional and unset by
  default (`agent.ts:98`, `:325`, `:715`): `MaxSteps` is a number or `Unlimited`. Without a limit
  steps are not counted, so that the model stays finite.
- `RunApprovalHooks`, `RunPreToolUseHooks`, `Execute`, `Throw`: the pipeline, interleaved
  freely over the calls of a step. `RunLate` is a pipeline that a rejected `Promise.all`
  left behind.
- `ResolveWithoutAsk`, `ResolveWithAsk`, `WaitEnds`, `Live*`, `ResolveApproval`: the ask
  branch, with the wait of one macrotask and the execution of calls approved in flight.
- `SettleStop`, `SettleNormal`: the stop branch and the normal end of a step.
- `ApplyDecision`, `ProvideResult`, `AppendUserMessage`: the caller between runs.

`ModelCallsTools(0)` is an answer of reasoning without text or calls. Exceptions in the
post-tool hook come after the tool ran, so `Throw` may count an execution.

### AgentRun

One step is what JavaScript runs between two awaits. `MicrotaskPending` says that a
settled promise has a continuation queued; timers, model answers and people act only when
there is none (`Quiet`), which is what decides whether an answer is in time. `loop[r]` is
the loop of run `r` as far as its stream is concerned, `iter[r]` the one iterator over its
events: the consumer for the root, the forwarding loop of `awaitSubAgent` for a child.

### SubAgents

A child's state is the prompts it has heard, the call it asked an approval for and whether
the entry is pending. `Start` reads the state as the tool variant does (paused state,
terminal record, or fresh), `ChildExecutes`, `ChildAsks`, `ChildEnds` are the child's run,
`ToolsSettle` and `PreambleVisits` store what it hands back, `Decide` is `withApprovals`
descending into paused and terminal children.
`OnlyGrantedRuns` is a part of `GrantedRunsOnce` with a name because it is proved.

### Compaction

Messages have a role, the calls they carry or answer, and a size. `findCompactionCut` is
translated as the code has it (the largest valid cut whose tail reaches the target).
`log` is the conversation as it would be without compaction; the model compares the two.
`createForkState` is what a child is given that a call forks off the conversation: the
messages before the turn that calls it, cut to the turns asked for, with the checkpoint if
the summary is among them.

### FileState

Contents stand for their hashes, ranges are sets of lines. A call passes through the
hooks (`PreToolUse`), the tool (`Read`, `Mutate`, `Fails`) and the tracking hook
(`PostToolUse`); `Settle` merges the updates in the order of the calls, as
`mergeHookStateUpdates` does, whatever the order the calls ended in. `seen` is what the
model has been shown since the last compaction. `write` and the add and update operations of
`apply_patch` are one operation because the hooks treat them alike; `edit` reads the file
(`FindString`) and later writes what it made of that content (`WriteEdited`), so another
writer may come in between.
A move may edit the file on its way, so it names the content at the new place.
`Multimodal` says which read tool is installed: the one of `read-multimodal.ts` returns no
string, so its hash is taken of the file after the call.

### Catalog

A document is a function from keys (type, parent and name of an entry, its content, a
child link, a row of the path index) to values. An operation is one transaction: a set of
keys it sets and a set it deletes. `Merged` is what Yjs leaves of one key: of concurrent
writes that of the larger client id, deleted if that client deleted it afterwards; a
deletion only removes the value it saw. A removed entry takes its fields with it. Entry id
0 is the root. `tangled` remembers that two replicas worked at paths of which one is a
prefix of the other between two exchanges.

### Language models

`ModelStream` holds a response body that is read chunk by chunk (`wire`, `answer`), the
parser's locals, the queue of parts and `view`, which accumulates what the reader made of
them: blocks open, sizes, calls, results, the finish. A TransformStream asks for the next
chunk when its queue is drained; the Codex bridge enqueues without asking, up to `MaxLag`
parts ahead of its reader. `faults` counts lost chunks, early ends and retries.

- `CopilotResponses`: one action per handler of `transform` (item added, deltas, annotations,
  summary parts, item done, finish, error), the flush, and `doGenerate` as `SameAsGenerated`.
  The server sends an answer's items in order, function calls side by side, under item ids
  that change with every text and reasoning event.
- `CopilotChat`: one action for a delta with any of reasoning, text and pieces of calls; a
  call is made when its arguments parse; the flush makes the calls left.
- `CodexStream`: the protocol's events as one action each; the transport around it: opening a
  WebSocket with retries, a POST with refusals and retries by status, header, first-event,
  idle and duration timeouts, retry of the whole request with a fresh parser, clean close,
  frames that do not decode, abort.

`PartStream` is the specification such a stream implements: blocks open, grow and end; a call
comes once and after its input has ended; finish is last and once, with no text block of its
attempt open; after an error part only the order of the first and the last part stays.
`ProviderStreams` composes the three and states `Parts == INSTANCE PartStream WITH phase <-
view.phase, open <- view.open, called <- DOMAIN view.calls, ...`; `KeepsPromises == Parts!Spec`
is checked as a property and proved, so every step of every provider is a step of `PartStream` or
a stutter.

### Credentials

`AuthStore` is the file. An operation is a read of the whole text, a change in memory and a
write that truncates first and fills later, each a step of its own; two writers may leave
the rest of a longer text behind (`Garbled`). `get` and `getAll` fall back to OpenCode's file
and import from it, `ensureFileAuthStore` copies the file of an older version. `serial` is
what the file would hold had each operation been made at once; `raced` and `cut` remember
overlapping writes and crashes between truncating and writing.

`Credentials` has its users: Codex requests that refresh an expired token (the server, which
is external, may rotate the refresh token and refuses the old one, and its answer may be
lost), Copilot requests, logouts, and logins: the browser's with its server, timer, `/cancel`
and exchanges of codes racing for one promise, and the device code's. `unsure`, `gone` and
`refused` are histories for the properties.

### Documents

A character is the place of its insertion; a replica's text is an order of characters and
the set of those deleted, as in a Y.Text; anchors are relative positions. Facade writes
replace the differing middle of a text; `createComment`, replies, toggles and unlinking write
the keys the code writes; `Exchange` merges key by key, larger client id first. The view is
`useSubscriptionVersion`: first render, effect that subscribes, a flag and a queued
notification, later render.

### Patches

`Patch` has the parser (a patch is a sequence of lines of known kinds), the four ways a chunk
is sought (exactly, without trailing and then leading whitespace, with typographic marks
made plain) and the replacement, all as functions without recursion. `Patching` is one call
of the tool: try every operation on the files as they are, then read and write one after the
other, each await a step, with other writers (`Meddle`), on a disk, in a just-bash shell and
on yjs-fs, which differ in what they refuse.

### Requests

`Conversion` translates the three converters, the configuration of each model, the tools and
settings that survive, and the headers. `Requests` grows a conversation (user messages,
answers part by part, results, denials, approvals) and asks a model of any provider for it.
`Said` is what a request says, `ToBeSaid` what the conversation says less `Unsent`, which
lists what each interface leaves out by name.

### Processes, Renderer, StopConditions, TokenUsage, Release

- `Processes`: leader and helper in one group, either may ignore SIGTERM or never end;
  `Timeout`, `Abort`, `killProcessTree`, `onError`, `onExit`, `onClose`, the grace timer and
  `finish` as the event loop may order them.
- `Renderer`: one action feeds the next event of any scope to the handler of its type;
  `screen` records what was said, in whose line, `told` what the events said.
- `StopConditions`: `Generate` and `Execute` of one step with the conditions of their timing,
  `Leave` for the ends of a run that ask none of them. A step has the results the loop pushes:
  a denial is one without error; a call that hooks kept from running after its approval has
  none; beside approvals answered in flight the results of the other calls are pushed twice
  (`Pushed`). The property states over the history of steps what the code finds by scanning
  backwards.
- `TokenUsage`: `Start`, `CallModel`, `Finish` of the runs of a tree; absent figures poison a
  sum; the snapshot is reconciled.
- `Release`: staging in order, publishing in order, breaks, reruns, two tags at once.

## Runs

Bounds and what makes them enough:

- **agentloop_cold**: 2 calls, 3 runs, a limit of 2 steps, every verdict, every ending, exceptions,
  approvals decided between runs only. Two calls are a pair of siblings in one step or
  two calls in two steps; three runs are one that pauses, one that resumes and one more.
- **agentloop_gate**: 3 calls, 4 runs, no limit on steps, approvals also in flight, hooks that
  neither throw nor stop. Of answers without calls there may be any number. The restriction is
  needed: with stopping hooks both safety properties fail (see Other divergences), and an
  exception leaves calls without entries, which the next run executes.
- **agentrun**: a root, its child and that child's child; child and grandchild each may ask once;
  one step each, a bound of the model and not the agent's `maxSteps`; exceptions. Three levels
  are the least at which an answer has to travel through a forwarding loop that is itself
  forwarded. A consumer may iterate at once and answer promptly, or come late, be busy, and
  answer from outside.
- **subagents**: 3 calls of the tool, one approval, one failing run of the parent, both
  variants. Three calls are a child, its resumption, and a sibling or second resumption.
- **subagents_resume**: 2 calls, one approval, the forking variant: the finding below.
- **context**: two subjects that share no state, chosen by `Init`. Conversations of up to 6
  messages of size 1 or 2, a tail of 3 tokens, up to two parallel calls: room for two
  checkpoints, each after a call with a result. And two files of two lines, two contents, up
  to three calls of which two may be parallel (`Batches`), two changes by another program.
  Files and contents are symmetric. Three calls are the least for a read, a change and a
  second read or write; two changes bring a file back to the content it had.
- **catalog**: two replicas, two names, depth two, three entries, four operations and any
  number of exchanges: two directories and a file in one of them, moved and merged.
- **provider_streams**: each provider with every answer of `MCProviderStreams` (together all
  item types, alone and beside another), two faults, one retry of each kind, one part of
  lag. One retry reaches both branches of every retry limit; two faults are a lost chunk
  and a cut, or a retry of a stream that is then cut.
- **credentials**: two clients, three tasks, two providers, a stored session and one that a
  login may be granted, two refreshes, one crash, one browser callback; a file of its own
  or only OpenCode's and the older one. Two clients are what races; three tasks a login, a
  logout or refresh beside it, and a request that sees the outcome.
- **documents**: two replicas, four characters of which two are there at first, one comment,
  three operations and any number of exchanges: a comment, a change by each side, merged.
- **tools**: seven subjects that share no state, chosen by `Init`. Patches of up to two
  operations or two chunks over files with repeated and trailing blank lines; four model setups
  over conversations of five messages and three parts; one command with one helper; two scopes
  with two steps each; two versions of three packages with two attempts each; five lists of
  conditions over three steps of up to two calls, each succeeding, failing, denied or approved in
  flight (`stops_failures` has the same bounds and this subject alone); four runs in a tree with
  three models and two calls.

`CHECK_DEADLOCK FALSE` is given where a model stops at its bounds.

### What the properties say

`AgentLoop`. *A call with a result is never executed again* in any run (`RecordedNeverRerun`,
save a pipeline that a failed run left behind) and has at most one result
(`AtMostOneResult`). Entries a later run would resume belong to dangling calls
(`EntriesDangle`). No tool runs without an approval hook or a decision that let it
(`ConsentGate`). No request leaves a call unanswered (`RequestAnswered`). Every run ends
(`RunEnds`); without `maxSteps`, unless the model calls tools or only reasons again and again:
then the run goes on for ever, in the code as in the model, and nothing in the loop ends it.

`AgentRun`. Streams of children arrive whole and in order before the result of their call, and
a consumer that reaches the end has seen everything (`MergedInOrder`); a prompt answer is
always in time (`PromptAnswerInTime`); every stream ends (`StreamEnds`).

`SubAgents`. Granted approvals stay where a run finds them (`ApprovalNotLost`); calls that
waited for one run only when granted, and as often as they may (`GrantedRunsOnce`); every
call is answered if the caller decides and resumes (`CallsAnswered`). Conditions in them
(`crossed`, `failures`) name cases in which the code does lose something; each is a listed
hazard.

`Compaction`. Summary and tail together stand for each message once, for a conversation and
for the children forked off it (`NothingLost`); requests are coherent (`RequestCoherent`);
calls waiting for approval are kept (`PendingKept`).

`FileState`. A refused read asked for lines of the present content that are in the context
(`WastedReadTruthful`); what a call overwrites has been seen, unless another program changed
the file while a call was at work on it (`NoBlindOverwrite`).

`Catalog`. Unless replicas have worked in the same place, index, links and entries describe
one tree (`OneTree`).

`ProviderStreams`. Every stream implements `PartStream` (`KeepsPromises`). A response read whole
gives what the whole response holds: text, reasoning, calls, results, finish reason
(`ReadsWholeAnswer`). One name is excepted (`Streamed`): a hosted web search that the caller's
tool gives another name has it in `doGenerate`, and is `web_search` in the stream. Calls with a
piece of their arguments missing are made only after a fault or an answer that says it is cut
(`CallsAreWhole`). A body that ended is read to its end, and Codex ends whatever the server does
(`Settles`).

`AuthStore`, `Credentials`. Unless writes overlapped or were cut off, the file is what one
operation after the other would leave (`SerialStore`); unless, besides, refreshes overlapped,
an answer was lost or OpenCode's copy was imported once more, its refresh token is the one
the server takes (`StoredTokenWorks`); deleted credentials do not come back (`LogoutHolds`);
what is granted to a login that was cancelled, timed out or failed is never stored
(`CancelHolds`); every task ends and frees its port (`TasksEnd`). The exceptions name what
the code does lose, and each is a listed hazard.

`Documents`. Ranges of comments and of the selection cover the characters they were made on
that are still there (`RangesHold`); sizes and resolvers agree with what they are about
unless changed on both sides at once (`RecordsAgree`); a view that is behind is about to
catch up (`ViewCatchesUp`).

`MCTools`. A rejected patch has changed nothing and a finished one everything (`AllOrNothing`),
each chunk lands where its old lines are (`HunksLand`). A request retells the conversation once
and in order and says who asks (`Retold`, of which `InitiatorKnown` is a part). A call of the
bash tool returns (`CallReturns`). Every word of parallel agents is printed at most once and in
order, and all of them in the end (`SaidOnce`), in whole lines (`LinesWhole`). What is released
can be installed (`ReleaseInstalls`). A run stops exactly when a condition is due
(`StopsWhenDue`), failures being counted by call; excepted are conditions on failures once a
failure was pushed twice, which may stop a run early (the finding of `stops_failures`). Prompt
tokens are priced once through the whole tree (`BilledOnce`).

### Fairness

- `AgentLoop!FairSpec`: weak fairness of `LoopStep`, that is, promises of hooks, tools and
  the model settle and the loop's continuations run. What the model answers is not subject
  to fairness: it may call tools for ever. The caller is never obliged to act.
- `AgentRun!FairSpec`: weak fairness of each run's loop, of its iterator and of its
  `awaitSubAgent` (queued continuations run, timers fire), and of a consumer that has
  begun to iterate. Nobody has to begin, and nobody has to answer an approval.
- `SubAgents!FairSpec`: besides, the caller decides what it was asked and starts runs when
  nothing is listed. That is an assumption about the environment; `CallsAnswered` is about
  what the code does for such a caller. Strong fairness because a run in progress
  disables both for a while.
- `ProviderStreams!Fairness`: a reader reads on, a stream that can close or flush does, and
  the timers of the vendored client fire. No server has to send anything. The Copilot models
  have no timers, so for them `Settles` speaks only of bodies that have ended.
- `Credentials!Fairness`: files are read and written, requests to the server are answered or
  fail, the login's timer fires, whoever was shown a device code decides in the end.
- `Processes`: what ends, ends; the event loop gets to every event and timer. An abort need
  not come, and a process that never ends need not.

The other specifications state safety only, without fairness.

## Proofs

TLAPS proves twenty-nine theorems, for any value of the constants that the named assumptions allow.
None uses a bound: `MaxCalls`, `MaxRuns`, `MaxSessions` and so on are any naturals, and the
sets of clients, providers, runs and models any sets.

`AgentLoopProofs`:

1. `TypeCorrect`: `Spec => []TypeOK`, one lemma per group of actions.
2. `RunInvariant`: `Spec => []RunInv`. `RunInv` says which phase each local of a run lives
   in: calls in stage are calls of the last message without a result, `todo` holds calls not
   visited yet, parked entries and resolvers exist only where the code has them. None of
   the properties is inductive without it: that a pipeline in the middle belongs to an
   unanswered call is what forbids a second result.
3. `NeverRerun`: `Spec => RecordedNeverRerun`, from `TypeOK` and `RunInv`: the only action
   that executes outside `RunLate` has its call in a stage that `RunInv` ties to
   `results[c] = 0`.
4. `OneResult`: with `LiveApprovals = FALSE`, `Spec => []AtMostOneResult`, by `ColdInv`, which
   adds that no call is live or granted, so each branch of a settling step records each
   call once. With live approvals the claim is false (see Other divergences).
5. `Gated`: under `GateConfig` (no exceptions, no stopping hooks, tools or conditions before
   execution) `Spec => []ConsentGate`, live approvals included. `GateInv` says that every
   dangling call without an approval entry has consent and that calls past the approval
   stage have it, through pause, park, decision and resumption.
6. `Dangling`: `Spec => EntriesDangle`, for every configuration. `ParkedInv` says of the
   entries collected in a run, parked ones included, that they dangle as long as no result
   is recorded, and each of the ways a run ends writes only such entries.
7. `Answered`: under `AnswerConfig` (`GateConfig`, and no hook that answers for a tool)
   `Spec => []RequestAnswered`. `AnswerInv` follows every unanswered call to the stage, the
   entry or the resolver that will answer it (`UnansweredInv`), and says that the loops which
   visit calls one by one run no approval hooks (`SequentialInv`); the model is asked only
   when nothing is left. With a hook that answers an approved call in flight the claim is false
   (`agent.ts:1014`).

`AgentRunProofs`, for any tree of runs (`AgentRunAssumption`: from each run the way up ends at
the root, and the calls are finitely many):

8. `HandlesAgree`: `Spec => []HandleInv`. `DataInv` says of every stream what it holds of each
   child: as many events as the forwarding loop has read, in the child's order (`MergeInv`),
   and that the streams of two children never mix, because no run is below both. `ControlInv`
   says how loop, iterator and `awaitSubAgent` of a run go together (`LifeInv`), that nobody
   leaves a step with sub-agents running unless the step throws (`KidsInv`), and that whoever
   sleeps or has ended has read everything (`EndInv`).
9. `Merged`: `Spec => []MergedInOrder`. That the consumer's end is the end of every run is an
   argument along the tree: a run in progress, or an event not seen, would have a run above
   it in progress or with such an event, up to the root. `MergedInOrder` says "in order" with
   positions (the k-th event of a child in its parent's stream is its k-th) instead of
   filtered sequences, because the provers know nothing of `SelectSeq`.
10. `PromptInTime`: `Spec => PromptAnswerInTime`. `AskInv` follows an approval event up the
   tree: it is in one stream only, its resolver is there and its loop waits; an iterator on
   its way is awake meanwhile, so that no timer fires.

`SubAgentsProofs`:

11. `OnlyGranted`: `Spec => []OnlyGrantedRuns`, the first conjunct of `GrantedRunsOnce`: no call
   of a child that waited for an approval runs without it. `GrantInv` follows every copy of
   a child's state (in hand, paused, terminal) and says that what it remembers of its
   approval agrees with the decisions made. That a record is of the last call that used a
   child needs a largest element of a set of calls, which the library's well-foundedness of
   `Nat` gives.
12. `GrantNotLost`: `Spec => []ApprovalNotLost`. `KeptInv` names, for every granted approval that
   has not run, the state that holds it: the paused state, the record of the last end, or
   what the resuming call has in hand. `CallsInv`, `AsksInv` and `ForkInv` say which
   of these the next run reads, which differs between the two variants of the tool.
13. `GrantedOnce`: `Spec => []GrantedRunsOnce`. `OnceInv` bounds how often a call has run by
   where its approval still is: as long as some state would run it once more, it has run
   once less.

`CredentialsProofs`, for any number of clients, providers, sessions, tasks and crashes,
from `CredentialsAssumption`, `StoreAssumption` and `StoredAssumption`:

14. `CancelStays`: `Spec => []CancelHolds`. `CancelInv` says that everything a client holds and
   everything a file says is of sessions that were granted and not refused (`StoreInv`), and
   that a login that has settled keeps its outcome (`LoginInv`); a session that is granted
   is new, so refusing it cannot make anything stored bad.
15. `StoreIsSerial`: `Spec => []SerialStore`. `SerialInv` says what every client that has read the
   file since the last write has made of it, step by step through its operation.
16. `LogoutStays`: `Spec => []LogoutHolds`. `GoneInv`: of a session that is gone nobody has
   credentials, neither a client in any of its locals nor a file it could import from.
17. `TokenKept`: `Spec => []StoredTokenWorks`. `TokenInv` adds who is about to store which token
   (`FreshInv`, `SetterInv`), what an import can bring (`ImportInv`, `OldTokenInv`), and that
   the serial entries hold the server's token once nobody is (`SerialTokenInv`).

   With four tasks of one client, one more than the run has, an earlier form of
   `StoredTokenWorks` is false: a login replaces the session that came from OpenCode's file,
   is logged out of, and the next `get` imports the old copy again. The case is one of the
   exceptions now (`Dropped`, `Shared`). `TokenInv` was checked by TLC beyond the bounds of
   the run, with one client and five tasks and with two clients and four tasks; the run
   stays at three because of its liveness property.

`PackagesProofs`, about four modules that share only this file:

18. `BillsAddUp`: `UsageSpec => []BilledOnce`. `UInv` says that what a run
   has accumulated of a model only its children call is settled, that is, reconciling it
   changes nothing that is priced, and is the sum of their bills (`Accumulated`,
   `Published`): a reconciled usage is settled, and so is the sum of two. `MCTools`
   checks the same definition.

`ConversationProofs`, about `Compaction`, from one invariant: the run's messages are coherent
with what waits for an approval (`CoherenceInv`), the messages a compaction replaced included.
`Coherent` says that calls are named by the place of their message and answered later or waiting,
that results follow their call and are not kept without it, and that what waits is not replaced.

19. `Kept`: `Spec => []ConversationKept`, the first conjunct of `NothingLost`: summary and tail
    together hold each message once, whatever cut the policies choose.
20. `Requested`: `Spec => []RequestCoherent`. A cut of `findCompactionCut` keeps the calls of all
    results it keeps, and coherence carries that over to every later cut of the tail.
21. `PendingStays`: `Spec => []PendingKept`. The calls that wait for an approval are among those a
    cut is required to keep (`containsRequiredToolCalls`).

`AgentLoopProofs`, about `FileState`, for any files, contents and batches of parallel
calls (`Batches`):

22. `OverwritesSeen`: `Spec => NoBlindOverwrite`. `OverwriteInv` says that what is verified of a
    file, what a call that was let pass finds there, and what the tracking hook recorded of it
    was seen, or the file was raced. `Merged` is a recursive function; that every prefix of the
    merge keeps the claim is shown by its smallest counterexample (`MergedVerified`).
23. `RefusesTruly`: `ShowsAll => (Spec => WastedReadTruthful)`. `ShowsAll` is `MaxKept = NumLines`
    and the read tool of `read.ts`, as in the run. Without it the property is false: the range
    recorded for a read is the one asked for, whatever the truncation hook cut off, and
    the other read tool's hash is of the file after the call (see Other divergences).

`CatalogProofs`, for any two client ids, names, depth, entries and operations
(`CatalogAssumption`: exactly two replicas, which is what the exchange is written for):

24. `OneTreeHolds`: `Spec => []OneTree`. `OneTree` speaks of walks and loops; the invariant speaks
    of one step at a time. `Tree` says that no two paths have the same entry, that an entry is
    filed where its record and its directory's link say (`Filed`), and that every entry and
    every link is at some path. `TreesAgree` derives the property from it: walks down
    (`WalkFrom`), loops up (`UpFrom`), and that no path is longer than there are entries
    (`DepthBound`), so that the loops end. `TrackInv` says of each replica that every key it
    has changed since the last exchange is about a place it worked in or about an entry it
    made. An operation changes only such keys (`About`, `CommitTracks`) and leaves a tree
    (`CreateTree`, `RenameTree`, `DeleteTree`; a rename needs `assertNoDescendantMove` for
    `MovedApart`). Replicas that worked in different places therefore changed different keys,
    and the merge has at every path all of what one of them has there (`MergedIsGood`).
    `Tree` alone is not inductive: nothing in it forbids that both replicas file different
    entries under one name. `MaxDepth` and `MaxEntries` bound the sets of keys only; that a
    rename must fit into `MaxDepth` is a guard of the model, not of the code. TLC checked the
    invariant first, also with five operations and with paths of depth three.

Also in `PackagesProofs`:

25. `ReleasesInstall`: `ReleaseSpec => []ReleaseInstalls`, for any list of packages, manifests and
    versions (`ReleaseAssumption`). `RInv` says that a job has staged what its tag says, in order
    (`Staging`), that it has passed only what is in the registry, that the registry holds
    only staged manifests of pushed tags (`Stored`), and that a version with its release is
    there as a whole (`Whole`); a break leaves it as it is, and a rerun starts from nothing staged.
    `StageIs` reduces the rewriting of a manifest to one map over its dependencies, from which
    `StagedResolves` and `StagedKeepsAll` read off what the property asks. The assumption that
    packages of the workspace ask for each other by the range `workspace` is true of every
    `package.json` of the repository and checked by none of its scripts: with another range a
    released package could ask for a version that was never published.
26. `ViewsCatchUp`: `Spec => []ViewCatchesUp`, for any comments, texts and operations on two
    replicas. `VInv` adds that a view that was notified has its microtask queued (`Viewing`) and
    that the comments of a file have anchors (`Files`); what a view shows depends on the
    anchors of those comments only (`SnapshotStays`), so that a comment made elsewhere does not
    change it before it arrives.
27. `StopsWhenItShould`: `StopSpec => []StopsWhenDue`, for any lists of the conditions of
    `stop-conditions.ts` with positive thresholds and any calls (`StopAssumption`). The code looks
    at the last step, or counts through all of them, at the end of a step; the property speaks of
    the whole history at once. What makes them agree is that the run went on before: `Quiet`
    says that no condition said stop of the steps so far, and that the check of
    `consecutiveToolFailures`, which also answers for streaks long broken, had not fired; the
    property alone does not say the latter. `CountIs` and `StreakIs` are the two counters as
    recursive functions, `ConsecutiveIs` and `TotalIs` what they come to. The counters count
    results and the property calls: never more calls than results (`CountedByCalls`), and as
    many where no failure was pushed twice (`PushedIn`, `CallsOfEntries`).

`StreamProofs` and `ConversationProofs`, about `ProviderStreams`, for answers of any number of
items, calls and pieces, and any number of faults, retries and parts of lag:

28. `StreamsKeepPromises`: `StreamsSpec => KeepsPromises`, the refinement. A part is read long
    after it was enqueued, so the step of `PartStream` it maps to is not the step that made it.
    `Leads(s, q, t)` says that each part of the queue `q` is allowed where the parts before it
    lead from `s`, and that all of them lead to `t`; `StreamInv` says that the queue leads from
    what the reader knows (`Mark(view)`) to a state in which, unless an error is among the parts,
    exactly the blocks are open and the calls made that the parser's locals stand for. That is
    `ResponsesInv` (how far each item has come determines the locals, `ResponsesMatch`; items
    come one after the other except function calls), `ChatInv` and `CodexInv`; the last two speak
    of the running attempt over what earlier ones left behind (`OwedAt`, `Past`). Each handler's
    parts lead from what its locals stood for to what they stand for afterwards, and lists of
    parts chain (`LeadsOn`), those of the calls of a delta by way of the recursive function
    `FlattenSeq` is (`FlattenIs`, `LeadsFlatten`). Reading the first part is then a step of
    `PartStream` (`ReadsPart`), all other steps leave `view` alone (`ParsersKeep`) or end the
    stream (`OverKeeps`). Blocks that remain at the end of a Codex answer may be closed in any
    order (`Orders`), which includes the code's. The assumptions are that answers are sequences
    of the item types of the interface (`AnswersAssumption`, `CodexAnswersAssumption`).
29. `CallsWhole`: `StreamsSpec => []CallsAreWhole`, by `CallsInv`. As long as nothing has
    faulted, the parser has counted as many pieces of each call as the server has sent of it
    (`Counted`), and every call in the queue or read is whole (`Sound`, `Told`). A call is made
    when its pieces are complete or in the flush; a flush without a fault comes after the
    whole body (`answer.sent = answer.totals`) or after a finish reason that excuses it (`Excused`).

Model-checked only:

- all liveness, which like ENABLED is out of reach of TLAPS here: `RunEnds`, `StreamEnds`,
  `CallsAnswered`, `Settles`, `TasksEnd`, `CallReturns`;
- what parsers and converters make of whole sequences: `ReadsWholeAnswer` of
  `ProviderStreams`, `Retold`, `AllOrNothing`,
  `HunksLand`, and of `NothingLost` what a fork hears (`ForkHears`). They fold and
  filter sequences with library operators of which the provers know no more than the name,
  and the induction theorems that would say more cannot be instantiated. A recursive function
  over `Nat` written out, as `Merged`, or the one inside `FlattenSeq`, can be reasoned about by its
  smallest counterexample;
- the properties of `Renderer`, which are about folds of the events so far, and of `Documents`
  `RangesHold` and `RecordsAgree`, which filter and merge sequences.

## Findings

**A resumed pause is forgotten** (`subagents_resume`). A child resumed by `agent_id` through the
forking tool that pauses is started again from its old record when the parent is resumed
(`agentlayer-core/src/tools/subagent.ts:251`): the granted approval is lost and the paused
state deleted. `docs/content/concepts/subagents.md:223` says "Resume parent — child will
automatically resume", and `:178` that this "applies to both default and resumable
children". `ResumedPauseContinues`.

**A failure counts twice** (`stops_failures`). The result of a call beside an ask is pushed when
the ask is found (`agent.ts:894`, `:903`) and, if the approvals are answered in flight, again when
the step settles (`:1159`, `:1167`). One failure is then two for `totalToolFailures`, which stops
the run too early. `agentlayer-core/src/stop-conditions.ts:120` says "Stop when total
(cumulative) tool execution failures reach `threshold`", and `:18` that `toolResults` "contains
one entry per tool call". `FailuresCountOnce`.

### Other divergences

Met while modelling; the models do what the code does, and the properties name each case
they have to except. None has a run of its own.

Agent loop and sub-agents.
- A stop in the preamble ends the run with the entries collected so far (`agent.ts:1827`):
  approval entries of later calls are gone, and the next run takes them for approved.
- The ask branch appends the results of allowed siblings before it waits; if every approval is
  answered in flight the normal path appends them again (`agent.ts:1157`): two results of one
  call in the messages, and two in the step (see the finding above).
- The result pushed for a denied call has `isError` false (`agent.ts:902`, `:1037`, `:1166`), so
  `toolCompleted` stops a run though the tool has not run, while `stop-conditions.ts:102` says
  "called **and** executed successfully (non-error result)".
- Dangling calls of a state without entries execute without any hook (`agent.ts:1752`), while
  `docs/content/introduction/architecture.md:56` has every call pass the pipeline.
- The entry of a stopped call is parked again by every resume (`agent.ts:1806`): `run()` ends
  with `approvalRequired` and nothing to approve, while `docs/content/concepts/state.md:112`
  says to just pass such a state to `run()`.
- Parallel calls that address one child overwrite each other's record
  (`tools/subagent.ts:361`); after a failed run a paused child's approval stays listed though
  nothing resumes it (`agent.ts:1756`).
- A fork called in a turn that a compaction cut in two loses the whole summary
  (`tools/subagent-fork.ts:34`), and the summary counts as a turn of the user for `fork_turns`.
- The bill of a child that ends after its parent's run is lost, and the compaction event
  publishes raw sums where snapshots publish reconciled ones.
- A step in which some calls fail and some succeed, or are denied, resets the streak of
  `consecutiveToolFailures`.

Files.
- The range recorded for a read is the one asked for, whatever the truncation hook left of it
  (`file-state.ts:515`). `multi_edit` and `bash` change files unseen by the hooks; an `edit`
  that is overtaken writes what it made of the content it had read.
- `/a` moved into `/b` on one replica and `/b` into `/a` on another leaves a cycle of parents on
  which loops do not return (`yjs-fs/src/filesystem/catalog.ts:229`). `createFile` may leave a
  record without a link; concurrent whole-file writes are concatenated, typing into a Y.Text
  never updates the size, and concurrent toggles leave a resolver on an open comment.
- A React view misses a change between its first render and its effect
  (`yjs-fs-react/src/index.tsx:121`).
- Patches: lines before the first `@@` are skipped, an empty line inside a chunk is ignored, a
  trailing blank line is lost, a heredoc adds a newline; on yjs-fs an add or move onto an
  existing path fails after earlier operations were applied; on disk a move onto itself
  deletes the file.
- Processes: a helper that ignores SIGTERM survives if its leader has exited; a timeout that
  fires after the exit still reports `timedOut`.

Providers.
- A Codex stream retried in the middle repeats text and calls; retries of opening a WebSocket
  nest inside the retries of the stream; a close with 1000 or 1005, or the end of an SSE
  body, ends a stream without a finish part; frames beyond the queue's 128 are dropped
  silently; `controller.error` drops parts that were not read yet.
- The stream of the Responses model calls every hosted web search `web_search`
  (`openai-responses-language-model.ts:1020`, `:1028`), though it has begun its input under the
  name of the caller's tool (`:901`, `:908`), which is what `doGenerate` calls it (`:638`, `:646`).
- The flush of the Chat model makes calls of truncated arguments. An `error` event of the
  Responses interface does not end its stream. Partial images are results of their own.
- Codex and Chat requests drop hosted results and the mark that a call was hosted, so that call goes
  out unanswered. The Responses model writes metadata of reasoning under `openai` and its
  converter reads `copilot`; states sanitized for persistence lose item ids, so their
  encrypted reasoning is never sent again. A `break` after the output of a local shell leaves
  the loop over results (`convert-to-openai-responses-input.ts:297`). Unknown provider
  tools, and for Codex the limits, stop sequences and response format, are left out silently.

Credentials, rendering, release.
- `get` imports from OpenCode's file what may be older than the file has by now
  (`agentlayer-provider-auth/src/auth.ts:102`), and brings back what was logged out. A crash
  between truncating and writing leaves a file that no operation can read.
- When arguments are not streamed, the end of one scope's step shows the partial arguments
  of another scope's call; what was seen of an aborted step hides the next
  message of the same scope; the rest of a thought is labelled again.
- After a partial publish every rerun is refused at the first package;
  `agentlayer-yjs-fs` is published before the `yjs-fs` it depends on; internal packages among
  `optionalDependencies` are dropped without a report.

## Not modelled

- The hook library, the tools `web-fetch`, `grep`, `glob`, `bash` and `edit` as matchers: one
  text or one operation on the outside world each, without state that outlives the call.
  What the hooks need of them is in `FileState`.
- Prompts, event texts, colours, prices, the model registry: wording and lookup.
- The bindings of yjs-fs to just-bash and secure-exec, the applications (codelayer,
  docs-agent, yjs-fs-agents), the documentation site and the examples: they pass calls on or
  configure the rest.
- Of the vendored client, the protocols and the tool runtime the providers do not use.
- Inside modelled parts: tool and hook state maps other than those of the file hooks; token
  arithmetic of the compaction policy (a threshold is reached or not); CRLF, encodings and
  binary files; PKCE codes and the claims of tokens; updates between replicas that travel
  one way or in part, and more than two replicas; Windows processes; other storage than the
  credentials file.
