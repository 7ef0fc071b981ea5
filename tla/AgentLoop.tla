----------------------------- MODULE AgentLoop -----------------------------
(***************************************************************************)
(* One Agent of agentlayer-core across the runs of one conversation: the   *)
(* loop of Agent.executeLoop, the tool-call pipeline resolveToolCall that  *)
(* Promise.all runs for every call of a step, the preamble that settles    *)
(* calls a previous run left dangling, approvals resolved in flight        *)
(* (AgentRun.resolveApproval) and between runs (withApprovals), and every  *)
(* way a run can finish.                                                   *)
(*                                                                         *)
(* Tool calls are numbered in the order the model emits them, so numeric   *)
(* order is the order of the calls inside the assistant message.  What the *)
(* model, hooks and tools answer is nondeterministic; the constants say    *)
(* which answers the agent's configuration can produce.                    *)
(***************************************************************************)
EXTENDS Integers, FiniteSets, FiniteSetsExt

CONSTANTS
  MaxCalls,         \* bound: tool calls the model emits in the conversation
  MaxRuns,          \* bound: runs the caller starts
  MaxSteps,         \* AgentConfig.maxSteps: a number, or Unlimited when it is not given
  Unlimited,
  ApprovalVerdicts, \* results of the approval hook chain
  PreVerdicts,      \* results of the preToolUse hook chain
  ToolEndings,      \* how a tool's execute may end
  StopTimings,      \* timings at which a stopWhen condition may fire
  LiveApprovals,    \* the consumer may answer an approval while the run waits
  Throws            \* hooks, unknown tools and the model call may throw

Calls == 1..MaxCalls

ASSUME AgentLoopAssumption ==
  /\ MaxCalls \in Nat /\ MaxRuns \in Nat /\ MaxSteps \in Nat \cup {Unlimited}
  /\ ApprovalVerdicts \subseteq {"next", "deny", "ask"}
  /\ PreVerdicts \subseteq {"next", "toolResult", "stop"}
  /\ ToolEndings \subseteq {"executed", "stopped", "paused"}
  /\ StopTimings \subseteq {"beforeExecution", "afterExecution"}
  /\ LiveApprovals \in BOOLEAN /\ Throws \in BOOLEAN

VARIABLES
  \* the conversation: AgentState.messages and AgentState.pendingToolCalls
  issued,     \* calls emitted so far: 1..issued
  batch,      \* tool calls of the last assistant message
  textLast,   \* the last message is an assistant message without tool calls
  results,    \* tool-result messages recorded for each call
  pending,    \* pendingToolCalls of the state the last run ended with
  finish,     \* finishReason of the last run, "none" before the first
  runs,       \* runs started
  \* locals of the run in progress
  phase, steps, aborted,
  stage,      \* progress of resolveToolCall, then the kind of its outcome
  excluded,   \* outcomes whose StopOptions.include is false
  dropping,   \* outcomes whose StopOptions.dropParallel is true
  todo,       \* calls a sequential loop has still to visit
  parked,     \* pendingToolCalls being collected
  resolvers,  \* AgentRun.pendingResolvers
  granted,    \* calls approved in flight
  \* history
  late,       \* pipelines still running after their run ended by a throw
  execs,      \* completed executions of each call's tool
  consent,    \* calls an approval hook let pass or a decision approved
  errors      \* runs that ended by a throw

convVars == <<issued, batch, textLast, results, pending, finish, runs>>
runVars == <<phase, steps, aborted, stage, excluded, dropping, todo, parked, resolvers, granted>>
histVars == <<late, execs, consent, errors>>
vars == <<convVars, runVars, histVars>>

Entries == {"none", "approval", "stopped", "subAgent"}
InFlight == {"approval", "pre", "exec"}
OutcomeKinds == {"executed", "stopped", "paused", "denied", "toolResult", "ask", "hookStop"}
Phases == {"idle", "preamble", "head", "model", "resolve", "wait", "live", "settle"}
FinishReasons == {"complete", "maxSteps", "stopCondition", "approvalRequired", "interrupted", "error"}

NoEntries == [c \in Calls |-> "none"]
AllIdle == [c \in Calls |-> "none"]
\* Mutant: the preamble forgets which calls already have a result.
UnresolvedAll == batch
Unresolved == {c \in batch : results[c] = 0}
OfKind(kinds) == {c \in batch : stage[c] \in kinds}
\* MessageSink.append of one tool-result message for every call of S.
Recorded(S) == [c \in Calls |-> IF c \in S THEN results[c] + 1 ELSE results[c]]

\* The sequential loops visit the calls in message order.
IsNext(c) == c \in todo /\ \A d \in todo : c <= d

Init ==
  /\ issued = 0 /\ batch = {} /\ textLast = FALSE
  /\ results = [c \in Calls |-> 0]
  /\ pending = NoEntries /\ finish = "none" /\ runs = 0
  /\ phase = "idle" /\ steps = 0 /\ aborted = FALSE
  /\ stage = AllIdle /\ excluded = {} /\ dropping = {}
  /\ todo = {} /\ parked = NoEntries /\ resolvers = {} /\ granted = {}
  /\ late = {} /\ execs = [c \in Calls |-> 0] /\ consent = {} /\ errors = 0

\* finishRun: the state snapshot carries `entries` as its pendingToolCalls.
Finish(reason, entries) ==
  /\ finish' = reason /\ pending' = entries
  /\ phase' = "idle" /\ steps' = 0 /\ aborted' = FALSE
  /\ stage' = AllIdle /\ excluded' = {} /\ dropping' = {}
  /\ todo' = {} /\ parked' = NoEntries /\ resolvers' = {} /\ granted' = {}

-----------------------------------------------------------------------------
(* The caller, between runs.                                               *)

StartRun ==
  /\ phase = "idle" /\ runs < MaxRuns
  /\ runs' = runs + 1
  /\ \/ /\ textLast                       \* InvalidMessagesError in the preamble
        /\ Finish("error", NoEntries)
     \/ /\ ~textLast
        /\ phase' = "preamble" /\ todo' = Unresolved
        /\ UNCHANGED <<pending, finish, steps, aborted, stage, excluded, dropping, parked, resolvers, granted>>
  /\ UNCHANGED <<issued, batch, textLast, results, histVars>>

AppendUserMessage ==
  /\ phase = "idle" /\ textLast
  /\ textLast' = FALSE
  /\ UNCHANGED <<issued, batch, results, pending, finish, runs, runVars, histVars>>

\* The caller appends a tool result of its own for a dangling call.
ProvideResult(c) ==
  /\ phase = "idle" /\ c \in Unresolved
  /\ results' = Recorded({c})
  /\ UNCHANGED <<issued, batch, textLast, pending, finish, runs, runVars, histVars>>

\* withApprovals, one decision at a time.  The caller decides only calls it has not
\* answered itself.
ApplyDecision(c, approved) ==
  /\ phase = "idle" /\ pending[c] = "approval" /\ results[c] = 0
  /\ pending' = [pending EXCEPT ![c] = "none"]
  /\ results' = IF approved THEN results ELSE Recorded({c})
  /\ consent' = IF approved THEN consent \cup {c} ELSE consent \ {c}
  /\ UNCHANGED <<issued, batch, textLast, finish, runs, runVars, late, execs, errors>>

-----------------------------------------------------------------------------
(* resolveToolCall: approval hooks, preToolUse hooks, execution.           *)

Working == phase \in {"preamble", "resolve", "live"}

RunApprovalHooks(c) ==
  /\ phase = "resolve" /\ stage[c] = "approval"
  /\ \E v \in ApprovalVerdicts :
       /\ stage' = [stage EXCEPT ![c] = CASE v = "next" -> "pre"
                                          [] v = "deny" -> "denied"
                                          [] OTHER -> "ask"]
       /\ consent' = IF v = "next" THEN consent \cup {c} ELSE consent
  /\ UNCHANGED <<convVars, phase, steps, aborted, excluded, dropping, todo, parked, resolvers, granted, late, execs, errors>>

\* StopOptions of a stopping hook or tool.
ChooseStopOptions(c) ==
  /\ excluded' \in {excluded, excluded \cup {c}}
  /\ dropping' \in {dropping, dropping \cup {c}}

RunPreToolUseHooks(c) ==
  /\ Working /\ stage[c] = "pre"
  /\ \/ /\ "next" \in PreVerdicts
        /\ stage' = [stage EXCEPT ![c] = "exec"]
        /\ UNCHANGED <<excluded, dropping>>
     \/ /\ "toolResult" \in PreVerdicts
        /\ stage' = [stage EXCEPT ![c] = "toolResult"]
        /\ UNCHANGED <<excluded, dropping>>
     \/ /\ "stop" \in PreVerdicts
        /\ stage' = [stage EXCEPT ![c] = "hookStop"]
        /\ ChooseStopOptions(c)
  /\ UNCHANGED <<convVars, phase, steps, aborted, todo, parked, resolvers, granted, histVars>>

\* A tool that throws still yields a result; one that pauses for its
\* sub-agent has not completed.
executeToolCall(c, e) ==
  /\ stage' = [stage EXCEPT ![c] = e]
  /\ execs' = IF e = "paused" THEN execs ELSE [execs EXCEPT ![c] = @ + 1]
  /\ IF e = "stopped" THEN ChooseStopOptions(c) ELSE UNCHANGED <<excluded, dropping>>

Execute(c) ==
  /\ Working /\ stage[c] = "exec"
  /\ \E e \in ToolEndings : executeToolCall(c, e)
  /\ UNCHANGED <<convVars, phase, steps, aborted, todo, parked, resolvers, granted, late, consent, errors>>

\* An exception in a hook, in an input that does not parse or in the lookup of an unknown
\* tool rejects the step (in a postToolUse hook: after the tool ran).  Promise.all cancels
\* nothing, so the other pipelines of the step go on by themselves.
Throw(c) ==
  /\ Throws /\ Working /\ stage[c] \in InFlight
  /\ execs' \in {execs} \cup (IF stage[c] = "exec" THEN {[execs EXCEPT ![c] = @ + 1]} ELSE {})
  /\ late' = late \cup (OfKind(InFlight) \ {c})
  /\ errors' = errors + 1
  /\ \E reason \in {"error"} \cup (IF aborted THEN {"interrupted"} ELSE {}) : Finish(reason, NoEntries)
  /\ UNCHANGED <<issued, batch, textLast, results, runs, consent>>

\* A pipeline orphaned by Throw reaches its tool, or ends without executing it.
RunLate(c) ==
  /\ c \in late
  /\ late' = late \ {c}
  /\ \/ execs' = [execs EXCEPT ![c] = @ + 1] /\ consent' = consent \cup {c}
     \/ UNCHANGED <<execs, consent>>
  /\ UNCHANGED <<convVars, runVars, errors>>

-----------------------------------------------------------------------------
(* The preamble, executeDanglingToolCalls: calls in message order.         *)

InHand(c) == phase = "preamble" /\ IsNext(c)
Visited(c) ==
  /\ todo' = todo \ {c} /\ stage' = [stage EXCEPT ![c] = "none"]
  /\ excluded' = excluded \ {c} /\ dropping' = dropping \ {c}
NoStatePending == \A c \in Calls : pending[c] = "none"

\* Mutant: only stopped calls are skipped.
ParksStopped(c) == pending[c] = "stopped"
Parks(c) == pending[c] \in {"approval", "stopped"}

PreamblePark(c) ==
  /\ InHand(c) /\ Parks(c)
  /\ parked' = [parked EXCEPT ![c] = pending[c]]
  /\ Visited(c)
  /\ UNCHANGED <<convVars, phase, steps, aborted, resolvers, granted, histVars>>

\* Without any pending entry the call goes straight to executeToolCall; otherwise through
\* resolveToolCall with skipApproval.
PreambleBegin(c) ==
  /\ InHand(c) /\ stage[c] = "none" /\ ~Parks(c)
  /\ stage' = [stage EXCEPT ![c] = IF NoStatePending THEN "exec" ELSE "pre"]
  /\ UNCHANGED <<convVars, phase, steps, aborted, excluded, dropping, todo, parked, resolvers, granted, histVars>>

\* No pending entries: whatever the tool returned is appended.
PreamblePlainResult(c) ==
  /\ InHand(c) /\ NoStatePending /\ stage[c] \in OutcomeKinds
  /\ results' = Recorded({c})
  /\ Visited(c)
  /\ UNCHANGED <<issued, batch, textLast, pending, finish, runs, phase, steps, aborted, parked, resolvers, granted, histVars>>

\* The call of a sub-agent entry: only an execution leaves a trace.
PreambleSubAgent(c) ==
  /\ InHand(c) /\ pending[c] = "subAgent" /\ stage[c] \in OutcomeKinds
  /\ parked' = IF stage[c] = "paused" THEN [parked EXCEPT ![c] = "subAgent"] ELSE parked
  /\ results' = IF stage[c] \in {"executed", "stopped"} THEN Recorded({c}) ELSE results
  /\ Visited(c)
  /\ UNCHANGED <<issued, batch, textLast, pending, finish, runs, phase, steps, aborted, resolvers, granted, histVars>>

\* A call without entry beside calls with one.
PreambleUnmatched(c) ==
  /\ InHand(c) /\ ~NoStatePending /\ pending[c] = "none"
  /\ stage[c] \in {"executed", "toolResult", "paused"}
  /\ parked' = IF stage[c] = "paused" THEN [parked EXCEPT ![c] = "subAgent"] ELSE parked
  /\ results' = IF stage[c] # "paused" THEN Recorded({c}) ELSE results
  /\ Visited(c)
  /\ UNCHANGED <<issued, batch, textLast, pending, finish, runs, phase, steps, aborted, resolvers, granted, histVars>>

\* A stop ends the run at once, with the entries parked so far.
PreambleStop(c) ==
  /\ InHand(c) /\ ~NoStatePending /\ pending[c] = "none"
  /\ stage[c] \in {"hookStop", "stopped"}
  /\ results' = IF c \in excluded THEN results ELSE Recorded({c})
  /\ Finish("stopCondition", [parked EXCEPT ![c] = "stopped"])
  /\ UNCHANGED <<issued, batch, textLast, runs, histVars>>

PreambleEnd ==
  /\ phase = "preamble" /\ todo = {}
  /\ \/ /\ parked # NoEntries
        /\ Finish("approvalRequired", parked)
     \/ /\ parked = NoEntries
        /\ phase' = "head"
        /\ UNCHANGED <<pending, finish, steps, aborted, stage, excluded, dropping, todo, parked, resolvers, granted>>
  /\ UNCHANGED <<issued, batch, textLast, results, runs, histVars>>

-----------------------------------------------------------------------------
(* The main loop up to the model's answer.                                 *)

Abort ==
  /\ phase # "idle" /\ ~aborted
  /\ aborted' = TRUE
  /\ UNCHANGED <<convVars, phase, steps, stage, excluded, dropping, todo, parked, resolvers, granted, histVars>>

hasMaxStepsLimit == MaxSteps # Unlimited
StepsLeft == hasMaxStepsLimit => steps < MaxSteps

LoopHead ==
  /\ phase = "head"
  /\ \/ /\ ~StepsLeft
        /\ Finish("maxSteps", NoEntries)
     \/ /\ StepsLeft /\ aborted
        /\ Finish("interrupted", NoEntries)
     \/ /\ StepsLeft /\ ~aborted
        /\ phase' = "model"
        /\ UNCHANGED <<pending, finish, steps, aborted, stage, excluded, dropping, todo, parked, resolvers, granted>>
  /\ UNCHANGED <<issued, batch, textLast, results, runs, histVars>>

ModelFails ==
  /\ phase = "model"
  /\ \/ Throws /\ Finish("error", NoEntries)
     \/ aborted /\ Finish("interrupted", NoEntries)
  /\ UNCHANGED <<issued, batch, textLast, results, runs, histVars>>

\* An answer of text completes the run.
ModelAnswers ==
  /\ phase = "model"
  /\ batch' = {} /\ textLast' = TRUE
  /\ Finish("complete", NoEntries)
  /\ UNCHANGED <<issued, results, runs, histVars>>

\* The model emits k tool calls (none: an answer of reasoning only); a beforeExecution condition may stop before any hook ran.
ModelCallsTools(k) ==
  /\ phase = "model" /\ issued + k <= MaxCalls
  /\ issued' = issued + k
  /\ batch' = (issued + 1)..(issued + k) /\ textLast' = (k = 0)
  /\ \/ /\ "beforeExecution" \in StopTimings
        /\ Finish("stopCondition", NoEntries)
     \/ /\ phase' = "resolve"
        /\ stage' = [c \in Calls |-> IF c \in batch' THEN "approval" ELSE "none"]
        /\ UNCHANGED <<pending, finish, steps, aborted, excluded, dropping, todo, parked, resolvers, granted>>
  /\ UNCHANGED <<results, runs, histVars>>

-----------------------------------------------------------------------------
(* After Promise.all: classify the outcomes.                               *)

AllResolved == phase = "resolve" /\ OfKind(InFlight) = {}
Asks == OfKind({"ask"})
Pauses == OfKind({"paused"})

ResolveWithoutAsk ==
  /\ AllResolved /\ Asks = {} /\ Pauses = {}
  /\ phase' = "settle"
  /\ UNCHANGED <<convVars, steps, aborted, stage, excluded, dropping, todo, parked, resolvers, granted, histVars>>

AskEntries ==
  [c \in Calls |-> IF c \notin batch THEN "none"
                   ELSE CASE stage[c] = "ask" -> "approval"
                          [] stage[c] = "paused" -> "subAgent"
                          [] stage[c] = "hookStop" -> "stopped"
                          [] OTHER -> "none"]

\* Mutants: a pause counts as a result; the results of executed siblings get lost.
AllowedAndPaused == OfKind({"executed", "stopped", "paused", "denied", "toolResult"})
Allowed == OfKind({"executed", "stopped", "denied", "toolResult"})

\* Results of the other calls are appended; asks get a resolver and an event, and the loop
\* yields one macrotask.  Pauses alone end the run.
ResolveWithAsk ==
  /\ AllResolved /\ (Asks # {} \/ Pauses # {})
  /\ results' = Recorded(Allowed)
  /\ \/ /\ Asks = {}
        /\ Finish("approvalRequired", AskEntries)
     \/ /\ Asks # {}
        /\ phase' = "wait" /\ parked' = AskEntries /\ resolvers' = Asks
        /\ UNCHANGED <<pending, finish, steps, aborted, stage, excluded, dropping, todo, granted>>
  /\ UNCHANGED <<issued, batch, textLast, runs, histVars>>

\* run.resolveApproval while the loop waits.
ResolveApproval(c, approved) ==
  /\ LiveApprovals /\ phase = "wait" /\ c \in resolvers
  /\ resolvers' = resolvers \ {c}
  /\ granted' = IF approved THEN granted \cup {c} ELSE granted
  /\ consent' = IF approved THEN consent \cup {c} ELSE consent
  /\ UNCHANGED <<convVars, phase, steps, aborted, stage, excluded, dropping, todo, parked, late, execs, errors>>

\* Mutant: a paused sub-agent does not end the run once the approvals are answered.
AwaitsApproval == resolvers # {}
AwaitsDecision == resolvers # {} \/ Pauses # {}

\* Mutant: the loop waits until every decision has come.
WaitOn ==
  /\ phase = "wait"
  /\ \/ /\ AwaitsDecision
        /\ UNCHANGED <<pending, finish, phase, steps, aborted, stage, excluded, dropping, todo, parked, resolvers, granted>>
     \/ /\ ~AwaitsDecision
        /\ phase' = "live" /\ todo' = Asks /\ parked' = NoEntries
        /\ UNCHANGED <<pending, finish, steps, aborted, stage, excluded, dropping, resolvers, granted>>
  /\ UNCHANGED <<issued, batch, textLast, results, runs, histVars>>
WaitEnds ==
  /\ phase = "wait"
  /\ \/ /\ AwaitsDecision
        /\ Finish("approvalRequired", parked)
     \/ /\ ~AwaitsDecision
        /\ phase' = "live" /\ todo' = Asks /\ parked' = NoEntries
        /\ UNCHANGED <<pending, finish, steps, aborted, stage, excluded, dropping, resolvers, granted>>
  /\ UNCHANGED <<issued, batch, textLast, results, runs, histVars>>

Deciding(c) == phase = "live" /\ IsNext(c)

LiveDenial(c) ==
  /\ Deciding(c) /\ stage[c] = "ask" /\ c \notin granted
  /\ results' = Recorded({c})
  /\ todo' = todo \ {c}
  /\ UNCHANGED <<issued, batch, textLast, pending, finish, runs, phase, steps, aborted, stage, excluded, dropping, parked, resolvers, granted, histVars>>

LiveBegin(c) ==
  /\ Deciding(c) /\ stage[c] = "ask" /\ c \in granted
  /\ stage' = [stage EXCEPT ![c] = "pre"]
  /\ UNCHANGED <<convVars, phase, steps, aborted, excluded, dropping, todo, parked, resolvers, granted, histVars>>

\* Only an execution is recorded.  The entry of `outcomes` stays the ask it was.
LiveResult(c) ==
  /\ Deciding(c) /\ stage[c] \in OutcomeKinds \ {"ask"}
  /\ results' = IF stage[c] \in {"executed", "stopped", "paused"} THEN Recorded({c}) ELSE results
  /\ stage' = [stage EXCEPT ![c] = "ask"]
  /\ excluded' = excluded \ {c} /\ dropping' = dropping \ {c}
  /\ todo' = todo \ {c}
  /\ UNCHANGED <<issued, batch, textLast, pending, finish, runs, phase, steps, aborted, parked, resolvers, granted, histVars>>

LiveEnds ==
  /\ phase = "live" /\ todo = {}
  /\ phase' = "settle"
  /\ UNCHANGED <<convVars, steps, aborted, stage, excluded, dropping, todo, parked, resolvers, granted, histVars>>

-----------------------------------------------------------------------------
(* The stop branch and the normal path.                                    *)

HookStops == OfKind({"hookStop"})
ExecStops == OfKind({"stopped"})
AnyStop == Min(IF HookStops # {} THEN HookStops ELSE ExecStops)
DropParallel == AnyStop \in dropping
\* A tool that stopped decides by its own include; a hook that stopped by include and
\* dropParallel; a sibling by dropParallel.
Appended ==
  (IF DropParallel THEN {} ELSE OfKind({"executed", "denied", "toolResult"}) \cup (HookStops \ excluded))
    \cup (ExecStops \ excluded)

SettleStop ==
  /\ phase = "settle" /\ HookStops \cup ExecStops # {}
  /\ results' = Recorded(Appended)
  /\ Finish("stopCondition", [c \in Calls |-> IF c \in (batch \ Asks) \ Appended THEN "stopped" ELSE "none"])
  /\ UNCHANGED <<issued, batch, textLast, runs, histVars>>

\* Steps are counted for the limit alone.  Mutant: the step is not counted.
SameStep == steps
NextStep == IF hasMaxStepsLimit THEN steps + 1 ELSE steps

SettleNormal ==
  /\ phase = "settle" /\ HookStops \cup ExecStops = {}
  /\ results' = Recorded(OfKind({"executed", "denied", "toolResult"}))
  /\ \/ /\ "afterExecution" \in StopTimings
        /\ Finish("stopCondition", NoEntries)
     \/ /\ phase' = "head" /\ steps' = NextStep
        /\ stage' = AllIdle /\ excluded' = {} /\ dropping' = {} /\ granted' = {}
        /\ UNCHANGED <<pending, finish, aborted, todo, parked, resolvers>>
  /\ UNCHANGED <<issued, batch, textLast, runs, histVars>>

-----------------------------------------------------------------------------

Caller ==
  \/ StartRun
  \/ AppendUserMessage
  \/ \E c \in Calls : ProvideResult(c)
  \/ \E c \in Calls, approved \in BOOLEAN : ApplyDecision(c, approved)

Pipeline(c) ==
  \/ RunApprovalHooks(c)
  \/ RunPreToolUseHooks(c)
  \/ Execute(c)
  \/ Throw(c)

Preamble ==
  \/ \E c \in Calls : \/ PreamblePark(c)
                      \/ PreambleBegin(c)
                      \/ PreamblePlainResult(c)
                      \/ PreambleSubAgent(c)
                      \/ PreambleUnmatched(c)
                      \/ PreambleStop(c)
  \/ PreambleEnd

Model ==
  \/ LoopHead
  \/ ModelFails
  \/ ModelAnswers
  \/ \E k \in 0..MaxCalls : ModelCallsTools(k)

Outcome ==
  \/ ResolveWithoutAsk
  \/ ResolveWithAsk
  \/ WaitEnds
  \/ \E c \in Calls : LiveDenial(c) \/ LiveBegin(c) \/ LiveResult(c)
  \/ LiveEnds
  \/ SettleStop
  \/ SettleNormal

\* What the loop itself does next; everything else is the environment.
LoopStep == (\E c \in Calls : Pipeline(c)) \/ Preamble \/ Model \/ Outcome

\* The caller may never start another run.
Rest == phase = "idle" /\ UNCHANGED vars

Next ==
  \/ Caller
  \/ LoopStep
  \/ Abort
  \/ \E c \in Calls : RunLate(c)
  \/ \E c \in Calls, approved \in BOOLEAN : ResolveApproval(c, approved)
  \/ Rest

Spec == Init /\ [][Next]_vars

\* Promises settle: hooks, tools and the model answer, and the microtasks and the timer of
\* the loop run.
FairSpec == Spec /\ WF_vars(LoopStep)
-----------------------------------------------------------------------------

\* Types of the variables, and the bounds that the guards enforce.
TypeOK ==
  /\ issued \in 0..MaxCalls /\ batch \subseteq Calls /\ textLast \in BOOLEAN
  /\ results \in [Calls -> Nat] /\ pending \in [Calls -> Entries]
  /\ finish \in FinishReasons \cup {"none"} /\ runs \in 0..MaxRuns
  /\ phase \in Phases /\ steps \in Nat /\ aborted \in BOOLEAN
  /\ stage \in [Calls -> InFlight \cup OutcomeKinds \cup {"none"}]
  /\ excluded \subseteq Calls /\ dropping \subseteq Calls
  /\ todo \subseteq Calls /\ parked \in [Calls -> Entries]
  /\ resolvers \subseteq Calls /\ granted \subseteq Calls
  /\ late \subseteq Calls /\ execs \in [Calls -> Nat]
  /\ consent \subseteq Calls /\ errors \in Nat

\* A call whose result is in the conversation is never executed again, however many runs
\* resume it (the resolvedToolCallIds filter of the preamble, the order of append and
\* re-execution on the live path); only a pipeline its own failed run left behind may.
RecordedNeverRerun ==
  [][\A c \in Calls : execs'[c] > execs[c] /\ c \notin late => results[c] = 0]_vars

\* The conversation holds at most one tool result per call.
AtMostOneResult == \A c \in Calls : results[c] <= 1

\* Whenever a run ends, each entry a later run would resume or wait for (an approval, a
\* paused sub-agent) belongs to a call of the last assistant message that has no result.
EntriesDangle ==
  [][phase # "idle" /\ phase' = "idle" =>
       \A c \in Calls : pending'[c] \in {"approval", "subAgent"} => c \in batch' /\ results'[c] = 0]_vars

\* Every run finishes, whichever branch it takes; without a limit on its steps, unless the
\* model calls tools (or only reasons) for ever.
RunEnds ==
  \/ phase # "idle" ~> phase = "idle"
  \/ ~hasMaxStepsLimit /\ []<><<\E k \in 0..MaxCalls : ModelCallsTools(k)>>_vars

\* No tool runs without an approval hook that let the call pass or a decision that
\* approved it: neither denied nor undecided calls execute, in any later run either.
ConsentGate == \A c \in Calls : execs[c] > 0 => c \in consent

\* A request to the model never contains a tool call without its result.
RequestAnswered == phase = "model" => \A c \in 1..issued : results[c] > 0
=============================================================================
