-------------------------- MODULE AgentLoopProofs --------------------------
(***************************************************************************)
(* Theorems about AgentLoop, for every number of calls, runs and steps and *)
(* every configuration of hooks, tools and stop conditions; and about      *)
(* FileState, the hooks around its file tools: no call overwrites what the *)
(* model has not seen, and a reminder that lines are in the context is     *)
(* true; for any files, contents and parallel calls and any changes by     *)
(* other programs.                                                         *)
(***************************************************************************)
EXTENDS AgentLoop, FileState, WellFoundedInduction, TLAPS

-----------------------------------------------------------------------------
(* Lemmas about the operators the actions share.                           *)

\* Appending results keeps the type of the result counters.
LEMMA RecordedType ==
  ASSUME NEW S, results \in [Calls -> Nat]
  PROVE  Recorded(S) \in [Calls -> Nat]
BY DEF Recorded

\* Finishing a run resets its locals and stores the reason and entries given.
LEMMA FinishType ==
  ASSUME NEW reason \in FinishReasons, NEW entries \in [Calls -> Entries],
         Finish(reason, entries)
  PROVE  /\ finish' \in FinishReasons \cup {"none"} /\ pending' \in [Calls -> Entries]
         /\ phase' \in Phases /\ steps' \in Nat /\ aborted' \in BOOLEAN
         /\ stage' \in [Calls -> InFlight \cup OutcomeKinds \cup {"none"}]
         /\ excluded' \subseteq Calls /\ dropping' \subseteq Calls
         /\ todo' \subseteq Calls /\ parked' \in [Calls -> Entries]
         /\ resolvers' \subseteq Calls /\ granted' \subseteq Calls
BY DEF Finish, Phases, AllIdle, NoEntries, Entries

LEMMA EntriesType == NoEntries \in [Calls -> Entries] /\ AskEntries \in [Calls -> Entries]
BY DEF NoEntries, AskEntries, Entries

LEMMA InitTypeOK == Init => TypeOK
<1> SUFFICES ASSUME Init PROVE TypeOK
  OBVIOUS
<1>1. issued \in 0..MaxCalls /\ runs \in 0..MaxRuns
  BY AgentLoopAssumption DEF Init
<1>2. /\ stage \in [Calls -> InFlight \cup OutcomeKinds \cup {"none"}]
      /\ pending \in [Calls -> Entries] /\ parked \in [Calls -> Entries]
  BY DEF Init, AllIdle, NoEntries, Entries
<1>3. results \in [Calls -> Nat] /\ execs \in [Calls -> Nat]
  BY DEF Init
<1> QED BY <1>1, <1>2, <1>3 DEF Init, TypeOK, Phases

-----------------------------------------------------------------------------
(* Type correctness, one lemma per group of actions.                       *)

LEMMA CallerType == ASSUME TypeOK, Caller PROVE TypeOK'
<1> USE DEF TypeOK, convVars, runVars, histVars
<1>1. CASE StartRun
  <2>1. runs' \in 0..MaxRuns
    BY <1>1, AgentLoopAssumption DEF StartRun
  <2>2. CASE textLast
    BY <1>1, <2>1, <2>2, FinishType, EntriesType DEF StartRun, FinishReasons
  <2>3. CASE ~textLast
    BY <1>1, <2>1, <2>3 DEF StartRun, Phases, Unresolved
  <2> QED BY <2>2, <2>3
<1>2. CASE AppendUserMessage
  BY <1>2 DEF AppendUserMessage
<1>3. ASSUME NEW c \in Calls, ProvideResult(c) PROVE TypeOK'
  BY <1>3, RecordedType DEF ProvideResult
<1>4. ASSUME NEW c \in Calls, NEW approved \in BOOLEAN, ApplyDecision(c, approved) PROVE TypeOK'
  BY <1>4, RecordedType DEF ApplyDecision, Entries
<1> QED BY <1>1, <1>2, <1>3, <1>4 DEF Caller

LEMMA PipelineType == ASSUME TypeOK, NEW c \in Calls, Pipeline(c) PROVE TypeOK'
<1> USE DEF TypeOK, convVars, runVars, histVars
<1>1. CASE RunApprovalHooks(c)
  BY <1>1 DEF RunApprovalHooks, InFlight, OutcomeKinds
<1>2. CASE RunPreToolUseHooks(c)
  BY <1>2 DEF RunPreToolUseHooks, ChooseStopOptions, InFlight, OutcomeKinds
<1>3. CASE Execute(c)
  BY <1>3, AgentLoopAssumption DEF Execute, executeToolCall, ChooseStopOptions, InFlight, OutcomeKinds
<1>4. CASE Throw(c)
  <2>1. PICK reason \in FinishReasons : Finish(reason, NoEntries)
    BY <1>4 DEF Throw, FinishReasons
  <2>2. late' \subseteq Calls /\ execs' \in [Calls -> Nat] /\ errors' \in Nat
    BY <1>4 DEF Throw, OfKind
  <2> QED
    BY <1>4, <2>1, <2>2, FinishType, EntriesType DEF Throw
<1> QED BY <1>1, <1>2, <1>3, <1>4 DEF Pipeline

LEMMA PreambleType == ASSUME TypeOK, Preamble PROVE TypeOK'
<1> USE DEF TypeOK, convVars, runVars, histVars
<1>1. ASSUME NEW c \in Calls, PreamblePark(c) PROVE TypeOK'
  BY <1>1 DEF PreamblePark, Visited
<1>2. ASSUME NEW c \in Calls, PreambleBegin(c) PROVE TypeOK'
  BY <1>2 DEF PreambleBegin, InFlight
<1>3. ASSUME NEW c \in Calls, PreamblePlainResult(c) PROVE TypeOK'
  BY <1>3, RecordedType DEF PreamblePlainResult, Visited
<1>4. ASSUME NEW c \in Calls, PreambleSubAgent(c) PROVE TypeOK'
  BY <1>4, RecordedType DEF PreambleSubAgent, Visited, Entries
<1>5. ASSUME NEW c \in Calls, PreambleUnmatched(c) PROVE TypeOK'
  BY <1>5, RecordedType DEF PreambleUnmatched, Visited, Entries
<1>6. ASSUME NEW c \in Calls, PreambleStop(c) PROVE TypeOK'
  <2>1. [parked EXCEPT ![c] = "stopped"] \in [Calls -> Entries]
    BY DEF Entries
  <2> QED BY <1>6, <2>1, FinishType, RecordedType DEF PreambleStop, FinishReasons
<1>7. CASE PreambleEnd
  <2>1. CASE parked # NoEntries
    BY <1>7, <2>1, FinishType DEF PreambleEnd, FinishReasons
  <2>2. CASE parked = NoEntries
    BY <1>7, <2>2 DEF PreambleEnd, Phases
  <2> QED BY <2>1, <2>2
<1> QED BY <1>1, <1>2, <1>3, <1>4, <1>5, <1>6, <1>7 DEF Preamble

LEMMA ModelType == ASSUME TypeOK, Model PROVE TypeOK'
<1> USE DEF TypeOK, convVars, runVars, histVars
<1>1. CASE LoopHead
  <2>1. ASSUME NEW reason \in {"maxSteps", "interrupted"}, Finish(reason, NoEntries)
        PROVE  TypeOK'
    BY <1>1, <2>1, FinishType, EntriesType DEF LoopHead, FinishReasons
  <2> QED BY <1>1, <2>1 DEF LoopHead, Phases
<1>2. CASE ModelFails
  BY <1>2, FinishType, EntriesType DEF ModelFails, FinishReasons
<1>3. CASE ModelAnswers
  BY <1>3, FinishType, EntriesType DEF ModelAnswers, FinishReasons
<1>4. ASSUME NEW k \in 0..MaxCalls, ModelCallsTools(k) PROVE TypeOK'
  <2>1. issued' \in 0..MaxCalls /\ batch' \subseteq Calls /\ textLast' \in BOOLEAN
    BY <1>4, AgentLoopAssumption DEF ModelCallsTools, Calls
  <2>2. CASE Finish("stopCondition", NoEntries)
    BY <1>4, <2>1, <2>2, FinishType, EntriesType DEF ModelCallsTools, FinishReasons
  <2>3. CASE phase' = "resolve"
    <3>1. stage' \in [Calls -> InFlight \cup OutcomeKinds \cup {"none"}]
      BY <1>4, <2>3 DEF ModelCallsTools, InFlight, Finish
    <3> QED BY <1>4, <2>1, <2>3, <3>1 DEF ModelCallsTools, Phases, Finish
  <2> QED BY <1>4, <2>2, <2>3 DEF ModelCallsTools
<1> QED BY <1>1, <1>2, <1>3, <1>4 DEF Model

LEMMA OutcomeType == ASSUME TypeOK, Outcome PROVE TypeOK'
<1> USE DEF TypeOK, convVars, runVars, histVars
<1>1. CASE ResolveWithoutAsk
  BY <1>1 DEF ResolveWithoutAsk, Phases
<1>2. CASE ResolveWithAsk
  <2>1. results' \in [Calls -> Nat]
    BY <1>2, RecordedType DEF ResolveWithAsk
  <2>2. CASE Finish("approvalRequired", AskEntries)
    BY <1>2, <2>1, <2>2, FinishType, EntriesType DEF ResolveWithAsk, FinishReasons
  <2>3. CASE phase' = "wait"
    BY <1>2, <2>1, <2>3, EntriesType DEF ResolveWithAsk, Phases, Asks, OfKind, Finish
  <2> QED BY <1>2, <2>2, <2>3 DEF ResolveWithAsk
<1>3. CASE WaitEnds
  <2>1. CASE AwaitsDecision
    BY <1>3, <2>1, FinishType DEF WaitEnds, FinishReasons
  <2>2. CASE ~AwaitsDecision
    BY <1>3, <2>2, EntriesType DEF WaitEnds, Phases, Asks, OfKind
  <2> QED BY <2>1, <2>2
<1>4. ASSUME NEW c \in Calls, LiveDenial(c) PROVE TypeOK'
  BY <1>4, RecordedType DEF LiveDenial
<1>5. ASSUME NEW c \in Calls, LiveBegin(c) PROVE TypeOK'
  BY <1>5 DEF LiveBegin, InFlight
<1>6. ASSUME NEW c \in Calls, LiveResult(c) PROVE TypeOK'
  BY <1>6, RecordedType DEF LiveResult, OutcomeKinds
<1>7. CASE LiveEnds
  BY <1>7 DEF LiveEnds, Phases
<1>8. CASE SettleStop
  <2>1. [c \in Calls |-> IF c \in (batch \ Asks) \ Appended THEN "stopped" ELSE "none"] \in [Calls -> Entries]
    BY DEF Entries
  <2> QED BY <1>8, <2>1, FinishType, RecordedType DEF SettleStop, FinishReasons
<1>9. CASE SettleNormal
  <2>1. results' \in [Calls -> Nat]
    BY <1>9, RecordedType DEF SettleNormal
  <2>2. CASE Finish("stopCondition", NoEntries)
    BY <1>9, <2>1, <2>2, FinishType, EntriesType DEF SettleNormal, FinishReasons
  <2>3. CASE phase' = "head"
    BY <1>9, <2>1, <2>3 DEF SettleNormal, Phases, NextStep, AllIdle, Finish
  <2> QED BY <1>9, <2>2, <2>3 DEF SettleNormal
<1> QED BY <1>1, <1>2, <1>3, <1>4, <1>5, <1>6, <1>7, <1>8, <1>9 DEF Outcome

\* The variables keep their types in every behaviour.
THEOREM TypeCorrect == Spec => []TypeOK
<1>1. TypeOK /\ [Next]_vars => TypeOK'
  <2> SUFFICES ASSUME TypeOK, [Next]_vars PROVE TypeOK'
    OBVIOUS
  <2>1. CASE Caller
    BY <2>1, CallerType
  <2>2. ASSUME NEW c \in Calls, Pipeline(c) PROVE TypeOK'
    BY <2>2, PipelineType
  <2>3. CASE Preamble
    BY <2>3, PreambleType
  <2>4. CASE Model
    BY <2>4, ModelType
  <2>5. CASE Outcome
    BY <2>5, OutcomeType
  <2>6. CASE Abort
    BY <2>6 DEF Abort, TypeOK, convVars, histVars
  <2>7. ASSUME NEW c \in Calls, RunLate(c) PROVE TypeOK'
    BY <2>7 DEF RunLate, TypeOK, convVars, runVars
  <2>8. ASSUME NEW c \in Calls, NEW approved \in BOOLEAN, ResolveApproval(c, approved) PROVE TypeOK'
    BY <2>8 DEF ResolveApproval, TypeOK, convVars
  <2>9. CASE UNCHANGED vars
    BY <2>9 DEF vars, convVars, runVars, histVars, TypeOK
  <2> QED
    BY <2>1, <2>2, <2>3, <2>4, <2>5, <2>6, <2>7, <2>8, <2>9 DEF Next, LoopStep, Rest
<1> QED BY <1>1, InitTypeOK, PTL DEF Spec

-----------------------------------------------------------------------------
(* A recorded call is never executed again.                                *)

\* Calls the model has not emitted have left no trace.
FreshInv ==
  \A c \in Calls :
    /\ c \notin 1..issued => /\ results[c] = 0 /\ execs[c] = 0 /\ c \notin late
                     /\ pending[c] = "none" /\ parked[c] = "none"
    /\ c \in batch => c \in 1..issued

\* Which calls can be in the pipeline, and with what result recorded, in each phase.
StageInv ==
  /\ \A c \in Calls : stage[c] # "none" => c \in batch
  /\ phase \in {"idle", "head", "model"} => \A c \in Calls : stage[c] = "none"
  /\ phase = "preamble" =>
       /\ \A c \in todo : c \in batch /\ results[c] = 0
       /\ \A c \in Calls : stage[c] # "none" => c \in todo
  /\ phase = "resolve" => \A c \in batch : results[c] = 0 /\ stage[c] # "none"
  /\ phase = "wait" =>
       \A c \in batch : /\ stage[c] \notin InFlight
                        /\ stage[c] \in {"ask", "paused"} => results[c] = 0
  /\ phase = "live" =>
       /\ \A c \in todo : c \in batch /\ results[c] = 0
       /\ \A c \in Calls : stage[c] \in InFlight => c \in todo
  /\ phase = "settle" => \A c \in Calls : stage[c] \notin InFlight

RunInv == FreshInv /\ StageInv

LEMMA FinishStage ==
  ASSUME NEW reason, NEW entries, Finish(reason, entries)
  PROVE  phase' = "idle" /\ \A c \in Calls : stage'[c] = "none"
BY DEF Finish, AllIdle

\* When a run finishes, only what it leaves about unemitted calls matters.
LEMMA FinishRunInv ==
  ASSUME NEW reason, NEW entries, Finish(reason, entries),
         TypeOK, FreshInv,
         \A c \in Calls : c \notin 1..issued' => entries[c] = "none",
         \A c \in Calls : c \notin 1..issued' => results'[c] = 0 /\ execs'[c] = 0 /\ c \notin late',
         \A c \in Calls : c \in batch' => c \in 1..issued'
  PROVE  RunInv'
<1>1. FreshInv'
  BY DEF FreshInv, Finish, NoEntries
<1> QED BY <1>1, FinishStage DEF RunInv, StageInv

\* Recording results of calls of the last message keeps the unemitted ones clean.
LEMMA RecordedFresh ==
  ASSUME NEW S, S \subseteq batch, TypeOK, FreshInv
  PROVE  \A c \in Calls : c \notin 1..issued => Recorded(S)[c] = 0
BY DEF FreshInv, Recorded, TypeOK, Calls

LEMMA FreshEntries ==
  ASSUME FreshInv, TypeOK
  PROVE  \A c \in Calls : c \notin 1..issued => NoEntries[c] = "none" /\ AskEntries[c] = "none"
BY DEF FreshInv, TypeOK, NoEntries, AskEntries

\* A finish that only changes the run's locals.
LEMMA PlainFinishRunInv ==
  ASSUME NEW reason, Finish(reason, NoEntries), TypeOK, FreshInv,
         UNCHANGED <<issued, batch, results, execs, late>>
  PROVE  RunInv'
BY FinishRunInv, FreshEntries DEF FreshInv, TypeOK

LEMMA CallerRunInv == ASSUME TypeOK, RunInv, Caller PROVE RunInv'
<1> USE DEF histVars
<1>1. CASE StartRun
  <2>1. CASE textLast
    BY <1>1, <2>1, PlainFinishRunInv DEF StartRun, RunInv
  <2>2. CASE ~textLast
    BY <1>1, <2>2 DEF StartRun, RunInv, FreshInv, StageInv, Unresolved, TypeOK
  <2> QED BY <2>1, <2>2
<1>2. CASE AppendUserMessage
  BY <1>2 DEF AppendUserMessage, RunInv, FreshInv, StageInv, runVars
<1>3. ASSUME NEW c \in Calls, ProvideResult(c) PROVE RunInv'
  BY <1>3, RecordedFresh DEF ProvideResult, RunInv, FreshInv, StageInv, Unresolved, runVars
<1>4. ASSUME NEW c \in Calls, NEW approved \in BOOLEAN, ApplyDecision(c, approved) PROVE RunInv'
  <2>1. c \in 1..issued
    BY <1>4 DEF ApplyDecision, RunInv, FreshInv, TypeOK
  <2>2. \A d \in Calls : d \notin 1..issued => results'[d] = 0 /\ pending'[d] = "none"
    BY <1>4, <2>1 DEF ApplyDecision, RunInv, FreshInv, TypeOK, Recorded
  <2> QED BY <1>4, <2>2 DEF ApplyDecision, RunInv, FreshInv, StageInv, runVars
<1> QED BY <1>1, <1>2, <1>3, <1>4 DEF Caller

LEMMA PipelineRunInv == ASSUME TypeOK, RunInv, NEW c \in Calls, Pipeline(c) PROVE RunInv'
<1> USE DEF convVars, runVars, histVars
<1>1. CASE RunApprovalHooks(c)
  BY <1>1 DEF RunApprovalHooks, RunInv, FreshInv, StageInv, TypeOK, InFlight
<1>2. CASE RunPreToolUseHooks(c)
  BY <1>2 DEF RunPreToolUseHooks, Working, RunInv, FreshInv, StageInv, TypeOK, InFlight
<1>3. CASE Execute(c)
  BY <1>3, AgentLoopAssumption DEF Execute, executeToolCall, Working, RunInv, FreshInv, StageInv, TypeOK, InFlight
<1>4. CASE Throw(c)
  <2>1. PICK reason \in FinishReasons : Finish(reason, NoEntries)
    BY <1>4 DEF Throw, FinishReasons
  <2>2. c \in batch /\ c \in 1..issued
    BY <1>4 DEF Throw, RunInv, FreshInv, StageInv, InFlight
  <2>3. \A d \in Calls : d \notin 1..issued' => results'[d] = 0 /\ execs'[d] = 0 /\ d \notin late'
    BY <1>4, <2>2 DEF Throw, RunInv, FreshInv, TypeOK, OfKind
  <2> QED BY <1>4, <2>1, <2>3, FinishRunInv, FreshEntries DEF Throw, RunInv, FreshInv
<1> QED BY <1>1, <1>2, <1>3, <1>4 DEF Pipeline

LEMMA PreambleRunInv == ASSUME TypeOK, RunInv, Preamble PROVE RunInv'
<1> USE DEF convVars, histVars
<1> DEFINE Absorb(c) == PreamblePlainResult(c) \/ PreambleSubAgent(c) \/ PreambleUnmatched(c)
<1>1. ASSUME NEW c \in Calls, PreamblePark(c) PROVE RunInv'
  BY <1>1 DEF PreamblePark, InHand, Visited, RunInv, FreshInv, StageInv, TypeOK, InFlight
<1>2. ASSUME NEW c \in Calls, PreambleBegin(c) PROVE RunInv'
  BY <1>2 DEF PreambleBegin, InHand, IsNext, RunInv, FreshInv, StageInv, TypeOK
<1>3. ASSUME NEW c \in Calls, Absorb(c) PROVE RunInv'
  <2>1. /\ phase = "preamble" /\ c \in batch /\ Visited(c) /\ results' \in {results, Recorded({c})}
        /\ parked' \in {parked, [parked EXCEPT ![c] = "subAgent"]}
        /\ UNCHANGED <<phase, issued, batch, pending, execs, late>>
    BY <1>3 DEF PreamblePlainResult, PreambleSubAgent, PreambleUnmatched, InHand, RunInv, StageInv, OutcomeKinds
  <2>2. FreshInv'
    BY <2>1, RecordedFresh DEF RunInv, FreshInv, TypeOK
  <2>3. StageInv'
    BY <2>1 DEF Visited, RunInv, StageInv, TypeOK, Recorded, InFlight
  <2> QED BY <2>2, <2>3 DEF RunInv
<1>4. ASSUME NEW c \in Calls, PreambleStop(c) PROVE RunInv'
  <2>1. c \in batch /\ c \in 1..issued
    BY <1>4 DEF PreambleStop, RunInv, FreshInv, StageInv
  <2>2. \A d \in Calls : d \notin 1..issued => results'[d] = 0 /\ [parked EXCEPT ![c] = "stopped"][d] = "none"
    BY <1>4, <2>1, RecordedFresh DEF PreambleStop, RunInv, FreshInv, TypeOK
  <2> QED BY <1>4, <2>2, FinishRunInv DEF PreambleStop, RunInv, FreshInv
<1>5. CASE PreambleEnd
  <2>1. CASE Finish("approvalRequired", parked)
    BY <1>5, <2>1, FinishRunInv DEF PreambleEnd, RunInv, FreshInv
  <2>2. CASE phase' = "head" /\ UNCHANGED <<pending, stage, todo, parked>>
    BY <1>5, <2>2 DEF PreambleEnd, RunInv, FreshInv, StageInv
  <2> QED BY <1>5, <2>1, <2>2 DEF PreambleEnd
<1> QED BY <1>1, <1>2, <1>3, <1>4, <1>5 DEF Preamble

LEMMA ModelRunInv == ASSUME TypeOK, RunInv, Model PROVE RunInv'
<1> USE DEF convVars, histVars
<1>1. CASE LoopHead
  BY <1>1, PlainFinishRunInv DEF LoopHead, RunInv, FreshInv, StageInv
<1>2. CASE ModelFails
  BY <1>2, PlainFinishRunInv DEF ModelFails, RunInv
<1>3. CASE ModelAnswers
  BY <1>3, FinishRunInv, FreshEntries DEF ModelAnswers, RunInv, FreshInv
<1>4. ASSUME NEW k \in 0..MaxCalls, ModelCallsTools(k) PROVE RunInv'
  <2>1. /\ \A c \in Calls : c \notin 1..issued' => c \notin 1..issued
        /\ \A c \in batch' : c \in 1..issued' /\ c \notin 1..issued /\ c \in Calls
    BY <1>4, AgentLoopAssumption DEF ModelCallsTools, TypeOK, Calls
  <2>2. CASE Finish("stopCondition", NoEntries)
    BY <1>4, <2>1, <2>2, FinishRunInv, FreshEntries DEF ModelCallsTools, RunInv, FreshInv
  <2>3. CASE phase' = "resolve" /\ UNCHANGED <<pending, parked>>
    <3>1. FreshInv'
      BY <1>4, <2>1, <2>3 DEF ModelCallsTools, RunInv, FreshInv
    <3>2. stage' = [c \in Calls |-> IF c \in batch' THEN "approval" ELSE "none"]
      BY <1>4, <2>3 DEF ModelCallsTools, Finish
    <3>3. StageInv'
      BY <1>4, <2>1, <2>3, <3>2 DEF ModelCallsTools, RunInv, FreshInv, StageInv
    <3> QED BY <3>1, <3>3 DEF RunInv
  <2> QED BY <1>4, <2>2, <2>3 DEF ModelCallsTools
<1> QED BY <1>1, <1>2, <1>3, <1>4 DEF Model

LEMMA OutcomeRunInv == ASSUME TypeOK, RunInv, Outcome PROVE RunInv'
<1> USE DEF convVars, histVars
<1>1. CASE ResolveWithoutAsk
  BY <1>1 DEF ResolveWithoutAsk, AllResolved, RunInv, FreshInv, StageInv, OfKind, TypeOK, InFlight
<1>2. CASE ResolveWithAsk
  <2>1. /\ results' = Recorded(Allowed) /\ Allowed \subseteq batch
        /\ \A c \in batch : stage[c] \notin InFlight
    BY <1>2 DEF ResolveWithAsk, Allowed, AllResolved, OfKind
  <2>2. \A c \in Calls : c \notin 1..issued => results'[c] = 0
    BY <2>1, RecordedFresh DEF RunInv
  <2>3. CASE Finish("approvalRequired", AskEntries)
    BY <1>2, <2>2, <2>3, FinishRunInv, FreshEntries DEF ResolveWithAsk, RunInv, FreshInv
  <2>4. CASE phase' = "wait" /\ parked' = AskEntries /\ UNCHANGED <<pending, stage>>
    <3>1. FreshInv'
      BY <1>2, <2>2, <2>4, FreshEntries DEF ResolveWithAsk, RunInv, FreshInv
    <3>2. \A c \in batch : stage[c] \in {"ask", "paused"} => results'[c] = 0
      BY <1>2, <2>1 DEF ResolveWithAsk, AllResolved, RunInv, StageInv, Recorded, Allowed, OfKind, TypeOK
    <3> QED BY <1>2, <2>1, <2>4, <3>1, <3>2 DEF ResolveWithAsk, RunInv, StageInv
  <2> QED BY <1>2, <2>3, <2>4 DEF ResolveWithAsk
<1>3. CASE WaitEnds
  <2>1. CASE AwaitsDecision
    BY <1>3, <2>1, FinishRunInv DEF WaitEnds, RunInv, FreshInv
  <2>2. CASE ~AwaitsDecision
    BY <1>3, <2>2 DEF WaitEnds, Asks, OfKind, RunInv, FreshInv, StageInv, NoEntries, TypeOK, InFlight
  <2> QED BY <2>1, <2>2
<1>4. ASSUME NEW c \in Calls, LiveDenial(c) PROVE RunInv'
  <2>1. c \in batch /\ stage[c] \notin InFlight
    BY <1>4 DEF LiveDenial, Deciding, IsNext, RunInv, StageInv, InFlight
  <2> QED
    BY <1>4, <2>1, RecordedFresh DEF LiveDenial, Deciding, IsNext, RunInv, FreshInv, StageInv, Recorded, TypeOK
<1>5. ASSUME NEW c \in Calls, LiveBegin(c) PROVE RunInv'
  BY <1>5 DEF LiveBegin, Deciding, IsNext, RunInv, FreshInv, StageInv, TypeOK
<1>6. ASSUME NEW c \in Calls, LiveResult(c) PROVE RunInv'
  <2>1. c \in batch /\ phase = "live" /\ results' \in {results, Recorded({c})}
    BY <1>6 DEF LiveResult, Deciding, IsNext, RunInv, StageInv
  <2>2. FreshInv'
    BY <1>6, <2>1, RecordedFresh DEF LiveResult, RunInv, FreshInv
  <2>3. StageInv'
    BY <1>6, <2>1 DEF LiveResult, RunInv, StageInv, Recorded, TypeOK, InFlight
  <2> QED BY <2>2, <2>3 DEF RunInv
<1>7. CASE LiveEnds
  BY <1>7 DEF LiveEnds, RunInv, FreshInv, StageInv
<1>8. CASE SettleStop
  <2> DEFINE entries == [c \in Calls |-> IF c \in (batch \ Asks) \ Appended THEN "stopped" ELSE "none"]
  <2>1. Appended \subseteq batch
    BY DEF Appended, HookStops, ExecStops, OfKind
  <2>2. \A c \in Calls : c \notin 1..issued => results'[c] = 0 /\ entries[c] = "none"
    BY <1>8, <2>1, RecordedFresh DEF SettleStop, RunInv, FreshInv
  <2> QED BY <1>8, <2>2, FinishRunInv DEF SettleStop, RunInv, FreshInv
<1>9. CASE SettleNormal
  <2>1. \A c \in Calls : c \notin 1..issued => results'[c] = 0
    BY <1>9, RecordedFresh DEF SettleNormal, RunInv, OfKind
  <2>2. CASE Finish("stopCondition", NoEntries)
    BY <1>9, <2>1, <2>2, FinishRunInv, FreshEntries DEF SettleNormal, RunInv, FreshInv
  <2>3. CASE phase' = "head" /\ stage' = AllIdle /\ UNCHANGED <<pending, todo, parked>>
    BY <1>9, <2>1, <2>3 DEF SettleNormal, RunInv, FreshInv, StageInv, AllIdle
  <2> QED BY <1>9, <2>2, <2>3 DEF SettleNormal
<1> QED BY <1>1, <1>2, <1>3, <1>4, <1>5, <1>6, <1>7, <1>8, <1>9 DEF Outcome

LEMMA NextRunInv == TypeOK /\ RunInv /\ [Next]_vars => RunInv'
<1> SUFFICES ASSUME TypeOK, RunInv, [Next]_vars PROVE RunInv'
  OBVIOUS
<1>1. CASE Abort
  BY <1>1 DEF Abort, RunInv, FreshInv, StageInv, convVars, histVars
<1>2. ASSUME NEW c \in Calls, RunLate(c) PROVE RunInv'
  BY <1>2 DEF RunLate, RunInv, FreshInv, StageInv, TypeOK, convVars, runVars
<1>3. ASSUME NEW c \in Calls, NEW approved \in BOOLEAN, ResolveApproval(c, approved) PROVE RunInv'
  BY <1>3 DEF ResolveApproval, RunInv, FreshInv, StageInv, convVars
<1>4. CASE UNCHANGED vars
  BY <1>4 DEF vars, convVars, runVars, histVars, RunInv, FreshInv, StageInv
<1> QED
  BY <1>1, <1>2, <1>3, <1>4, CallerRunInv, PipelineRunInv, PreambleRunInv, ModelRunInv, OutcomeRunInv
  DEF Next, LoopStep, Rest

\* The locals of a run are live only in the phases they belong to, and calls in progress
\* are calls of the last message without a result.
THEOREM RunInvariant == Spec => []RunInv
<1>1. Init => RunInv
  BY DEF Init, RunInv, FreshInv, StageInv, AllIdle, NoEntries
<1> QED BY <1>1, NextRunInv, TypeCorrect, PTL DEF Spec

\* A call with a recorded result is never executed again: in the preamble it is not among
\* the calls to visit, in a step and on the live path results come after execution.
THEOREM NeverRerun == Spec => RecordedNeverRerun
<1> DEFINE A == \A c \in Calls : execs'[c] > execs[c] /\ c \notin late => results[c] = 0
<1>1. TypeOK /\ RunInv /\ [Next]_vars => [A]_vars
  <2> SUFFICES ASSUME TypeOK, RunInv, Next, NEW c \in Calls, execs'[c] > execs[c], c \notin late
               PROVE  results[c] = 0
    OBVIOUS
  <2>1. ASSUME NEW d \in Calls, Execute(d) \/ Throw(d) PROVE results[c] = 0
    <3>1. c = d /\ Working /\ stage[c] = "exec"
      BY <2>1 DEF Execute, executeToolCall, Throw, TypeOK
    <3> QED BY <3>1 DEF Working, RunInv, StageInv, InFlight
  <2>2. ASSUME NEW d \in Calls, RunLate(d) PROVE FALSE
    BY <2>2 DEF RunLate, TypeOK
  <2>3. ASSUME UNCHANGED execs PROVE FALSE
    BY <2>3 DEF TypeOK
  <2>4. CASE Caller
    BY <2>4, <2>3 DEF Caller, StartRun, AppendUserMessage, ProvideResult, ApplyDecision, histVars
  <2>5. ASSUME NEW d \in Calls, RunApprovalHooks(d) \/ RunPreToolUseHooks(d) PROVE FALSE
    BY <2>5, <2>3 DEF RunApprovalHooks, RunPreToolUseHooks, histVars
  <2>6. CASE Preamble
    BY <2>6, <2>3 DEF Preamble, PreamblePark, PreambleBegin, PreamblePlainResult, PreambleSubAgent,
                      PreambleUnmatched, PreambleStop, PreambleEnd, histVars
  <2>7. CASE Model
    BY <2>7, <2>3 DEF Model, LoopHead, ModelFails, ModelAnswers, ModelCallsTools, histVars
  <2>8. CASE Outcome
    BY <2>8, <2>3 DEF Outcome, ResolveWithoutAsk, ResolveWithAsk, WaitEnds, LiveDenial, LiveBegin,
                      LiveResult, LiveEnds, SettleStop, SettleNormal, histVars
  <2>9. CASE Abort \/ Rest
    BY <2>9, <2>3 DEF Abort, Rest, vars, histVars
  <2>10. ASSUME NEW d \in Calls, NEW approved \in BOOLEAN, ResolveApproval(d, approved) PROVE FALSE
    BY <2>10, <2>3 DEF ResolveApproval
  <2> QED
    BY <2>1, <2>2, <2>4, <2>5, <2>6, <2>7, <2>8, <2>9, <2>10 DEF Next, LoopStep, Pipeline
<1> QED BY <1>1, TypeCorrect, RunInvariant, PTL DEF Spec, RecordedNeverRerun

-----------------------------------------------------------------------------
(* Without approvals in flight, a call gets at most one result.            *)

\* The live path is out of reach, so results are appended in one place per step.
ColdInv ==
  /\ AtMostOneResult
  /\ phase # "live"
  /\ phase = "wait" => resolvers # {}
  /\ phase = "settle" => \A c \in batch : results[c] = 0

LEMMA RecordedOnce ==
  ASSUME TypeOK, AtMostOneResult, NEW S, \A c \in Calls : c \in S => results[c] = 0,
         results' = Recorded(S)
  PROVE  AtMostOneResult'
BY DEF AtMostOneResult, Recorded, TypeOK

LEMMA FinishCold ==
  ASSUME NEW reason, NEW entries, Finish(reason, entries), AtMostOneResult'
  PROVE  ColdInv'
BY DEF Finish, ColdInv

LEMMA ColdStep ==
  ASSUME LiveApprovals = FALSE, TypeOK, RunInv, ColdInv, [Next]_vars
  PROVE  ColdInv'
<1> USE DEF convVars, runVars, histVars
<1>1. ASSUME UNCHANGED results PROVE AtMostOneResult'
  BY <1>1 DEF ColdInv, AtMostOneResult
<1>2. CASE StartRun
  BY <1>2, <1>1, FinishCold DEF StartRun, ColdInv
<1>3. CASE AppendUserMessage
  BY <1>3, <1>1 DEF AppendUserMessage, ColdInv
<1>4. ASSUME NEW c \in Calls, ProvideResult(c) PROVE ColdInv'
  BY <1>4, RecordedOnce DEF ProvideResult, Unresolved, ColdInv
<1>5. ASSUME NEW c \in Calls, NEW approved \in BOOLEAN, ApplyDecision(c, approved) PROVE ColdInv'
  <2>1. AtMostOneResult'
    BY <1>5, <1>1, RecordedOnce DEF ApplyDecision, ColdInv
  <2> QED BY <1>5, <2>1 DEF ApplyDecision, ColdInv
<1>6. ASSUME NEW c \in Calls, Pipeline(c) PROVE ColdInv'
  <2>1. CASE Throw(c)
    BY <2>1, <1>1, FinishCold DEF Throw
  <2>2. CASE RunApprovalHooks(c) \/ RunPreToolUseHooks(c) \/ Execute(c)
    BY <2>2, <1>1 DEF RunApprovalHooks, RunPreToolUseHooks, Execute, executeToolCall, Working, ColdInv
  <2> QED BY <1>6, <2>1, <2>2 DEF Pipeline
<1>7. CASE Preamble
  <2>1. ASSUME NEW c \in Calls, PreamblePark(c) \/ PreambleBegin(c) PROVE ColdInv'
    BY <2>1, <1>1 DEF PreamblePark, PreambleBegin, InHand, ColdInv
  <2>2. ASSUME NEW c \in Calls, PreamblePlainResult(c) \/ PreambleSubAgent(c) \/ PreambleUnmatched(c)
        PROVE  ColdInv'
    <3>1. phase = "preamble" /\ phase' = phase /\ results' \in {results, Recorded({c})} /\ results[c] = 0
      BY <2>2 DEF PreamblePlainResult, PreambleSubAgent, PreambleUnmatched, InHand, IsNext, RunInv, StageInv
    <3>2. AtMostOneResult'
      BY <3>1, <1>1, RecordedOnce DEF ColdInv
    <3> QED BY <3>1, <3>2 DEF ColdInv
  <2>3. ASSUME NEW c \in Calls, PreambleStop(c) PROVE ColdInv'
    <3>1. results' \in {results, Recorded({c})} /\ results[c] = 0
      BY <2>3 DEF PreambleStop, InHand, IsNext, RunInv, StageInv
    <3>2. AtMostOneResult'
      BY <3>1, <1>1, RecordedOnce DEF ColdInv
    <3> QED BY <2>3, <3>2, FinishCold DEF PreambleStop
  <2>4. CASE PreambleEnd
    BY <2>4, <1>1, FinishCold DEF PreambleEnd, ColdInv
  <2> QED BY <1>7, <2>1, <2>2, <2>3, <2>4 DEF Preamble
<1>8. CASE Model
  <2>1. CASE LoopHead
    BY <2>1, <1>1, FinishCold DEF LoopHead, ColdInv
  <2>2. CASE ModelFails \/ ModelAnswers
    BY <2>2, <1>1, FinishCold DEF ModelFails, ModelAnswers
  <2>3. ASSUME NEW k \in 0..MaxCalls, ModelCallsTools(k) PROVE ColdInv'
    BY <2>3, <1>1, FinishCold DEF ModelCallsTools, ColdInv
  <2> QED BY <1>8, <2>1, <2>2, <2>3 DEF Model
<1>9. CASE ResolveWithoutAsk
  BY <1>9, <1>1 DEF ResolveWithoutAsk, AllResolved, ColdInv, RunInv, StageInv
<1>10. CASE ResolveWithAsk
  <2>1. AtMostOneResult'
    BY <1>10, RecordedOnce DEF ResolveWithAsk, AllResolved, Allowed, OfKind, RunInv, StageInv, ColdInv
  <2>2. CASE Finish("approvalRequired", AskEntries)
    BY <2>1, <2>2, FinishCold
  <2>3. CASE Asks # {} /\ phase' = "wait" /\ resolvers' = Asks
    BY <2>1, <2>3 DEF ColdInv
  <2> QED BY <1>10, <2>2, <2>3 DEF ResolveWithAsk
<1>11. CASE WaitEnds
  <2>1. AwaitsDecision
    BY <1>11 DEF WaitEnds, AwaitsDecision, ColdInv
  <2> QED BY <1>11, <2>1, <1>1, FinishCold DEF WaitEnds
<1>12. ASSUME NEW c \in Calls, LiveDenial(c) \/ LiveBegin(c) \/ LiveResult(c) \/ LiveEnds PROVE FALSE
  BY <1>12 DEF LiveDenial, LiveBegin, LiveResult, LiveEnds, Deciding, ColdInv
<1>13. CASE SettleStop
  <2>1. AtMostOneResult'
    BY <1>13, RecordedOnce DEF SettleStop, Appended, HookStops, ExecStops, OfKind, ColdInv
  <2> QED BY <1>13, <2>1, FinishCold DEF SettleStop
<1>14. CASE SettleNormal
  <2>1. AtMostOneResult'
    BY <1>14, RecordedOnce DEF SettleNormal, OfKind, ColdInv
  <2> QED BY <1>14, <2>1, FinishCold DEF SettleNormal, ColdInv
<1>15. CASE LiveEnds
  BY <1>15 DEF LiveEnds, ColdInv
<1>16. CASE Abort
  BY <1>16, <1>1 DEF Abort, ColdInv
<1>17. ASSUME NEW c \in Calls, RunLate(c) PROVE ColdInv'
  BY <1>17, <1>1 DEF RunLate, ColdInv
<1>18. ASSUME NEW c \in Calls, NEW approved \in BOOLEAN, ResolveApproval(c, approved) PROVE FALSE
  BY <1>18 DEF ResolveApproval
<1>19. CASE UNCHANGED vars
  BY <1>19, <1>1 DEF vars, ColdInv
<1> QED
  BY <1>2, <1>3, <1>4, <1>5, <1>6, <1>7, <1>8, <1>9, <1>10, <1>11, <1>12, <1>13, <1>14, <1>15, <1>16,
     <1>17, <1>18, <1>19
  DEF Next, Caller, LoopStep, Outcome, Rest

\* When no approval is answered in flight, the conversation never holds two results for
\* one call, across steps, resumptions, stops, denials and caller-provided results.
THEOREM OneResult == ASSUME LiveApprovals = FALSE PROVE Spec => []AtMostOneResult
<1>1. Init => ColdInv
  BY DEF Init, ColdInv, AtMostOneResult
<1>2. TypeOK /\ RunInv /\ ColdInv /\ [Next]_vars => ColdInv'
  BY ColdStep
<1>3. ColdInv => AtMostOneResult
  BY DEF ColdInv
<1> QED BY <1>1, <1>2, <1>3, TypeCorrect, RunInvariant, PTL DEF Spec

-----------------------------------------------------------------------------
(* The approval gate.                                                      *)

\* The configurations in which an approval is never forgotten: no hook or tool stops a run
\* half-way through its calls, no run is cut off by a throw, and no stop condition fires
\* between the model's answer and the hooks.
GateConfig ==
  /\ Throws = FALSE
  /\ "stop" \notin PreVerdicts /\ "stopped" \notin ToolEndings
  /\ "beforeExecution" \notin StopTimings

\* A call past its approval hooks has consent; a call still before them, or asked about,
\* has not run.
PipelineGate ==
  \A c \in Calls :
    /\ stage[c] \notin {"hookStop", "stopped"}
    /\ stage[c] \in {"pre", "exec", "executed", "paused", "toolResult"} => c \in consent
    /\ phase \in {"resolve", "wait"} /\ stage[c] \in {"approval", "ask"} => execs[c] = 0
    /\ stage[c] # "none" => pending[c] # "approval"
    /\ stage[c] \in InFlight => parked[c] = "none"
    /\ phase = "live" /\ c \in todo => stage[c] # "denied"

\* An approval entry guards a call that has not run, and no call in reach of the preamble
\* escapes its entry.
EntryGate ==
  \A c \in Calls :
    /\ pending[c] = "approval" \/ parked[c] = "approval" => execs[c] = 0
    /\ phase \notin {"preamble", "wait"} => parked[c] = "none"
    /\ phase = "preamble" /\ c \in todo => parked[c] = "none"

\* Where a call of the last message that has no result may be, other than approved.
UnansweredGate ==
  \A c \in batch : results[c] = 0 /\ c \notin consent =>
    /\ phase \in {"idle", "preamble"} => pending[c] \in {"approval", "stopped"}
    /\ phase = "preamble" => c \in todo \/ parked[c] \in {"approval", "stopped"}
    /\ phase \notin {"head", "model"}
    /\ phase = "wait" => parked[c] = "approval" /\ stage[c] = "ask"
    /\ phase = "live" => c \in todo
    /\ phase = "settle" => stage[c] \in {"executed", "denied", "toolResult"}

GateInv ==
  /\ ConsentGate /\ late = {} /\ granted \subseteq consent
  /\ phase = "idle" => granted = {}
  /\ textLast => batch = {}
  /\ PipelineGate /\ EntryGate /\ UnansweredGate

\* A finish keeps the gate when its entries cover every call that is neither answered nor
\* approved, and approval entries only calls that have not run.
LEMMA FinishGate ==
  ASSUME NEW reason, NEW entries, Finish(reason, entries),
         ConsentGate', late' = {}, textLast' => batch' = {}, batch' \subseteq Calls,
         \A c \in Calls : entries[c] = "approval" => execs'[c] = 0,
         \A c \in batch' : results'[c] = 0 /\ c \notin consent' => entries[c] \in {"approval", "stopped"}
  PROVE  GateInv'
<1>1. phase' = "idle" /\ granted' = {} /\ pending' = entries
      /\ \A c \in Calls : stage'[c] = "none" /\ parked'[c] = "none"
  BY DEF Finish, AllIdle, NoEntries
<1>2. PipelineGate'
  BY <1>1 DEF PipelineGate, InFlight
<1>3. EntryGate'
  BY <1>1 DEF EntryGate
<1>4. UnansweredGate'
  BY <1>1 DEF UnansweredGate
<1> QED BY <1>1, <1>2, <1>3, <1>4 DEF GateInv

\* A finish without entries, where every call is answered or approved.
LEMMA PlainFinishGate ==
  ASSUME TypeOK, GateInv, NEW reason, Finish(reason, NoEntries),
         UNCHANGED <<batch, textLast, results, consent, execs, late>>,
         \A c \in batch : results[c] > 0 \/ c \in consent
  PROVE  GateInv'
BY FinishGate DEF GateInv, ConsentGate, NoEntries, TypeOK

LEMMA CallerGate == ASSUME TypeOK, RunInv, GateInv, Caller PROVE GateInv'
<1> USE DEF runVars, histVars
<1>1. CASE StartRun
  <2>1. CASE textLast
    BY <1>1, <2>1, PlainFinishGate DEF StartRun, GateInv
  <2>2. CASE ~textLast
    <3>1. phase = "idle" /\ phase' = "preamble" /\ todo' = Unresolved
          /\ UNCHANGED <<batch, textLast, results, consent, execs, late, granted, pending, parked, stage>>
      BY <1>1, <2>2 DEF StartRun
    <3>2. PipelineGate'
      BY <3>1 DEF GateInv, PipelineGate
    <3>3. EntryGate'
      BY <3>1 DEF GateInv, EntryGate
    <3>4. UnansweredGate'
      BY <3>1 DEF GateInv, UnansweredGate, Unresolved
    <3> QED BY <3>1, <3>2, <3>3, <3>4 DEF GateInv, ConsentGate
  <2> QED BY <2>1, <2>2
<1>2. CASE AppendUserMessage
  BY <1>2 DEF AppendUserMessage, GateInv, ConsentGate, PipelineGate, EntryGate, UnansweredGate
<1>3. ASSUME NEW c \in Calls, ProvideResult(c) PROVE GateInv'
  BY <1>3 DEF ProvideResult, Recorded, Unresolved, TypeOK,
              GateInv, ConsentGate, PipelineGate, EntryGate, UnansweredGate
<1>4. ASSUME NEW c \in Calls, NEW approved \in BOOLEAN, ApplyDecision(c, approved) PROVE GateInv'
  <2>1. phase = "idle" /\ granted = {} /\ execs[c] = 0 /\ \A d \in Calls : stage[d] = "none"
    BY <1>4 DEF ApplyDecision, GateInv, EntryGate, RunInv, StageInv
  <2>2. ConsentGate'
    BY <1>4, <2>1 DEF ApplyDecision, GateInv, ConsentGate
  <2>3. PipelineGate'
    BY <1>4, <2>1 DEF ApplyDecision, PipelineGate, InFlight
  <2>4. EntryGate'
    BY <1>4 DEF ApplyDecision, GateInv, EntryGate, TypeOK
  <2>5. UnansweredGate'
    BY <1>4, <2>1 DEF ApplyDecision, GateInv, UnansweredGate, Recorded, TypeOK
  <2> QED BY <1>4, <2>1, <2>2, <2>3, <2>4, <2>5 DEF ApplyDecision, GateInv
<1> QED BY <1>1, <1>2, <1>3, <1>4 DEF Caller

LEMMA PipelineGateStep ==
  ASSUME GateConfig, TypeOK, RunInv, GateInv, NEW c \in Calls, Pipeline(c)
  PROVE  GateInv'
<1> USE DEF convVars
<1>1. CASE RunApprovalHooks(c)
  <2>1. PipelineGate'
    BY <1>1 DEF RunApprovalHooks, GateInv, PipelineGate, InFlight, TypeOK
  <2>2. ConsentGate' /\ EntryGate' /\ UnansweredGate'
    BY <1>1 DEF RunApprovalHooks, GateInv, ConsentGate, EntryGate, UnansweredGate, TypeOK
  <2> QED BY <1>1, <2>1, <2>2 DEF RunApprovalHooks, GateInv
<1>2. CASE RunPreToolUseHooks(c)
  <2>1. stage[c] = "pre" /\ \E k \in {"exec", "toolResult"} : stage' = [stage EXCEPT ![c] = k]
    BY <1>2 DEF RunPreToolUseHooks, GateConfig
  <2>2. PipelineGate'
    BY <1>2, <2>1 DEF RunPreToolUseHooks, GateInv, PipelineGate, InFlight, TypeOK, histVars
  <2>3. ConsentGate' /\ EntryGate'
    BY <1>2 DEF RunPreToolUseHooks, GateInv, ConsentGate, EntryGate, histVars
  <2>4. c \in consent
    BY <2>1 DEF GateInv, PipelineGate
  <2>5. UnansweredGate'
    BY <1>2, <2>1, <2>4 DEF RunPreToolUseHooks, GateInv, UnansweredGate, TypeOK, histVars
  <2> QED BY <1>2, <2>2, <2>3, <2>5 DEF RunPreToolUseHooks, GateInv, histVars
<1>3. CASE Execute(c)
  <2>1. stage[c] = "exec" /\ \E k \in {"executed", "paused"} : stage' = [stage EXCEPT ![c] = k]
    BY <1>3, AgentLoopAssumption DEF Execute, executeToolCall, GateConfig
  <2>2. execs' = execs \/ execs' = [execs EXCEPT ![c] = @ + 1]
    BY <1>3 DEF Execute, executeToolCall
  <2>3. c \in consent /\ pending[c] # "approval" /\ parked[c] = "none"
    BY <2>1 DEF GateInv, PipelineGate, InFlight
  <2>4. UNCHANGED <<convVars, phase, todo, parked, granted, late, consent>>
    BY <1>3 DEF Execute, executeToolCall
  <2>5. ConsentGate' /\ EntryGate'
    BY <2>2, <2>3, <2>4 DEF GateInv, ConsentGate, EntryGate, TypeOK
  <2>6. PipelineGate'
    BY <2>1, <2>2, <2>3, <2>4 DEF GateInv, PipelineGate, InFlight, TypeOK
  <2>7. UnansweredGate'
    BY <2>1, <2>3, <2>4 DEF GateInv, UnansweredGate, TypeOK
  <2> QED BY <2>4, <2>5, <2>6, <2>7 DEF GateInv
<1>4. CASE Throw(c)
  BY <1>4 DEF Throw, GateConfig
<1> QED BY <1>1, <1>2, <1>3, <1>4 DEF Pipeline

LEMMA PreambleGate == ASSUME GateConfig, TypeOK, RunInv, GateInv, Preamble PROVE GateInv'
<1> USE DEF convVars, histVars
<1> DEFINE Absorb(c) == PreamblePlainResult(c) \/ PreambleSubAgent(c) \/ PreambleUnmatched(c)
<1>0. ASSUME NEW c \in Calls, InHand(c), ~Parks(c) PROVE c \in consent
  BY <1>0 DEF InHand, IsNext, Parks, GateInv, UnansweredGate, RunInv, StageInv
<1>1. ASSUME NEW c \in Calls, PreamblePark(c) PROVE GateInv'
  <2>1. PipelineGate'
    BY <1>1 DEF PreamblePark, Visited, InHand, GateInv, PipelineGate, InFlight, TypeOK
  <2>2. EntryGate'
    BY <1>1 DEF PreamblePark, Visited, InHand, Parks, GateInv, EntryGate, TypeOK
  <2>3. UnansweredGate'
    BY <1>1 DEF PreamblePark, Visited, InHand, Parks, GateInv, UnansweredGate, TypeOK
  <2> QED BY <1>1, <2>1, <2>2, <2>3 DEF PreamblePark, GateInv, ConsentGate
<1>2. ASSUME NEW c \in Calls, PreambleBegin(c) PROVE GateInv'
  <2>1. c \in consent /\ pending[c] # "approval" /\ phase = "preamble"
    BY <1>2, <1>0 DEF PreambleBegin, Parks, InHand
  <2>2. parked[c] = "none"
    BY <1>2 DEF PreambleBegin, InHand, IsNext, GateInv, EntryGate
  <2>3. PipelineGate'
    BY <1>2, <2>1, <2>2 DEF PreambleBegin, GateInv, PipelineGate, InFlight, TypeOK
  <2>4. EntryGate' /\ UnansweredGate'
    BY <1>2, <2>1 DEF PreambleBegin, GateInv, EntryGate, UnansweredGate
  <2> QED BY <1>2, <2>3, <2>4 DEF PreambleBegin, GateInv, ConsentGate
<1>3. ASSUME NEW c \in Calls, Absorb(c) PROVE GateInv'
  <2>1. /\ InHand(c) /\ ~Parks(c) /\ Visited(c) /\ results' \in {results, Recorded({c})}
        /\ parked' \in {parked, [parked EXCEPT ![c] = "subAgent"]}
        /\ UNCHANGED <<phase, batch, textLast, pending, granted, histVars>>
    BY <1>3 DEF PreamblePlainResult, PreambleSubAgent, PreambleUnmatched, Parks, NoStatePending
  <2>2. c \in consent
    BY <2>1, <1>0
  <2>3. PipelineGate'
    BY <2>1 DEF Visited, InHand, GateInv, PipelineGate, InFlight, TypeOK
  <2>4. EntryGate'
    BY <2>1 DEF Visited, InHand, GateInv, EntryGate, TypeOK
  <2>5. UnansweredGate'
    BY <2>1, <2>2 DEF Visited, InHand, GateInv, UnansweredGate, Recorded, TypeOK
  <2> QED BY <2>1, <2>3, <2>4, <2>5 DEF GateInv, ConsentGate, InHand
<1>4. ASSUME NEW c \in Calls, PreambleStop(c) PROVE FALSE
  BY <1>4 DEF PreambleStop, GateInv, PipelineGate
<1>5. CASE PreambleEnd
  <2>1. phase = "preamble" /\ todo = {}
        /\ \A c \in batch : results[c] = 0 /\ c \notin consent => parked[c] \in {"approval", "stopped"}
    BY <1>5 DEF PreambleEnd, GateInv, UnansweredGate
  <2>2. CASE Finish("approvalRequired", parked)
    BY <1>5, <2>1, <2>2, FinishGate DEF PreambleEnd, GateInv, EntryGate, ConsentGate, TypeOK
  <2>3. CASE parked = NoEntries /\ phase' = "head" /\ UNCHANGED <<pending, stage, todo, parked, granted>>
    <3>1. \A c \in Calls : stage[c] = "none" /\ parked[c] = "none"
      BY <2>1, <2>3 DEF RunInv, StageInv, NoEntries
    <3>2. PipelineGate' /\ EntryGate'
      BY <1>5, <2>3, <3>1 DEF PreambleEnd, GateInv, PipelineGate, EntryGate, InFlight
    <3>3. UnansweredGate'
      BY <1>5, <2>1, <2>3, <3>1 DEF PreambleEnd, UnansweredGate, TypeOK
    <3> QED BY <1>5, <2>3, <3>2, <3>3 DEF PreambleEnd, GateInv, ConsentGate
  <2> QED BY <1>5, <2>2, <2>3 DEF PreambleEnd
<1> QED BY <1>1, <1>2, <1>3, <1>4, <1>5 DEF Preamble

LEMMA ModelGate == ASSUME GateConfig, TypeOK, RunInv, GateInv, Model PROVE GateInv'
<1> USE DEF histVars
<1>0. phase \in {"head", "model"} => \A c \in batch : results[c] > 0 \/ c \in consent
  BY DEF GateInv, UnansweredGate, TypeOK
<1>1. CASE LoopHead
  <2>1. CASE phase' = "model" /\ UNCHANGED <<pending, stage, todo, parked, granted>>
    <3>1. PipelineGate' /\ EntryGate'
      BY <1>1, <2>1 DEF LoopHead, GateInv, PipelineGate, EntryGate
    <3>2. UnansweredGate'
      BY <1>1, <1>0, <2>1 DEF LoopHead, UnansweredGate, TypeOK
    <3> QED BY <1>1, <2>1, <3>1, <3>2 DEF LoopHead, GateInv, ConsentGate
  <2>2. ASSUME NEW reason, Finish(reason, NoEntries) PROVE GateInv'
    BY <1>1, <1>0, <2>2, PlainFinishGate DEF LoopHead
  <2> QED BY <1>1, <2>1, <2>2 DEF LoopHead
<1>2. CASE ModelFails
  BY <1>2, <1>0, PlainFinishGate DEF ModelFails
<1>3. CASE ModelAnswers
  BY <1>3, FinishGate DEF ModelAnswers, GateInv, ConsentGate, NoEntries
<1>4. ASSUME NEW k \in 0..MaxCalls, ModelCallsTools(k) PROVE GateInv'
  <2>1. /\ phase = "model" /\ phase' = "resolve" /\ UNCHANGED <<results, pending, parked, todo, granted, histVars>>
        /\ stage' = [c \in Calls |-> IF c \in batch' THEN "approval" ELSE "none"]
        /\ batch' = (issued + 1)..(issued + k) /\ textLast' = (k = 0)
    BY <1>4 DEF ModelCallsTools, GateConfig
  <2>2. textLast' => batch' = {}
    <3>1. textLast' => k = 0
      BY <2>1
    <3>2. k = 0 => batch' = {}
      BY <2>1 DEF TypeOK
    <3> QED BY <3>1, <3>2
  <2>3. \A c \in Calls : c \in batch' => execs[c] = 0 /\ pending[c] = "none"
    BY <2>1, AgentLoopAssumption DEF RunInv, FreshInv, TypeOK, Calls
  <2>4. PipelineGate'
    BY <2>1, <2>3 DEF GateInv, PipelineGate, EntryGate, InFlight
  <2>5. EntryGate' /\ UnansweredGate'
    BY <2>1 DEF GateInv, EntryGate, UnansweredGate
  <2> QED BY <2>1, <2>2, <2>4, <2>5 DEF GateInv, ConsentGate
<1> QED BY <1>1, <1>2, <1>3, <1>4 DEF Model

-----------------------------------------------------------------------------

LEMMA LiveGate ==
  ASSUME TypeOK, RunInv, GateInv, NEW c \in Calls, LiveDenial(c) \/ LiveBegin(c) \/ LiveResult(c)
  PROVE  GateInv'
<1> USE DEF convVars, histVars
<1>0. phase = "live" /\ phase' = "live" /\ c \in todo
      /\ UNCHANGED <<batch, textLast, pending, parked, granted, execs, consent, late>>
  BY DEF LiveDenial, LiveBegin, LiveResult, Deciding, IsNext
<1>1. ConsentGate' /\ EntryGate'
  BY <1>0 DEF LiveDenial, LiveBegin, LiveResult, GateInv, ConsentGate, EntryGate
<1>2. CASE LiveDenial(c)
  <2>1. PipelineGate'
    BY <1>0, <1>2 DEF LiveDenial, GateInv, PipelineGate
  <2>2. UnansweredGate'
    BY <1>0, <1>2 DEF LiveDenial, GateInv, UnansweredGate, Recorded, TypeOK
  <2> QED BY <1>0, <1>1, <2>1, <2>2 DEF GateInv
<1>3. CASE LiveBegin(c)
  <2>1. c \in consent /\ pending[c] # "approval" /\ parked[c] = "none"
    BY <1>0, <1>3 DEF LiveBegin, GateInv, PipelineGate, EntryGate
  <2>2. PipelineGate'
    BY <1>0, <1>3, <2>1 DEF LiveBegin, GateInv, PipelineGate, InFlight, TypeOK
  <2>3. UnansweredGate'
    BY <1>0, <1>3 DEF LiveBegin, GateInv, UnansweredGate
  <2> QED BY <1>0, <1>1, <2>2, <2>3 DEF GateInv
<1>4. CASE LiveResult(c)
  <2>1. stage[c] \in {"executed", "paused", "toolResult"}
    BY <1>0, <1>4 DEF LiveResult, OutcomeKinds, GateInv, PipelineGate
  <2>2. c \in consent /\ pending[c] # "approval"
    BY <2>1 DEF GateInv, PipelineGate
  <2>3. PipelineGate'
    BY <1>0, <1>4, <2>2 DEF LiveResult, GateInv, PipelineGate, InFlight, TypeOK
  <2>4. UnansweredGate'
    BY <1>0, <1>4, <2>2 DEF LiveResult, GateInv, UnansweredGate, Recorded, TypeOK
  <2> QED BY <1>0, <1>1, <2>3, <2>4 DEF GateInv
<1> QED BY <1>2, <1>3, <1>4

LEMMA OutcomeGate == ASSUME TypeOK, RunInv, GateInv, Outcome PROVE GateInv'
<1> USE DEF convVars, histVars
<1>1. CASE ResolveWithoutAsk
  <2>1. \A c \in batch : stage[c] \in {"executed", "denied", "toolResult"}
    BY <1>1 DEF ResolveWithoutAsk, AllResolved, Asks, Pauses, OfKind, InFlight, OutcomeKinds,
                GateInv, PipelineGate, RunInv, StageInv, TypeOK
  <2>2. PipelineGate' /\ EntryGate'
    BY <1>1 DEF ResolveWithoutAsk, AllResolved, GateInv, PipelineGate, EntryGate
  <2>3. UnansweredGate'
    BY <1>1, <2>1 DEF ResolveWithoutAsk, UnansweredGate
  <2> QED BY <1>1, <2>2, <2>3 DEF ResolveWithoutAsk, GateInv, ConsentGate
<1>2. CASE ResolveWithAsk
  <2>1. phase = "resolve" /\ results' = Recorded(Allowed)
        /\ UNCHANGED <<batch, textLast, execs, consent, late>>
    BY <1>2 DEF ResolveWithAsk, AllResolved
  <2>2. \A c \in batch : results'[c] = 0 /\ c \notin consent => stage[c] = "ask"
    BY <1>2, <2>1 DEF ResolveWithAsk, AllResolved, Allowed, OfKind, Recorded, InFlight, OutcomeKinds,
                      GateInv, PipelineGate, RunInv, StageInv, TypeOK
  <2>3. \A c \in Calls : /\ AskEntries[c] = "approval" => stage[c] = "ask" /\ execs[c] = 0
                         /\ c \in batch /\ stage[c] = "ask" => AskEntries[c] = "approval"
    BY <2>1 DEF AskEntries, GateInv, PipelineGate
  <2>4. CASE Finish("approvalRequired", AskEntries)
    <3>1. \A c \in batch' : results'[c] = 0 /\ c \notin consent' => AskEntries[c] \in {"approval", "stopped"}
      BY <2>1, <2>2, <2>3 DEF TypeOK
    <3> QED BY <2>1, <2>3, <2>4, <3>1, FinishGate DEF GateInv, ConsentGate, TypeOK
  <2>5. CASE phase' = "wait" /\ parked' = AskEntries /\ UNCHANGED <<pending, stage, todo, granted>>
    <3>1. PipelineGate'
      BY <1>2, <2>1, <2>5 DEF ResolveWithAsk, AllResolved, OfKind, InFlight, GateInv, PipelineGate,
                              RunInv, StageInv
    <3>2. EntryGate'
      BY <2>1, <2>3, <2>5 DEF GateInv, EntryGate
    <3>3. UnansweredGate'
      BY <2>1, <2>2, <2>3, <2>5 DEF UnansweredGate, TypeOK
    <3> QED BY <2>1, <2>5, <3>1, <3>2, <3>3 DEF GateInv, ConsentGate
  <2> QED BY <1>2, <2>4, <2>5 DEF ResolveWithAsk
<1>3. CASE WaitEnds
  <2>1. phase = "wait" /\ UNCHANGED <<batch, textLast, results, execs, consent, late>>
    BY <1>3 DEF WaitEnds
  <2>2. CASE AwaitsDecision
    <3>1. \A c \in Calls : parked[c] = "approval" => execs[c] = 0
      BY DEF GateInv, EntryGate
    <3>2. \A c \in batch : results[c] = 0 /\ c \notin consent => parked[c] = "approval"
      BY <2>1 DEF GateInv, UnansweredGate
    <3> QED BY <1>3, <2>1, <2>2, <3>1, <3>2, FinishGate DEF WaitEnds, GateInv, ConsentGate, TypeOK
  <2>3. CASE ~AwaitsDecision
    <3>1. phase' = "live" /\ todo' = Asks /\ parked' = NoEntries /\ UNCHANGED <<pending, stage, granted>>
      BY <1>3, <2>3 DEF WaitEnds
    <3>2. PipelineGate'
      BY <2>1, <3>1 DEF GateInv, PipelineGate, RunInv, StageInv, NoEntries, Asks, OfKind
    <3>3. EntryGate'
      BY <2>1, <3>1 DEF GateInv, EntryGate, NoEntries
    <3>4. UnansweredGate'
      BY <2>1, <3>1 DEF GateInv, UnansweredGate, Asks, OfKind
    <3> QED BY <2>1, <3>1, <3>2, <3>3, <3>4 DEF GateInv, ConsentGate
  <2> QED BY <2>2, <2>3
<1>4. ASSUME NEW c \in Calls, LiveDenial(c) \/ LiveBegin(c) \/ LiveResult(c) PROVE GateInv'
  BY <1>4, LiveGate
<1>5. CASE LiveEnds
  <2>1. PipelineGate' /\ EntryGate'
    BY <1>5 DEF LiveEnds, GateInv, PipelineGate, EntryGate
  <2>2. UnansweredGate'
    BY <1>5 DEF LiveEnds, GateInv, UnansweredGate
  <2> QED BY <1>5, <2>1, <2>2 DEF LiveEnds, GateInv, ConsentGate
<1>6. CASE SettleStop
  BY <1>6 DEF SettleStop, HookStops, ExecStops, OfKind, GateInv, PipelineGate, TypeOK
<1>7. CASE SettleNormal
  <2>1. phase = "settle" /\ results' = Recorded(OfKind({"executed", "denied", "toolResult"}))
        /\ UNCHANGED <<batch, textLast, execs, consent, late>>
    BY <1>7 DEF SettleNormal
  <2>2. \A c \in batch : results'[c] = 0 => c \in consent
    BY <2>1 DEF GateInv, UnansweredGate, Recorded, OfKind, TypeOK
  <2>3. CASE Finish("stopCondition", NoEntries)
    BY <2>1, <2>2, <2>3, FinishGate DEF GateInv, ConsentGate, NoEntries, TypeOK
  <2>4. CASE phase' = "head" /\ stage' = AllIdle /\ granted' = {} /\ UNCHANGED <<pending, todo, parked>>
    <3>1. PipelineGate' /\ EntryGate'
      BY <2>1, <2>4 DEF GateInv, PipelineGate, EntryGate, AllIdle, InFlight
    <3>2. UnansweredGate'
      BY <2>1, <2>2, <2>4 DEF UnansweredGate
    <3> QED BY <2>1, <2>4, <3>1, <3>2 DEF GateInv, ConsentGate
  <2> QED BY <1>7, <2>3, <2>4 DEF SettleNormal
<1> QED BY <1>1, <1>2, <1>3, <1>4, <1>5, <1>6, <1>7 DEF Outcome

LEMMA NextGate == ASSUME GateConfig, TypeOK, RunInv, GateInv, [Next]_vars PROVE GateInv'
<1>1. CASE Abort
  BY <1>1 DEF Abort, convVars, histVars, GateInv, ConsentGate, PipelineGate, EntryGate, UnansweredGate
<1>2. ASSUME NEW c \in Calls, RunLate(c) PROVE FALSE
  BY <1>2 DEF RunLate, GateInv
<1>3. ASSUME NEW c \in Calls, NEW approved \in BOOLEAN, ResolveApproval(c, approved) PROVE GateInv'
  BY <1>3 DEF ResolveApproval, convVars, GateInv, ConsentGate, PipelineGate, EntryGate, UnansweredGate
<1>4. CASE UNCHANGED vars
  BY <1>4 DEF vars, convVars, runVars, histVars, GateInv, ConsentGate, PipelineGate, EntryGate, UnansweredGate
<1> QED
  BY <1>1, <1>2, <1>3, <1>4, CallerGate, PipelineGateStep, PreambleGate, ModelGate, OutcomeGate
  DEF Next, LoopStep, Rest

\* In a configuration that forgets no approval, no tool ever runs without an approval hook
\* that let its call pass or a decision that approved it, in this run or a later one, for
\* approvals answered in flight, between runs, or never.
THEOREM Gated == ASSUME GateConfig PROVE Spec => []ConsentGate
<1>1. Init => GateInv
  BY DEF Init, GateInv, ConsentGate, PipelineGate, EntryGate, UnansweredGate, AllIdle, NoEntries, InFlight
<1>2. TypeOK /\ RunInv /\ GateInv /\ [Next]_vars => GateInv'
  BY NextGate
<1>3. GateInv => ConsentGate
  BY DEF GateInv
<1> QED BY <1>1, <1>2, <1>3, TypeCorrect, RunInvariant, PTL DEF Spec
-----------------------------------------------------------------------------
(* Entries dangle.                                                         *)

Resumable(entry) == entry \in {"approval", "subAgent"}

\* Entries that are being collected belong to unanswered calls which the sequential loop
\* has passed.
ParkedInv ==
  \A c \in Calls : Resumable(parked[c]) =>
    phase \in {"preamble", "wait"} /\ c \in batch /\ results[c] = 0
    /\ (phase = "preamble" => c \notin todo)

\* What a finishing step does to the calls that are parked.
Dangle(entries) == \A c \in Calls : Resumable(entries[c]) => c \in batch' /\ results'[c] = 0

LEMMA NoneDangle == Dangle(NoEntries)
BY DEF Dangle, NoEntries, Resumable

\* A finish establishes the invariant and what is claimed of the end of a run.
LEMMA FinishDangles ==
  ASSUME NEW reason, NEW entries, Finish(reason, entries), Dangle(entries)
  PROVE  ParkedInv' /\ Dangle(pending')
BY DEF Finish, NoEntries, ParkedInv, Dangle, Resumable

LEMMA AskDangles ==
  ASSUME TypeOK, RunInv, ResolveWithAsk PROVE Dangle(AskEntries)
<1>1. results' = Recorded(Allowed) /\ batch' = batch /\ phase = "resolve"
  BY DEF ResolveWithAsk, AllResolved
<1> SUFFICES ASSUME NEW c \in Calls, Resumable(AskEntries[c]) PROVE c \in batch' /\ results'[c] = 0
  BY DEF Dangle
<1>2. c \in batch /\ stage[c] \in {"ask", "paused"}
  BY DEF AskEntries, Resumable
<1>3. results[c] = 0 /\ c \notin Allowed
  BY <1>1, <1>2 DEF RunInv, StageInv, Allowed, OfKind
<1> QED BY <1>1, <1>2, <1>3 DEF Recorded

LEMMA PreambleParks ==
  ASSUME TypeOK, RunInv, ParkedInv, NEW c \in Calls,
         PreamblePark(c) \/ PreambleBegin(c) \/ PreamblePlainResult(c) \/ PreambleSubAgent(c) \/ PreambleUnmatched(c)
  PROVE  ParkedInv' /\ phase' # "idle"
<1> USE DEF convVars, histVars
<1>0. phase = "preamble" /\ phase' = "preamble" /\ batch' = batch /\ c \in batch /\ results[c] = 0 /\ c \in todo
  BY DEF PreamblePark, PreambleBegin, PreamblePlainResult, PreambleSubAgent, PreambleUnmatched, InHand, IsNext, RunInv, StageInv
<1>1. CASE PreamblePark(c)
  BY <1>0, <1>1 DEF PreamblePark, Visited, ParkedInv, TypeOK
<1>2. CASE PreambleBegin(c)
  BY <1>0, <1>2 DEF PreambleBegin, ParkedInv
<1>3. CASE PreamblePlainResult(c)
  BY <1>0, <1>3 DEF PreamblePlainResult, Visited, Recorded, ParkedInv, TypeOK
<1>4. CASE PreambleSubAgent(c) \/ PreambleUnmatched(c)
  <2>1. todo' = todo \ {c} /\ \/ parked' = [parked EXCEPT ![c] = "subAgent"] /\ results' = results
                              \/ parked' = parked /\ results' \in {results, Recorded({c})}
    BY <1>4 DEF PreambleSubAgent, PreambleUnmatched, Visited, OutcomeKinds
  <2> QED BY <1>0, <2>1 DEF Recorded, ParkedInv, TypeOK
<1> QED BY <1>0, <1>1, <1>2, <1>3, <1>4

\* One step: the invariant holds on, and a run that ends leaves entries that dangle.
LEMMA StepDangles ==
  ASSUME TypeOK, RunInv, ParkedInv, Next
  PROVE  ParkedInv' /\ (phase # "idle" /\ phase' = "idle" => Dangle(pending'))
<1> USE DEF convVars, runVars, histVars
<1>1. CASE Caller
  <2>1. phase = "idle" /\ \A c \in Calls : ~Resumable(parked[c])
    BY <1>1 DEF Caller, StartRun, AppendUserMessage, ProvideResult, ApplyDecision, ParkedInv
  <2>2. parked' = parked \/ parked' = NoEntries
    BY <1>1 DEF Caller, StartRun, AppendUserMessage, ProvideResult, ApplyDecision, Finish
  <2> QED BY <2>1, <2>2 DEF ParkedInv, Resumable, NoEntries
<1>2. ASSUME NEW c \in Calls, Pipeline(c) PROVE ParkedInv' /\ (phase' = "idle" => Dangle(pending'))
  <2>1. CASE Throw(c)
    BY <2>1, FinishDangles, NoneDangle DEF Throw
  <2>2. CASE RunApprovalHooks(c) \/ RunPreToolUseHooks(c) \/ Execute(c)
    BY <2>2 DEF RunApprovalHooks, RunPreToolUseHooks, Execute, Working, ParkedInv
  <2> QED BY <1>2, <2>1, <2>2 DEF Pipeline
<1>3. ASSUME Preamble PROVE ParkedInv' /\ (phase' = "idle" => Dangle(pending'))
  <2>1. ASSUME NEW c \in Calls, PreambleStop(c) PROVE ParkedInv' /\ Dangle(pending')
    <3>1. /\ phase = "preamble" /\ c \in todo /\ batch' = batch /\ results' \in {results, Recorded({c})}
          /\ Finish("stopCondition", [parked EXCEPT ![c] = "stopped"])
      BY <2>1 DEF PreambleStop, InHand, IsNext
    <3>2. Dangle([parked EXCEPT ![c] = "stopped"])
      BY <3>1 DEF Dangle, ParkedInv, Resumable, Recorded, TypeOK
    <3> QED BY <3>1, <3>2, FinishDangles
  <2>2. CASE PreambleEnd
    <3>1. CASE Finish("approvalRequired", parked)
      <4>1. Dangle(parked)
        BY <2>2 DEF PreambleEnd, Dangle, ParkedInv
      <4> QED BY <3>1, <4>1, FinishDangles
    <3>2. CASE parked = NoEntries /\ phase' = "head" /\ parked' = parked
      BY <3>2 DEF ParkedInv, Resumable, NoEntries
    <3> QED BY <2>2, <3>1, <3>2 DEF PreambleEnd
  <2> QED BY <1>3, <2>1, <2>2, PreambleParks DEF Preamble
<1>4. ASSUME Model PROVE ParkedInv' /\ (phase' = "idle" => Dangle(pending'))
  <2>1. \A c \in Calls : ~Resumable(parked[c])
    BY <1>4 DEF Model, LoopHead, ModelFails, ModelAnswers, ModelCallsTools, ParkedInv
  <2>2. \/ \E reason \in FinishReasons : Finish(reason, NoEntries)
        \/ phase' \in {"model", "resolve"} /\ parked' = parked
    BY <1>4 DEF Model, LoopHead, ModelFails, ModelAnswers, ModelCallsTools, FinishReasons
  <2>3. CASE phase' \in {"model", "resolve"} /\ parked' = parked
    BY <2>1, <2>3 DEF ParkedInv
  <2> QED BY <2>2, <2>3, FinishDangles, NoneDangle
<1>5. ASSUME Outcome PROVE ParkedInv' /\ (phase' = "idle" => Dangle(pending'))
  <2>1. CASE ResolveWithAsk
    <3>1. CASE Finish("approvalRequired", AskEntries)
      BY <2>1, <3>1, AskDangles, FinishDangles
    <3>2. CASE phase' = "wait" /\ parked' = AskEntries
      BY <2>1, <3>2, AskDangles DEF Dangle, ParkedInv
    <3> QED BY <2>1, <3>1, <3>2 DEF ResolveWithAsk
  <2>2. CASE WaitEnds
    <3>1. CASE Finish("approvalRequired", parked)
      <4>1. Dangle(parked)
        BY <2>2 DEF WaitEnds, Dangle, ParkedInv
      <4> QED BY <3>1, <4>1, FinishDangles
    <3>2. CASE phase' = "live" /\ parked' = NoEntries
      BY <3>2 DEF ParkedInv, Resumable, NoEntries
    <3> QED BY <2>2, <3>1, <3>2 DEF WaitEnds
  <2>3. CASE SettleStop
    <3>1. Dangle([c \in Calls |-> IF c \in (batch \ Asks) \ Appended THEN "stopped" ELSE "none"])
      BY DEF Dangle, Resumable
    <3> QED BY <2>3, <3>1, FinishDangles DEF SettleStop
  <2>4. CASE SettleNormal
    <3>1. CASE Finish("stopCondition", NoEntries)
      BY <3>1, FinishDangles, NoneDangle
    <3>2. CASE phase = "settle" /\ phase' = "head" /\ parked' = parked
      BY <3>2 DEF ParkedInv
    <3> QED BY <2>4, <3>1, <3>2 DEF SettleNormal
  <2>5. CASE ResolveWithoutAsk \/ LiveEnds \/ \E c \in Calls : LiveDenial(c) \/ LiveBegin(c) \/ LiveResult(c)
    <3>1. phase \in {"resolve", "live"} /\ phase' \in {"settle", "live"} /\ parked' = parked
      BY <2>5 DEF ResolveWithoutAsk, AllResolved, LiveEnds, LiveDenial, LiveBegin, LiveResult, Deciding
    <3> QED BY <3>1 DEF ParkedInv
  <2> QED BY <1>5, <2>1, <2>2, <2>3, <2>4, <2>5 DEF Outcome
<1>6. ASSUME \/ Abort \/ \E c \in Calls : RunLate(c)
             \/ \E c \in Calls, approved \in BOOLEAN : ResolveApproval(c, approved)
             \/ Rest
      PROVE  ParkedInv' /\ phase' = phase
  BY <1>6 DEF Abort, RunLate, ResolveApproval, Rest, vars, ParkedInv
<1> QED BY <1>1, <1>2, <1>3, <1>4, <1>5, <1>6 DEF Next, LoopStep, Caller, StartRun, AppendUserMessage, ProvideResult, ApplyDecision

\* Whatever ends a run, an approval or a paused sub-agent it leaves to a later one belongs
\* to a call of the last message without a result, for any number of calls and runs and
\* every configuration (finishRun, the parking of the preamble, the ask branch).
THEOREM Dangling == Spec => EntriesDangle
<1> DEFINE A == phase # "idle" /\ phase' = "idle" => Dangle(pending')
<1>1. Init => ParkedInv
  BY DEF Init, ParkedInv, NoEntries, Resumable
<1>2. TypeOK /\ RunInv /\ ParkedInv /\ [Next]_vars => ParkedInv' /\ [A]_vars
  <2>1. CASE UNCHANGED vars
    BY <2>1 DEF vars, convVars, runVars, ParkedInv
  <2> QED BY <2>1, StepDangles
<1>3. Spec => [][A]_vars
  BY <1>1, <1>2, TypeCorrect, RunInvariant, PTL DEF Spec
<1>4. A => (phase # "idle" /\ phase' = "idle" =>
              \A c \in Calls : pending'[c] \in {"approval", "subAgent"} => c \in batch' /\ results'[c] = 0)
  BY DEF Dangle, Resumable
<1> QED BY <1>3, <1>4, PTL DEF EntriesDangle

-----------------------------------------------------------------------------
(* The model is asked only when every call has its result.                 *)

\* Where no hook answers for a tool and nothing stops a run half-way.
AnswerConfig == GateConfig /\ "toolResult" \notin PreVerdicts

Outcomes == {"executed", "paused", "denied", "ask"}

\* Where a call of the last message is until it has its result.
UnansweredInv ==
  \A c \in batch : results[c] = 0 =>
    /\ phase \notin {"head", "model"}
    /\ phase = "preamble" => c \in todo \/ parked[c] # "none"
    /\ phase = "wait" => stage[c] \in {"ask", "paused"}
    /\ phase = "live" => c \in todo
    /\ phase = "settle" => stage[c] \in {"executed", "denied"}

\* No approval hook runs for the calls a sequential loop visits.
SequentialInv ==
  /\ phase = "preamble" => \A c \in todo : stage[c] \notin {"denied", "ask"}
  /\ phase = "live" => \A c \in todo : stage[c] # "denied"

AnswerInv ==
  /\ \A c \in 1..issued : c \in batch \/ results[c] > 0
  /\ \A c \in Calls : stage[c] \in InFlight \cup Outcomes \cup {"none"}
  /\ UnansweredInv /\ SequentialInv

\* A run that ends owes nothing.
LEMMA FinishAnswers ==
  ASSUME NEW reason, NEW entries, Finish(reason, entries),
         \A c \in 1..issued' : c \in batch' \/ results'[c] > 0
  PROVE  AnswerInv'
BY DEF Finish, AllIdle, AnswerInv, UnansweredInv, SequentialInv

LEMMA IssuedAreCalls == ASSUME TypeOK PROVE \A c \in 1..issued : c \in Calls
BY AgentLoopAssumption DEF TypeOK, Calls

\* Recording results takes none away.
LEMMA RecordedAnswers ==
  ASSUME TypeOK, NEW S
  PROVE  \A c \in Calls : results[c] > 0 => Recorded(S)[c] > 0
BY DEF Recorded, TypeOK

LEMMA AnsweredKept ==
  ASSUME TypeOK, AnswerInv, NEW S
  PROVE  \A c \in 1..issued : c \in batch \/ Recorded(S)[c] > 0
BY IssuedAreCalls, RecordedAnswers DEF AnswerInv

LEMMA CallerAnswers == ASSUME TypeOK, RunInv, AnswerInv, Caller PROVE AnswerInv'
<1> USE DEF histVars, runVars
<1>1. CASE StartRun
  <2>1. CASE Finish("error", NoEntries) /\ UNCHANGED <<issued, batch, results>>
    BY <2>1, FinishAnswers DEF AnswerInv
  <2>2. CASE phase' = "preamble" /\ todo' = Unresolved /\ UNCHANGED <<issued, batch, results, stage>>
    BY <1>1, <2>2 DEF StartRun, RunInv, StageInv, AnswerInv, UnansweredInv, SequentialInv, Unresolved, TypeOK
  <2> QED BY <1>1, <2>1, <2>2 DEF StartRun
<1>2. CASE AppendUserMessage
  BY <1>2 DEF AppendUserMessage, AnswerInv, UnansweredInv, SequentialInv
<1>3. ASSUME NEW c \in Calls, ProvideResult(c) \/ \E approved \in BOOLEAN : ApplyDecision(c, approved)
      PROVE  AnswerInv'
  <2>1. /\ phase = "idle" /\ UNCHANGED <<issued, batch, phase, stage>>
        /\ results' \in {results, Recorded({c})}
    BY <1>3 DEF ProvideResult, ApplyDecision
  <2>2. \A d \in 1..issued : d \in batch \/ results'[d] > 0
    BY <2>1, AnsweredKept DEF AnswerInv
  <2> QED BY <2>1, <2>2 DEF AnswerInv, UnansweredInv, SequentialInv
<1> QED BY <1>1, <1>2, <1>3 DEF Caller

LEMMA PipelineAnswers ==
  ASSUME AnswerConfig, TypeOK, RunInv, AnswerInv, NEW c \in Calls, Pipeline(c)
  PROVE  AnswerInv'
<1> USE DEF convVars
<1>0. \A k \in {"resolve", "preamble", "live"} : phase = k => phase \notin {"wait", "settle", "head", "model"}
  OBVIOUS
<1>1. CASE RunApprovalHooks(c)
  BY <1>1 DEF RunApprovalHooks, AnswerInv, UnansweredInv, SequentialInv, InFlight, Outcomes, TypeOK
<1>2. CASE RunPreToolUseHooks(c)
  BY <1>2 DEF RunPreToolUseHooks, Working, AnswerConfig, GateConfig, AnswerInv, UnansweredInv, SequentialInv, InFlight, Outcomes, TypeOK
<1>3. CASE Execute(c)
  BY <1>3, AgentLoopAssumption
  DEF Execute, executeToolCall, Working, AnswerConfig, GateConfig, AnswerInv, UnansweredInv, SequentialInv, InFlight, Outcomes, TypeOK
<1>4. CASE Throw(c)
  BY <1>4 DEF Throw, AnswerConfig, GateConfig
<1> QED BY <1>1, <1>2, <1>3, <1>4 DEF Pipeline

LEMMA PreambleAnswers == ASSUME AnswerConfig, TypeOK, RunInv, AnswerInv, Preamble PROVE AnswerInv'
<1> USE DEF convVars
<1>1. ASSUME NEW c \in Calls,
             PreamblePark(c) \/ PreamblePlainResult(c) \/ PreambleSubAgent(c) \/ PreambleUnmatched(c)
      PROVE  AnswerInv'
  <2>1. /\ phase = "preamble" /\ phase' = "preamble" /\ c \in batch /\ Visited(c)
        /\ UNCHANGED <<issued, batch>> /\ results' \in {results, Recorded({c})}
    BY <1>1 DEF PreamblePark, PreamblePlainResult, PreambleSubAgent, PreambleUnmatched, InHand, IsNext, RunInv, StageInv
  <2>2. results' = Recorded({c}) \/ parked'[c] # "none"
    BY <1>1 DEF PreamblePark, Parks, PreamblePlainResult, PreambleSubAgent, PreambleUnmatched, InHand, IsNext, AnswerInv, SequentialInv, OutcomeKinds, InFlight, Outcomes, TypeOK
  <2>3. \A d \in Calls : d # c => parked'[d] = parked[d]
    BY <1>1 DEF PreamblePark, PreamblePlainResult, PreambleSubAgent, PreambleUnmatched, TypeOK
  <2>4. results'[c] > 0 \/ parked'[c] # "none"
    BY <2>2 DEF Recorded, TypeOK
  <2>5. \A d \in Calls : results[d] > 0 => results'[d] > 0
    BY <2>1, RecordedAnswers
  <2>6. \A d \in Calls : stage'[d] \in InFlight \cup Outcomes \cup {"none"}
    BY <2>1 DEF Visited, AnswerInv, TypeOK
  <2>7. \A d \in 1..issued : d \in batch \/ results'[d] > 0
    BY <2>1, AnsweredKept DEF AnswerInv
  <2>8. UnansweredInv' /\ SequentialInv'
    BY <2>1, <2>3, <2>4, <2>5 DEF Visited, AnswerInv, UnansweredInv, SequentialInv, TypeOK
  <2> QED BY <2>1, <2>6, <2>7, <2>8 DEF AnswerInv
<1>2. ASSUME NEW c \in Calls, PreambleBegin(c) PROVE AnswerInv'
  BY <1>2 DEF PreambleBegin, InHand, AnswerInv, UnansweredInv, SequentialInv, InFlight, TypeOK
<1>3. ASSUME NEW c \in Calls, PreambleStop(c) PROVE FALSE
  BY <1>3 DEF PreambleStop, AnswerInv, InFlight, Outcomes
<1>4. CASE PreambleEnd
  <2>1. CASE Finish("approvalRequired", parked)
    BY <1>4, <2>1, FinishAnswers DEF PreambleEnd, AnswerInv
  <2>2. CASE parked = NoEntries /\ phase' = "head" /\ UNCHANGED stage
    <3>1. \A c \in batch : results[c] # 0
      BY <1>4, <2>2 DEF PreambleEnd, NoEntries, AnswerInv, UnansweredInv, TypeOK
    <3> QED BY <1>4, <2>2, <3>1 DEF PreambleEnd, AnswerInv, UnansweredInv, SequentialInv
  <2> QED BY <1>4, <2>1, <2>2 DEF PreambleEnd
<1> QED BY <1>1, <1>2, <1>3, <1>4 DEF Preamble

LEMMA ModelStepAnswers == ASSUME AnswerConfig, TypeOK, RunInv, AnswerInv, Model PROVE AnswerInv'
<1>0. phase \in {"head", "model"} /\ \A c \in 1..issued : results[c] > 0
  <2>1. phase \in {"head", "model"}
    BY DEF Model, LoopHead, ModelFails, ModelAnswers, ModelCallsTools
  <2> QED BY <2>1 DEF AnswerInv, UnansweredInv, TypeOK, Calls
<1>1. CASE LoopHead
  <2>1. UNCHANGED <<issued, batch, results>>
    BY <1>1 DEF LoopHead
  <2>2. CASE phase' = "model" /\ UNCHANGED stage
    BY <1>0, <2>1, <2>2 DEF AnswerInv, UnansweredInv, SequentialInv, RunInv, FreshInv, TypeOK
  <2> QED BY <1>1, <2>1, <2>2, FinishAnswers DEF LoopHead, AnswerInv
<1>2. CASE ModelFails
  BY <1>2, FinishAnswers DEF ModelFails, AnswerInv
<1>3. CASE ModelAnswers
  BY <1>0, <1>3, FinishAnswers DEF ModelAnswers
<1>4. ASSUME NEW k \in 0..MaxCalls, ModelCallsTools(k) PROVE AnswerInv'
  <2>1. /\ issued' = issued + k /\ batch' = (issued + 1)..(issued + k) /\ results' = results /\ phase' = "resolve"
        /\ stage' = [c \in Calls |-> IF c \in batch' THEN "approval" ELSE "none"]
    BY <1>4 DEF ModelCallsTools, AnswerConfig, GateConfig
  <2>2. \A c \in 1..issued' : c \in batch' \/ results'[c] > 0
    BY <1>0, <2>1 DEF TypeOK
  <2> QED BY <2>1, <2>2 DEF AnswerInv, UnansweredInv, SequentialInv, InFlight
<1> QED BY <1>1, <1>2, <1>3, <1>4 DEF Model

LEMMA OutcomeAnswers == ASSUME AnswerConfig, TypeOK, RunInv, AnswerInv, Outcome PROVE AnswerInv'
<1> USE DEF convVars
<1>1. CASE ResolveWithoutAsk
  <2>1. \A c \in batch : stage[c] \in {"executed", "denied"}
    BY <1>1 DEF ResolveWithoutAsk, AllResolved, Asks, Pauses, OfKind, RunInv, StageInv, AnswerInv, InFlight, Outcomes, TypeOK
  <2> QED BY <1>1, <2>1 DEF ResolveWithoutAsk, AnswerInv, UnansweredInv, SequentialInv
<1>2. CASE ResolveWithAsk
  <2>1. results' = Recorded(Allowed) /\ UNCHANGED <<issued, batch>>
    BY <1>2 DEF ResolveWithAsk
  <2>2. \A c \in 1..issued' : c \in batch' \/ results'[c] > 0
    BY <2>1, AnsweredKept DEF AnswerInv
  <2>3. CASE Finish("approvalRequired", AskEntries)
    BY <2>2, <2>3, FinishAnswers
  <2>4. CASE phase' = "wait" /\ UNCHANGED stage
    <3>1. \A c \in batch : stage[c] \in {"ask", "paused"} \/ c \in Allowed
      BY <1>2 DEF ResolveWithAsk, AllResolved, Allowed, OfKind, RunInv, StageInv, AnswerInv, InFlight, Outcomes, TypeOK
    <3>2. \A c \in batch : c \in Allowed => results'[c] > 0
      BY <2>1 DEF Recorded, TypeOK
    <3> QED BY <2>1, <2>2, <2>4, <3>1, <3>2 DEF AnswerInv, UnansweredInv, SequentialInv
  <2> QED BY <1>2, <2>3, <2>4 DEF ResolveWithAsk
<1>3. CASE WaitEnds
  <2>1. CASE Finish("approvalRequired", parked)
    BY <1>3, <2>1, FinishAnswers DEF WaitEnds, AnswerInv
  <2>2. CASE ~AwaitsDecision /\ phase' = "live" /\ todo' = Asks /\ UNCHANGED stage
    BY <1>3, <2>2 DEF WaitEnds, AwaitsDecision, Asks, Pauses, OfKind, AnswerInv, UnansweredInv, SequentialInv
  <2> QED BY <1>3, <2>1, <2>2 DEF WaitEnds
<1>4. ASSUME NEW c \in Calls, LiveDenial(c) \/ LiveResult(c) PROVE AnswerInv'
  <2>1. /\ phase = "live" /\ phase' = "live" /\ UNCHANGED <<issued, batch>> /\ todo' = todo \ {c}
        /\ results' = Recorded({c}) /\ \A d \in Calls : stage'[d] = stage[d] \/ stage'[d] = "ask"
    BY <1>4 DEF LiveDenial, LiveResult, Deciding, IsNext, OutcomeKinds, AnswerInv, SequentialInv, InFlight, Outcomes, TypeOK
  <2>2. \A d \in Calls : (results[d] > 0 \/ d = c) => results'[d] > 0
    BY <2>1 DEF Recorded, TypeOK
  <2>3. \A d \in 1..issued : d \in batch \/ results'[d] > 0
    BY <2>1, AnsweredKept DEF AnswerInv
  <2>4. \A d \in Calls : stage'[d] \in InFlight \cup Outcomes \cup {"none"}
    BY <2>1 DEF AnswerInv, Outcomes
  <2>5. \A d \in batch : results'[d] = 0 => d # c /\ results[d] = 0
    <3>1. \A d \in batch : d \in Calls /\ results[d] \in Nat
      BY DEF TypeOK
    <3> QED BY <2>2, <3>1
  <2>6. UnansweredInv' /\ SequentialInv'
    BY <2>1, <2>5 DEF AnswerInv, UnansweredInv, SequentialInv, TypeOK
  <2> QED BY <2>1, <2>3, <2>4, <2>6 DEF AnswerInv
<1>5. ASSUME NEW c \in Calls, LiveBegin(c) PROVE AnswerInv'
  BY <1>5 DEF LiveBegin, Deciding, AnswerInv, UnansweredInv, SequentialInv, InFlight, TypeOK
<1>6. CASE LiveEnds
  BY <1>6 DEF LiveEnds, AnswerInv, UnansweredInv, SequentialInv
<1>7. CASE SettleStop
  BY <1>7 DEF SettleStop, HookStops, ExecStops, OfKind, AnswerInv, InFlight, Outcomes, TypeOK
<1>8. CASE SettleNormal
  <2>1. results' = Recorded(OfKind({"executed", "denied", "toolResult"})) /\ UNCHANGED <<issued, batch>>
    BY <1>8 DEF SettleNormal
  <2>2. \A c \in 1..issued' : c \in batch' \/ results'[c] > 0
    BY <2>1, AnsweredKept DEF AnswerInv
  <2>3. CASE Finish("stopCondition", NoEntries)
    BY <2>2, <2>3, FinishAnswers
  <2>4. CASE phase' = "head" /\ stage' = AllIdle
    <3>1. \A c \in batch : results'[c] > 0
      BY <1>8, <2>1 DEF SettleNormal, Recorded, OfKind, AnswerInv, UnansweredInv, TypeOK
    <3> QED BY <2>1, <2>2, <2>4, <3>1 DEF AnswerInv, UnansweredInv, SequentialInv, AllIdle
  <2> QED BY <1>8, <2>3, <2>4 DEF SettleNormal
<1> QED BY <1>1, <1>2, <1>3, <1>4, <1>5, <1>6, <1>7, <1>8 DEF Outcome

\* Where no hook answers for a tool and nothing stops a run half-way, no request to the
\* model leaves a call of the conversation without its result, whether approvals are
\* decided in flight, in later runs or never, for any number of calls and runs.
THEOREM Answered == ASSUME AnswerConfig PROVE Spec => []RequestAnswered
<1>1. Init => AnswerInv
  BY DEF Init, AnswerInv, UnansweredInv, SequentialInv, AllIdle
<1>2. TypeOK /\ RunInv /\ AnswerInv /\ [Next]_vars => AnswerInv'
  <2> SUFFICES ASSUME TypeOK, RunInv, AnswerInv, [Next]_vars PROVE AnswerInv'
    OBVIOUS
  <2>1. CASE Abort \/ Rest \/ UNCHANGED vars
    BY <2>1 DEF Abort, Rest, vars, convVars, runVars, AnswerInv, UnansweredInv, SequentialInv
  <2>2. ASSUME \/ \E c \in Calls : RunLate(c)
               \/ \E c \in Calls, approved \in BOOLEAN : ResolveApproval(c, approved)
        PROVE  AnswerInv'
    BY <2>2 DEF RunLate, ResolveApproval, convVars, runVars, AnswerInv, UnansweredInv, SequentialInv
  <2> QED
    BY <2>1, <2>2, CallerAnswers, PipelineAnswers, PreambleAnswers, ModelStepAnswers, OutcomeAnswers DEF Next, LoopStep
<1>3. TypeOK /\ AnswerInv => RequestAnswered
  BY DEF AnswerInv, UnansweredInv, RequestAnswered, TypeOK, Calls
<1> QED BY <1>1, <1>2, <1>3, TypeCorrect, RunInvariant, PTL DEF Spec

-----------------------------------------------------------------------------
(* FileState: the invariant.                                               *)

ReadEntries == [hash : Hashes, lines : SUBSET Lines]

Typed ==
  /\ disk \in [Paths -> Hashes] /\ readState \in [Paths -> ReadEntries] /\ verified \in [Paths -> Hashes]
  /\ calls \in Seq(Call)
  /\ progress \in [1..Len(calls) -> {"new", "go", "edit", "ran", "tracked", "done"}]
  /\ out \in [1..Len(calls) -> Hashes]

\* Something of the content is in the context.
Seen(content) == \E l \in Lines : <<content, l>> \in seen
Excused(p, content) == content = NoFile \/ p \in raced \/ Seen(content)

\* Where a call leaves the file it is about.
Place(c) == IF c.tool = "move" THEN c.to ELSE c.path

\* What the model writes it knows.
TextInv == \A i \in 1..Len(calls) : calls[i].tool = "write" => Seen(calls[i].text)

\* What is verified was seen.
VerifiedInv == \A p \in Paths : Excused(p, verified[p])

\* So is what a call that was let pass finds, and what the hook after a read finds.
AtWorkInv(i) ==
  progress[i] \in {"go", "edit", "ran"} =>
    /\ progress[i] = "edit" => calls[i].tool = "edit"
    /\ calls[i].tool # "read" => \A p \in Targets(calls[i]) : Excused(p, disk[p])
    /\ calls[i].tool = "read" /\ progress[i] = "ran" =>
         disk[calls[i].path] = out[i] \/ Excused(calls[i].path, disk[calls[i].path])
WorkInv == \A i \in 1..Len(calls) : AtWorkInv(i)

\* What the hooks have recorded of a call was seen.
TrackedInv == \A i \in 1..Len(calls) : progress[i] = "tracked" => Excused(Place(calls[i]), out[i])

OverwriteInv == Typed /\ TextInv /\ VerifiedInv /\ WorkInv /\ TrackedInv

\* Every line that is read is shown, and the hook hashes the text that was read.
ShowsAll == MaxKept = NumLines /\ ~Multimodal

\* The lines recorded of a content, for a call and for a file, are in the context.
ShownInv ==
  \A i \in 1..Len(calls) :
    progress[i] = "tracked" /\ calls[i].tool = "read" => {out[i]} \X Requested(calls[i]) \subseteq seen
Told(m) == \A p \in Paths : m[p].hash # NoFile => {m[p].hash} \X m[p].lines \subseteq seen

-----------------------------------------------------------------------------
(* The calls of a step.                                                    *)

LEMMA Smallest ==
  ASSUME NEW S \in SUBSET Nat, S # {}
  PROVE  \E x \in S : \A y \in S : x <= y
<1>1. PICK x \in S : \A y \in S : ~(<<y, x>> \in OpToRel(<, Nat))
  BY NatLessThanWellFounded, WFMin
<1>2. S \subseteq Nat
  OBVIOUS
<1>3. \A y \in S : ~(y < x)
  BY <1>1, <1>2 DEF OpToRel
<1>4. \A y \in S : x <= y
  BY <1>2, <1>3
<1> QED BY <1>4

LEMMA CallKinds ==
  ASSUME NEW c \in Call
  PROVE  /\ c.tool \in {"read", "write", "edit", "delete", "move"}
         /\ c.path \in Paths
         /\ c.tool = "read" => c.first \in Lines /\ c.last \in Lines /\ c.first <= c.last
         /\ c.tool \in {"write", "edit", "move"} => c.text \in Contents
         /\ c.tool = "move" => c.to \in Paths /\ c.to # c.path
BY DEF Call, AnyCall

LEMMA CallOf ==
  ASSUME Typed, NEW i \in 1..Len(calls)
  PROVE  /\ calls[i] \in Call /\ DOMAIN calls = 1..Len(calls) /\ Len(calls) \in Nat
         /\ Targets(calls[i]) \subseteq Paths /\ Place(calls[i]) \in Targets(calls[i])
         /\ calls[i].path \in Targets(calls[i])
<1>1. calls[i] \in Call /\ DOMAIN calls = 1..Len(calls) /\ Len(calls) \in Nat
  BY DEF Typed
<1> DEFINE c == calls[i]
<1> HIDE DEF c
<1>2. c.path \in Paths /\ (c.tool = "move" => c.to \in Paths)
  BY <1>1, CallKinds DEF c
<1>3. Targets(c) \subseteq Paths /\ Place(c) \in Targets(c) /\ c.path \in Targets(c)
  BY <1>2 DEF Targets, Place
<1> QED BY <1>1, <1>3 DEF c

LEMMA FirstLine == 1 \in Lines
BY FileStateAssumption DEF Lines

\* More in the context and more raced files excuse as much.
LEMMA StaysExcused ==
  ASSUME seen \subseteq seen', raced \subseteq raced', NEW p, NEW content, Excused(p, content)
  PROVE  Excused(p, content)'
BY DEF Excused, Seen

LEMMA InitOverwrite == FileStateInit => OverwriteInv
<1> SUFFICES ASSUME FileStateInit PROVE OverwriteInv
  OBVIOUS
<1>1. calls = <<>> /\ Len(calls) = 0 /\ progress = <<>> /\ out = <<>>
  BY DEF FileStateInit
<1>2. 1..Len(calls) = {}
  BY <1>1
<1>3. calls \in Seq(Call) /\ progress \in [1..Len(calls) -> {"new", "go", "edit", "ran", "tracked", "done"}]
      /\ out \in [1..Len(calls) -> Hashes]
  BY <1>1, <1>2
<1>4. /\ readState \in [Paths -> ReadEntries] /\ verified \in [Paths -> Hashes]
      /\ \A p \in Paths : verified[p] = NoFile
  BY DEF FileStateInit, NoEntry, Nothing, ReadEntries, Hashes
<1>5. Typed
  BY <1>3, <1>4 DEF FileStateInit, Typed
<1>6. VerifiedInv
  BY <1>4 DEF VerifiedInv, Excused
<1> QED BY <1>2, <1>5, <1>6 DEF OverwriteInv, TextInv, WorkInv, TrackedInv

-----------------------------------------------------------------------------
(* The merge at the end of a step.                                         *)

\* What one call does to the hashes and lines read.
LEMMA ReadUpdateCases ==
  ASSUME Typed, NEW i \in 1..Len(calls), NEW m \in [Paths -> ReadEntries], NEW p \in Paths
  PROVE  /\ ReadUpdate(m, i) \in [Paths -> ReadEntries]
         /\ \/ ReadUpdate(m, i)[p] = NoEntry
            \/ \E q \in Paths : ReadUpdate(m, i)[p] = m[q]
            \/ /\ calls[i].tool = "read" /\ out[i] # NoFile /\ p = calls[i].path
               /\ ReadUpdate(m, i)[p].hash = out[i]
               /\ ReadUpdate(m, i)[p].lines
                    = Requested(calls[i]) \cup IF m[p].hash = out[i] THEN m[p].lines ELSE {}
<1> DEFINE c == calls[i]
           o == out[i]
<1>1. c \in Call /\ o \in Hashes
  BY DEF Typed
<1> HIDE DEF c, o
<1>2. /\ c.tool \in {"read", "write", "edit", "delete", "move"}
      /\ c.path \in Paths /\ (c.tool = "move" => c.to \in Paths /\ c.to # c.path)
  BY <1>1, CallKinds
<1>3. NoEntry \in ReadEntries
  BY DEF NoEntry, ReadEntries, Hashes
<1>4. CASE c.tool = "read" /\ o # NoFile
  <2> DEFINE x == [hash |-> o, lines |-> Requested(c) \cup IF m[c.path].hash = o THEN m[c.path].lines ELSE {}]
  <2>1. ReadUpdate(m, i) = [m EXCEPT ![c.path] = x]
    BY <1>4 DEF ReadUpdate, ReadObservation, c, o
  <2>2. x \in ReadEntries
    <3>1. c.first \in Lines /\ c.last \in Lines BY <1>1, <1>4, CallKinds
    <3>2. Requested(c) \subseteq Lines BY <3>1, FileStateAssumption DEF Requested, Lines
    <3>3. m[c.path].lines \subseteq Lines BY <1>2 DEF ReadEntries
    <3> QED BY <1>1, <3>2, <3>3 DEF ReadEntries
  <2>3. x.hash = o /\ x.lines = Requested(c) \cup IF m[c.path].hash = o THEN m[c.path].lines ELSE {}
    OBVIOUS
  <2> HIDE DEF x
  <2>4. ReadUpdate(m, i) \in [Paths -> ReadEntries] BY <1>2, <2>1, <2>2
  <2>5. ReadUpdate(m, i)[p] = IF p = c.path THEN x ELSE m[p] BY <1>2, <2>1
  <2> QED BY <1>4, <2>3, <2>4, <2>5 DEF c, o
<1>5. CASE c.tool = "delete"
  <2>1. ReadUpdate(m, i) = [m EXCEPT ![c.path] = NoEntry]
    BY <1>5 DEF ReadUpdate, c
  <2>2. ReadUpdate(m, i)[p] = IF p = c.path THEN NoEntry ELSE m[p] BY <1>2, <2>1
  <2> QED BY <1>2, <1>3, <2>1, <2>2
<1>6. CASE c.tool = "move"
  <2> DEFINE y == IF o # NoFile /\ m[c.path].hash = o THEN m[c.path] ELSE m[c.to]
  <2>1. ReadUpdate(m, i) = [m EXCEPT ![c.path] = NoEntry, ![c.to] = y]
    BY <1>2, <1>6 DEF ReadUpdate, c, o
  <2>2. y \in ReadEntries /\ \E q \in Paths : y = m[q] BY <1>2, <1>6
  <2> HIDE DEF y
  <2>3. ReadUpdate(m, i)[p] = IF p = c.to THEN y ELSE IF p = c.path THEN NoEntry ELSE m[p]
    BY <1>2, <1>6, <2>1
  <2>4. ReadUpdate(m, i) \in [Paths -> ReadEntries] BY <1>2, <1>3, <2>1, <2>2
  <2> QED BY <2>2, <2>3, <2>4
<1>7. CASE ~(c.tool = "read" /\ o # NoFile) /\ c.tool # "delete" /\ c.tool # "move"
  <2>1. ReadUpdate(m, i) = m BY <1>7 DEF ReadUpdate, c, o
  <2> QED BY <2>1
<1> QED BY <1>4, <1>5, <1>6, <1>7

\* What one call does to the verified hashes: another one of what it has left there.
LEMMA VerificationUpdateCases ==
  ASSUME Typed, NEW i \in 1..Len(calls), NEW m \in [Paths -> Hashes], NEW p \in Paths
  PROVE  /\ VerificationUpdate(m, i) \in [Paths -> Hashes]
         /\ \/ VerificationUpdate(m, i)[p] \in {NoFile, m[p]}
            \/ VerificationUpdate(m, i)[p] = out[i] /\ p = Place(calls[i])
<1> DEFINE c == calls[i]
           o == out[i]
<1>1. c \in Call /\ o \in Hashes /\ NoFile \in Hashes
  BY DEF Typed, Hashes
<1> HIDE DEF c, o
<1>2. /\ c.tool \in {"read", "write", "edit", "delete", "move"}
      /\ c.path \in Paths /\ (c.tool = "move" => c.to \in Paths /\ c.to # c.path)
  BY <1>1, CallKinds
<1>3. CASE c.tool \in {"read", "write", "edit"} /\ o # NoFile
  <2>1. VerificationUpdate(m, i) = [m EXCEPT ![c.path] = o] BY <1>3 DEF VerificationUpdate, c, o
  <2>2. VerificationUpdate(m, i)[p] = IF p = c.path THEN o ELSE m[p] BY <1>2, <2>1
  <2>3. Place(c) = c.path BY <1>3 DEF Place
  <2> QED BY <1>1, <1>2, <2>1, <2>2, <2>3 DEF c, o
<1>4. CASE c.tool = "delete"
  <2>1. VerificationUpdate(m, i) = [m EXCEPT ![c.path] = NoFile] BY <1>4 DEF VerificationUpdate, c
  <2>2. VerificationUpdate(m, i)[p] = IF p = c.path THEN NoFile ELSE m[p] BY <1>2, <2>1
  <2> QED BY <1>1, <1>2, <2>1, <2>2
<1>5. CASE c.tool = "move"
  <2> DEFINE y == IF o # NoFile THEN o ELSE m[c.to]
  <2>1. VerificationUpdate(m, i) = [m EXCEPT ![c.path] = NoFile, ![c.to] = y]
    BY <1>2, <1>5 DEF VerificationUpdate, c, o
  <2>2. y \in Hashes /\ y \in {o, m[c.to]} BY <1>1, <1>2, <1>5
  <2> HIDE DEF y
  <2>3. VerificationUpdate(m, i)[p] = IF p = c.to THEN y ELSE IF p = c.path THEN NoFile ELSE m[p]
    BY <1>2, <1>5, <2>1
  <2>4. VerificationUpdate(m, i) \in [Paths -> Hashes] BY <1>1, <1>2, <2>1, <2>2
  <2>5. Place(c) = c.to BY <1>5 DEF Place
  <2> QED BY <2>2, <2>3, <2>4, <2>5 DEF c, o
<1>6. CASE ~(c.tool \in {"read", "write", "edit"} /\ o # NoFile) /\ c.tool # "delete" /\ c.tool # "move"
  <2>1. VerificationUpdate(m, i) = m BY <1>6 DEF VerificationUpdate, c, o
  <2> QED BY <2>1
<1> QED BY <1>3, <1>4, <1>5, <1>6

\* The hook states after one more call.
Next1(x, k) ==
  IF progress[k] = "tracked"
  THEN [read |-> ReadUpdate(x.read, k), verified |-> VerificationUpdate(x.verified, k)]
  ELSE x
Before == [read |-> readState, verified |-> verified]

\* The recursion has its function.
LEMMA MergedSteps ==
  ASSUME Len(calls) \in Nat
  PROVE  Merged = [k \in 0..Len(calls) |-> IF k = 0 THEN Before ELSE Next1(Merged[k - 1], k)]
<1> DEFINE N == Len(calls)
           Solves(g, n) == g = [k \in 0..n |-> IF k = 0 THEN Before ELSE Next1(g[k - 1], k)]
           Bad == {n \in 0..N : ~\E g : Solves(g, n)}
<1>1. \E g : Solves(g, N)
  <2>1. Bad # {} => FALSE
    <3> SUFFICES ASSUME Bad # {} PROVE FALSE
      OBVIOUS
    <3>1. Bad \in SUBSET Nat
      OBVIOUS
    <3>2. PICK n \in Bad : \A y \in Bad : n <= y
      <4> HIDE DEF Bad
      <4> QED BY <3>1, Smallest
    <3>3. n \in 0..N /\ ~\E g : Solves(g, n)
      OBVIOUS
    <3>4. CASE n = 0
      <4> DEFINE g == [k \in 0..0 |-> Before]
      <4>1. g = [k \in 0..0 |-> IF k = 0 THEN Before ELSE Next1(g[k - 1], k)]
        <5>1. \A k \in 0..0 : k = 0 OBVIOUS
        <5> QED BY <5>1
      <4>2. Solves(g, n) BY <3>4, <4>1
      <4> QED BY <3>3, <4>2
    <3>5. CASE n # 0
      <4>1. n - 1 \in 0..N /\ n - 1 < n /\ n \in Nat BY <3>3, <3>5
      <4>2. n - 1 \notin Bad
        <5> HIDE DEF Bad
        <5> QED BY <3>1, <3>2, <4>1
      <4>3. PICK g : Solves(g, n - 1) BY <4>1, <4>2
      <4> DEFINE h == [k \in 0..n |-> IF k = n THEN Next1(g[n - 1], n) ELSE g[k]]
      <4>4. \A k \in 0..(n - 1) : g[k] = IF k = 0 THEN Before ELSE Next1(g[k - 1], k)
        BY <4>3
      <4>5. \A k \in 0..n : h[k] = IF k = 0 THEN Before ELSE Next1(h[k - 1], k)
        <5> TAKE k \in 0..n
        <5>1. CASE k = 0
          <6>1. 0 \in 0..(n - 1) /\ k # n BY <3>5, <4>1, <5>1
          <6> QED BY <4>4, <5>1, <6>1
        <5>2. CASE k # 0
          <6>1. k - 1 \in 0..(n - 1) /\ k - 1 \in 0..n /\ k - 1 # n BY <4>1, <5>2
          <6>2. h[k - 1] = g[k - 1] BY <6>1
          <6>3. CASE k = n BY <5>2, <6>2, <6>3
          <6>4. CASE k # n
            <7>1. k \in 0..(n - 1) BY <4>1, <6>4
            <7>2. h[k] = g[k] BY <6>4
            <7>3. g[k] = Next1(g[k - 1], k) BY <4>4, <5>2, <7>1
            <7> QED BY <5>2, <6>2, <7>2, <7>3
          <6> QED BY <6>3, <6>4
        <5> QED BY <5>1, <5>2
      <4>6. DOMAIN h = 0..n /\ h = [k \in 0..n |-> h[k]]
        OBVIOUS
      <4> HIDE DEF h
      <4>7. Solves(h, n) BY <4>5, <4>6
      <4> QED BY <3>3, <4>7
    <3> QED BY <3>4, <3>5
  <2>2. N \in 0..N OBVIOUS
  <2> QED BY <2>1, <2>2
<1>2. Merged = CHOOSE g : Solves(g, N)
  BY DEF Merged, Next1, Before
<1>3. Solves(Merged, N)
  BY <1>1, <1>2
<1> QED BY <1>3

\* After each call the hashes are of contents that were seen.
LEMMA MergedVerified ==
  ASSUME OverwriteInv, NEW k \in 0..Len(calls)
  PROVE  /\ Merged[k].read \in [Paths -> ReadEntries] /\ Merged[k].verified \in [Paths -> Hashes]
         /\ \A p \in Paths : Excused(p, Merged[k].verified[p])
<1> DEFINE N == Len(calls)
           Fine(x) == /\ x.read \in [Paths -> ReadEntries] /\ x.verified \in [Paths -> Hashes]
                      /\ \A p \in Paths : Excused(p, x.verified[p])
           Bad == {n \in 0..N : ~Fine(Merged[n])}
<1>1. N \in Nat /\ Typed
  BY DEF OverwriteInv, Typed
<1>2. \A n \in 0..N : Merged[n] = IF n = 0 THEN Before ELSE Next1(Merged[n - 1], n)
  BY <1>1, MergedSteps
<1>3. Fine(Before)
  BY DEF OverwriteInv, Typed, VerifiedInv, Before
<1>4. ASSUME NEW i \in 1..N, NEW x, Fine(x) PROVE Fine(Next1(x, i))
  <2>1. CASE progress[i] = "tracked"
    <3> DEFINE r == ReadUpdate(x.read, i)
               v == VerificationUpdate(x.verified, i)
    <3>1. Next1(x, i) = [read |-> r, verified |-> v] BY <2>1 DEF Next1
    <3>2. \A p \in Paths : r \in [Paths -> ReadEntries] BY <1>1, <1>4, ReadUpdateCases
    <3>3. ASSUME NEW p \in Paths PROVE v \in [Paths -> Hashes] /\ Excused(p, v[p])
      <4>1. /\ v \in [Paths -> Hashes]
            /\ v[p] \in {NoFile, x.verified[p]} \/ (v[p] = out[i] /\ p = Place(calls[i]))
        BY <1>1, <1>4, VerificationUpdateCases
      <4>2. Excused(Place(calls[i]), out[i]) BY <2>1 DEF OverwriteInv, TrackedInv
      <4>3. Excused(p, NoFile) /\ Excused(p, x.verified[p]) BY <1>4 DEF Excused
      <4> HIDE DEF v
      <4> QED BY <4>1, <4>2, <4>3
    <3>4. calls[i].path \in Paths BY <1>1, CallOf
    <3> HIDE DEF r, v
    <3> QED BY <3>1, <3>2, <3>3, <3>4
  <2>2. CASE progress[i] # "tracked"
    BY <1>4, <2>2 DEF Next1
  <2> QED BY <2>1, <2>2
<1>5. Bad = {}
  <2> SUFFICES ASSUME Bad # {} PROVE FALSE
    OBVIOUS
  <2>1. Bad \in SUBSET Nat
    OBVIOUS
  <2>2. PICK n \in Bad : \A y \in Bad : n <= y
    <3> HIDE DEF Bad
    <3> QED BY <2>1, Smallest
  <2>3. n \in 0..N /\ ~Fine(Merged[n])
    OBVIOUS
  <2> HIDE DEF Fine
  <2>4. n # 0
    BY <1>2, <1>3, <2>3
  <2>5. n - 1 \in 0..N /\ n - 1 < n /\ n \in 1..N
    BY <2>3, <2>4
  <2>6. n - 1 \notin Bad
    <3> HIDE DEF Bad
    <3> QED BY <2>1, <2>2, <2>5
  <2>7. Fine(Merged[n - 1])
    BY <2>5, <2>6
  <2>8. Merged[n] = Next1(Merged[n - 1], n)
    BY <1>2, <2>3, <2>4
  <2> QED BY <1>4, <2>3, <2>5, <2>7, <2>8
<1> QED BY <1>5

\* After each call the lines are in the context.
LEMMA MergedTold ==
  ASSUME OverwriteInv, ShownInv, Told(readState), NEW k \in 0..Len(calls)
  PROVE  Told(Merged[k].read)
<1> DEFINE N == Len(calls)
           Bad == {n \in 0..N : ~Told(Merged[n].read)}
<1>1. N \in Nat /\ Typed
  BY DEF OverwriteInv, Typed
<1>2. \A n \in 0..N : Merged[n] = IF n = 0 THEN Before ELSE Next1(Merged[n - 1], n)
  BY <1>1, MergedSteps
<1>3. Told(Before.read)
  BY DEF Before
<1>4. ASSUME NEW i \in 1..N, NEW x, x.read \in [Paths -> ReadEntries], Told(x.read) PROVE Told(Next1(x, i).read)
  <2>1. CASE progress[i] = "tracked"
    <3> DEFINE m == x.read
               r == ReadUpdate(m, i)
    <3>1. Next1(x, i).read = r BY <2>1 DEF Next1
    <3> SUFFICES ASSUME NEW p \in Paths, r[p].hash # NoFile
                 PROVE  {r[p].hash} \X r[p].lines \subseteq seen
      BY <3>1 DEF Told
    <3>2. \/ r[p] = NoEntry
          \/ \E q \in Paths : r[p] = m[q]
          \/ /\ calls[i].tool = "read" /\ p = calls[i].path
             /\ r[p].hash = out[i]
             /\ r[p].lines = Requested(calls[i]) \cup IF m[p].hash = out[i] THEN m[p].lines ELSE {}
      <4> HIDE DEF r, m
      <4>1. m \in [Paths -> ReadEntries] BY <1>4 DEF m
      <4> QED BY <1>1, <4>1, ReadUpdateCases DEF r
    <3> HIDE DEF r
    <3>3. CASE r[p] = NoEntry
      BY <3>3 DEF NoEntry
    <3>4. CASE \E q \in Paths : r[p] = m[q]
      BY <1>4, <3>4 DEF Told
    <3>5. CASE /\ calls[i].tool = "read" /\ p = calls[i].path
               /\ r[p].hash = out[i]
               /\ r[p].lines = Requested(calls[i]) \cup IF m[p].hash = out[i] THEN m[p].lines ELSE {}
      <4>1. {out[i]} \X Requested(calls[i]) \subseteq seen BY <2>1, <3>5 DEF ShownInv
      <4>2. m[p].hash = out[i] => {out[i]} \X m[p].lines \subseteq seen BY <1>4, <3>5 DEF Told
      <4> DEFINE earlier == IF m[p].hash = out[i] THEN m[p].lines ELSE {}
      <4>3. {out[i]} \X earlier \subseteq seen BY <4>2
      <4>4. r[p].hash = out[i] /\ r[p].lines = Requested(calls[i]) \cup earlier BY <3>5
      <4> HIDE DEF earlier, m
      <4> QED BY <4>1, <4>3, <4>4
    <3> QED BY <3>2, <3>3, <3>4, <3>5
  <2>2. CASE progress[i] # "tracked"
    BY <1>4, <2>2 DEF Next1
  <2> QED BY <2>1, <2>2
<1>5. Bad = {}
  <2> SUFFICES ASSUME Bad # {} PROVE FALSE
    OBVIOUS
  <2>1. Bad \in SUBSET Nat
    OBVIOUS
  <2>2. PICK n \in Bad : \A y \in Bad : n <= y
    <3> HIDE DEF Bad
    <3> QED BY <2>1, Smallest
  <2>3. n \in 0..N /\ ~Told(Merged[n].read)
    OBVIOUS
  <2>4. n # 0
    BY <1>2, <1>3, <2>3
  <2>5. n - 1 \in 0..N /\ n - 1 < n /\ n \in 1..N
    BY <2>3, <2>4
  <2>6. n - 1 \notin Bad
    <3> HIDE DEF Bad
    <3> QED BY <2>1, <2>2, <2>5
  <2>7. Told(Merged[n - 1].read) /\ Merged[n - 1].read \in [Paths -> ReadEntries]
    BY <2>5, <2>6, MergedVerified
  <2>8. Merged[n] = Next1(Merged[n - 1], n)
    BY <1>2, <2>3, <2>4
  <2> QED BY <1>4, <2>3, <2>5, <2>7, <2>8
<1> QED BY <1>5

-----------------------------------------------------------------------------
(* The steps of a call.                                                    *)

Stages == {"new", "go", "edit", "ran", "tracked", "done"}

\* The context and the raced files only grow, and what is written is known or excused: the
\* other calls then find what they may.
LEMMA CallStep ==
  ASSUME OverwriteInv, NEW i \in 1..Len(calls), NEW s \in Stages,
         calls' = calls, readState' = readState, verified' = verified,
         progress' = [progress EXCEPT ![i] = s],
         seen \subseteq seen', raced \subseteq raced',
         disk' \in [Paths -> Hashes],
         \A p \in Paths : disk'[p] = disk[p] \/ Excused(p, disk[p])',
         out' \in [1..Len(calls) -> Hashes],
         \A j \in 1..Len(calls) : j # i => out'[j] = out[j],
         AtWorkInv(i)',
         s = "tracked" => Excused(Place(calls[i]), out[i])'
  PROVE  OverwriteInv'
<1>1. Typed'
  BY DEF OverwriteInv, Typed, Stages
<1>2. TextInv'
  <2> SUFFICES ASSUME NEW j \in 1..Len(calls), calls[j].tool = "write" PROVE Seen(calls[j].text)'
    BY DEF TextInv
  <2>1. Seen(calls[j].text) BY DEF OverwriteInv, TextInv
  <2> QED BY <2>1 DEF Seen
<1>3. VerifiedInv'
  <2> SUFFICES ASSUME NEW p \in Paths PROVE Excused(p, verified[p])'
    BY DEF VerifiedInv
  <2>1. Excused(p, verified[p]) BY DEF OverwriteInv, VerifiedInv
  <2> QED BY <2>1 DEF Excused, Seen
<1>4. \A j \in 1..Len(calls) : j # i => progress'[j] = progress[j]
  BY DEF OverwriteInv, Typed
<1>5. ASSUME NEW j \in 1..Len(calls), j # i PROVE AtWorkInv(j)'
  <2>1. AtWorkInv(j) /\ progress'[j] = progress[j] /\ out'[j] = out[j]
    BY <1>4, <1>5 DEF OverwriteInv, WorkInv
  <2>2. \A p \in Targets(calls[j]) : Excused(p, disk[p]) => Excused(p, disk[p])'
    <3> TAKE p \in Targets(calls[j])
    <3>1. p \in Paths BY CallOf DEF OverwriteInv
    <3>2. disk'[p] = disk[p] \/ Excused(p, disk[p])' BY <3>1
    <3> QED BY <3>2 DEF Excused, Seen
  <2>3. calls[j].path \in Targets(calls[j]) /\ calls[j].path \in Paths
    BY CallOf DEF OverwriteInv
  <2>4. disk'[calls[j].path] = disk[calls[j].path] \/ Excused(calls[j].path, disk[calls[j].path])'
    BY <2>3
  <2>5. CASE calls[j].tool # "read"
    BY <2>1, <2>2, <2>5 DEF AtWorkInv, Targets
  <2>6. CASE calls[j].tool = "read"
    BY <2>1, <2>2, <2>3, <2>4, <2>6 DEF AtWorkInv
  <2> QED BY <2>5, <2>6
<1>6. WorkInv'
  BY <1>5 DEF WorkInv
<1>7. TrackedInv'
  <2> SUFFICES ASSUME NEW j \in 1..Len(calls), progress'[j] = "tracked" PROVE Excused(Place(calls[j]), out[j])'
    BY DEF TrackedInv
  <2>1. CASE j = i
    <3>1. s = "tracked" BY <2>1 DEF OverwriteInv, Typed
    <3> QED BY <2>1, <3>1
  <2>2. CASE j # i
    <3>1. progress[j] = "tracked" /\ out'[j] = out[j] BY <1>4, <2>2
    <3>2. Excused(Place(calls[j]), out[j]) BY <3>1 DEF OverwriteInv, TrackedInv
    <3> QED BY <3>1, <3>2 DEF Excused, Seen, Place
  <2> QED BY <2>1, <2>2
<1> QED BY <1>1, <1>2, <1>3, <1>6, <1>7 DEF OverwriteInv

LEMMA PreInv ==
  ASSUME OverwriteInv, NEW i \in 1..Len(calls), PreToolUse(i) PROVE OverwriteInv'
<1>1. PICK s \in {"go", "done"} :
        /\ progress' = [progress EXCEPT ![i] = s]
        /\ s = "go" /\ calls[i].tool # "read" => MayWrite(calls[i])
  BY DEF PreToolUse
<1>2. /\ disk' = disk /\ readState' = readState /\ verified' = verified /\ calls' = calls
      /\ out' = out /\ seen' = seen /\ raced' = raced
  BY DEF PreToolUse
<1>3. progress'[i] = s /\ disk \in [Paths -> Hashes] /\ out \in [1..Len(calls) -> Hashes]
  BY <1>1 DEF OverwriteInv, Typed
<1>4. AtWorkInv(i)'
  <2>1. ASSUME s = "go", calls[i].tool # "read", NEW p \in Targets(calls[i])
        PROVE  Excused(p, disk[p])
    <3>1. p \in Paths BY CallOf DEF OverwriteInv
    <3>2. disk[p] # NoFile => verified[p] = disk[p] BY <1>1, <2>1 DEF MayWrite
    <3>3. Excused(p, verified[p]) BY <3>1 DEF OverwriteInv, VerifiedInv
    <3> QED BY <3>2, <3>3 DEF Excused
  <2>2. ASSUME s = "go", calls[i].tool # "read" PROVE \A p \in Targets(calls[i]) : Excused(p, disk[p])'
    BY <1>2, <2>1, <2>2 DEF Excused, Seen
  <2> QED BY <1>1, <1>2, <1>3, <2>2 DEF AtWorkInv, Targets
<1>5. s \in Stages /\ s # "tracked"
  BY DEF Stages
<1> QED BY <1>1, <1>2, <1>3, <1>4, <1>5, CallStep

LEMMA FailsInv ==
  ASSUME OverwriteInv, NEW i \in 1..Len(calls), Fails(i) PROVE OverwriteInv'
<1>1. /\ disk' = disk /\ readState' = readState /\ verified' = verified /\ calls' = calls
      /\ out' = out /\ seen' = seen /\ raced' = raced /\ progress' = [progress EXCEPT ![i] = "done"]
  BY DEF Fails
<1>2. disk \in [Paths -> Hashes] /\ out \in [1..Len(calls) -> Hashes] /\ "done" \in Stages
      /\ progress'[i] = "done"
  BY <1>1 DEF OverwriteInv, Typed, Stages
<1>3. AtWorkInv(i)'
  BY <1>2 DEF AtWorkInv
<1> QED BY <1>1, <1>2, <1>3, CallStep

LEMMA ReadInv ==
  ASSUME OverwriteInv, NEW i \in 1..Len(calls), Read(i) PROVE OverwriteInv'
<1>1. /\ disk' = disk /\ readState' = readState /\ verified' = verified /\ calls' = calls
      /\ out' = [out EXCEPT ![i] = disk[calls[i].path]] /\ seen' = seen /\ raced' = raced
      /\ progress' = [progress EXCEPT ![i] = "ran"] /\ calls[i].tool = "read"
  BY DEF Read
<1>2. disk \in [Paths -> Hashes] /\ out \in [1..Len(calls) -> Hashes] /\ "ran" \in Stages
      /\ calls[i].path \in Paths
  BY CallOf, CallKinds DEF OverwriteInv, Typed, Stages
<1>3. /\ out' \in [1..Len(calls) -> Hashes] /\ out'[i] = disk[calls[i].path]
      /\ \A j \in 1..Len(calls) : j # i => out'[j] = out[j]
  BY <1>1, <1>2
<1>4. AtWorkInv(i)'
  <2>1. progress'[i] = "ran" BY <1>1 DEF OverwriteInv, Typed
  <2> QED BY <1>1, <1>3, <2>1 DEF AtWorkInv
<1> QED BY <1>1, <1>2, <1>3, <1>4, CallStep

LEMMA FindInv ==
  ASSUME OverwriteInv, NEW i \in 1..Len(calls), FindString(i) PROVE OverwriteInv'
<1>1. PICK s \in {"edit", "ran", "done"} : progress' = [progress EXCEPT ![i] = s]
  BY DEF FindString
<1>2. /\ disk' = disk /\ readState' = readState /\ verified' = verified /\ calls' = calls
      /\ out' = out /\ seen' = seen /\ raced' = raced /\ progress[i] = "go" /\ calls[i].tool = "edit"
  BY DEF FindString
<1>3. disk \in [Paths -> Hashes] /\ out \in [1..Len(calls) -> Hashes] /\ s \in Stages /\ s # "tracked"
  BY DEF OverwriteInv, Typed, Stages
<1>4. AtWorkInv(i)'
  <2>1. \A p \in Targets(calls[i]) : Excused(p, disk[p])
    BY <1>2 DEF OverwriteInv, WorkInv, AtWorkInv
  <2>2. \A p \in Targets(calls[i]) : Excused(p, disk[p])'
    BY <1>2, <2>1 DEF Excused, Seen
  <2> QED BY <1>2, <2>2 DEF AtWorkInv, Targets
<1> QED BY <1>1, <1>2, <1>3, <1>4, CallStep

\* The text of an edit is known once it is written.
LEMMA EditInv ==
  ASSUME OverwriteInv, NEW i \in 1..Len(calls), WriteEdited(i) PROVE OverwriteInv'
<1> DEFINE c == calls[i]
<1>1. /\ disk' = [disk EXCEPT ![c.path] = c.text] /\ readState' = readState /\ verified' = verified
      /\ calls' = calls /\ out' = out /\ seen' = seen \cup ({c.text} \X Lines) /\ raced' = raced
      /\ progress' = [progress EXCEPT ![i] = "ran"] /\ progress[i] = "edit"
  BY DEF WriteEdited
<1>2. disk \in [Paths -> Hashes] /\ out \in [1..Len(calls) -> Hashes] /\ "ran" \in Stages /\ c \in Call
  BY DEF OverwriteInv, Typed, Stages
<1>3. c.tool = "edit"
  BY <1>1 DEF OverwriteInv, WorkInv, AtWorkInv
<1>4. PICK path \in Paths, text \in Hashes : path = c.path /\ text = c.text /\ Targets(c) = {path}
  BY <1>2, <1>3, CallKinds DEF Targets, Hashes
<1>5. Seen(text)'
  <2>1. <<text, 1>> \in seen' BY <1>1, <1>4, FirstLine
  <2> QED BY <2>1, FirstLine DEF Seen
<1>6. disk' = [disk EXCEPT ![path] = text]
  BY <1>1, <1>4
<1>7. disk' \in [Paths -> Hashes] /\ \A p \in Paths : disk'[p] = IF p = path THEN text ELSE disk[p]
  BY <1>2, <1>4, <1>6
<1>8. \A p \in Paths : disk'[p] = disk[p] \/ Excused(p, disk[p])'
  BY <1>5, <1>7 DEF Excused, Seen
<1>9. AtWorkInv(i)'
  <2>1. Excused(path, disk[path])' BY <1>4, <1>5, <1>7 DEF Excused, Seen
  <2>2. progress'[i] = "ran" BY <1>1 DEF OverwriteInv, Typed
  <2> QED BY <1>1, <1>3, <1>4, <2>1, <2>2 DEF AtWorkInv, Targets
<1> QED BY <1>1, <1>2, <1>7, <1>8, <1>9, CallStep

\* A write leaves what the model knows, a delete nothing, a move both.
LEMMA MutateInv ==
  ASSUME OverwriteInv, NEW i \in 1..Len(calls), Mutate(i) PROVE OverwriteInv'
<1> DEFINE c == calls[i]
<1>1. /\ disk' = Mutated(c) /\ readState' = readState /\ verified' = verified /\ calls' = calls
      /\ out' = out /\ raced \subseteq raced' /\ progress' = [progress EXCEPT ![i] = "ran"]
      /\ seen' = (IF c.tool = "move" THEN seen \cup ({c.text} \X Lines) ELSE seen)
      /\ progress[i] = "go" /\ c.tool \notin {"read", "edit"}
  BY DEF Mutate
<1>2. /\ disk \in [Paths -> Hashes] /\ out \in [1..Len(calls) -> Hashes] /\ "ran" \in Stages /\ c \in Call
      /\ NoFile \in Hashes
  BY DEF OverwriteInv, Typed, Stages, Hashes
<1>3. c.tool \in {"write", "delete", "move"} /\ c.path \in Paths
  BY <1>1, <1>2, CallKinds
<1>4. seen \subseteq seen'
  BY <1>1
<1>5. /\ disk' \in [Paths -> Hashes]
      /\ \A p \in Paths : IF p \in Targets(c) THEN Excused(p, disk[p])' ELSE disk'[p] = disk[p]
  <2>1. CASE c.tool = "write"
    <3>1. PICK path \in Paths, text \in Hashes : path = c.path /\ text = c.text /\ Targets(c) = {path}
      BY <1>2, <2>1, CallKinds DEF Targets, Hashes
    <3>2. disk' = [disk EXCEPT ![path] = text] BY <1>1, <2>1, <3>1 DEF Mutated
    <3>3. Seen(text) BY <2>1, <3>1 DEF OverwriteInv, TextInv
    <3>4. Seen(text)' BY <1>4, <3>3 DEF Seen
    <3>5. disk' \in [Paths -> Hashes] /\ \A p \in Paths : disk'[p] = IF p = path THEN text ELSE disk[p]
      BY <1>2, <3>2
    <3> QED BY <3>1, <3>4, <3>5 DEF Excused, Seen
  <2>2. CASE c.tool = "delete"
    <3>1. PICK path \in Paths : path = c.path /\ Targets(c) = {path}
      BY <1>3, <2>2 DEF Targets
    <3>2. disk' = [disk EXCEPT ![path] = NoFile] BY <1>1, <2>2, <3>1 DEF Mutated
    <3>3. disk' \in [Paths -> Hashes] /\ \A p \in Paths : disk'[p] = IF p = path THEN NoFile ELSE disk[p]
      BY <1>2, <3>2
    <3> QED BY <3>1, <3>3 DEF Excused
  <2>3. CASE c.tool = "move"
    <3>1. PICK path \in Paths, to \in Paths, text \in Hashes :
            path = c.path /\ to = c.to /\ to # path /\ text = c.text /\ Targets(c) = {path, to}
      BY <1>2, <2>3, CallKinds DEF Targets, Hashes
    <3>2. disk' = [disk EXCEPT ![to] = text, ![path] = NoFile] BY <1>1, <2>3, <3>1 DEF Mutated
    <3>3. <<text, 1>> \in seen' BY <1>1, <2>3, <3>1, FirstLine
    <3>4. Seen(text)' BY <3>3, FirstLine DEF Seen
    <3>5. /\ disk' \in [Paths -> Hashes]
          /\ \A p \in Paths : disk'[p] = IF p = path THEN NoFile ELSE IF p = to THEN text ELSE disk[p]
      BY <1>2, <3>1, <3>2
    <3> QED BY <3>1, <3>4, <3>5 DEF Excused, Seen
  <2> QED BY <1>3, <2>1, <2>2, <2>3
<1>6. \A p \in Paths : disk'[p] = disk[p] \/ Excused(p, disk[p])'
  BY <1>5
<1>7. AtWorkInv(i)'
  <2>1. progress'[i] = "ran" BY <1>1 DEF OverwriteInv, Typed
  <2>2. Targets(c) \subseteq Paths BY CallOf DEF OverwriteInv
  <2>3. \A p \in Targets(c) : Excused(p, disk[p])' BY <1>5, <2>2
  <2> QED BY <1>1, <2>1, <2>3 DEF AtWorkInv, Targets
<1> QED BY <1>1, <1>2, <1>4, <1>5, <1>6, <1>7, CallStep

\* What the hook records of a call is what was read, or what the call may have left.
LEMMA PostInv ==
  ASSUME OverwriteInv, NEW i \in 1..Len(calls), PostToolUse(i) PROVE OverwriteInv'
<1> DEFINE c == calls[i]
           o == Snapshot(i)
<1>1. /\ disk' = disk /\ readState' = readState /\ verified' = verified /\ calls' = calls
      /\ out' = [out EXCEPT ![i] = o] /\ raced' = raced /\ progress' = [progress EXCEPT ![i] = "tracked"]
      /\ seen' = seen \cup Shown(i) /\ progress[i] = "ran"
  BY DEF PostToolUse
<1>2. /\ disk \in [Paths -> Hashes] /\ out \in [1..Len(calls) -> Hashes] /\ "tracked" \in Stages
      /\ c \in Call /\ c.path \in Paths /\ Place(c) \in Paths /\ AtWorkInv(i)
  BY CallOf, CallKinds DEF OverwriteInv, Typed, Stages, WorkInv
<1>3. o = IF c.tool = "read" /\ ~Multimodal THEN out[i] ELSE disk[Place(c)]
  BY DEF Snapshot, Place
<1>4. PICK place \in Paths, hash \in Hashes : place = Place(c) /\ hash = o
  BY <1>2, <1>3
<1>5. Excused(place, hash)'
  <2>1. CASE c.tool = "read"
    <3>1. PICK first \in Lines, last \in Lines : first = c.first /\ last = c.last /\ first <= last
      BY <1>2, <2>1, CallKinds
    <3>2. first \in Requested(c) /\ first < first + MaxKept
      BY <3>1, FileStateAssumption DEF Requested, Lines
    <3>3. <<out[i], first>> \in Shown(i) BY <2>1, <3>1, <3>2 DEF Shown
    <3>4. PICK content \in Hashes : content = out[i] BY <1>2
    <3>5. Seen(content)' BY <1>1, <3>1, <3>3, <3>4 DEF Seen
    <3>6. place = c.path BY <1>4, <2>1 DEF Place
    <3>7. hash = content \/ Excused(place, hash)
      <4>1. disk[place] = out[i] \/ Excused(place, disk[place])
        BY <1>1, <1>2, <2>1, <3>6 DEF AtWorkInv
      <4>2. hash = IF ~Multimodal THEN content ELSE disk[place] BY <1>3, <1>4, <2>1, <3>4
      <4> QED BY <3>4, <4>1, <4>2
    <3> QED BY <1>1, <3>5, <3>7 DEF Excused, Seen
  <2>2. CASE c.tool # "read"
    <3>1. Place(c) \in Targets(c) BY CallOf DEF OverwriteInv
    <3>2. Excused(place, disk[place]) BY <1>1, <1>2, <1>4, <2>2, <3>1 DEF AtWorkInv
    <3>3. hash = disk[place] BY <1>3, <1>4, <2>2
    <3> QED BY <1>1, <3>2, <3>3 DEF Excused, Seen
  <2> QED BY <2>1, <2>2
<1>6. out' = [out EXCEPT ![i] = hash]
  BY <1>1, <1>4
<1>7. /\ out' \in [1..Len(calls) -> Hashes] /\ out'[i] = hash
      /\ \A j \in 1..Len(calls) : j # i => out'[j] = out[j]
  BY <1>2, <1>6
<1>8. Excused(Place(calls[i]), out[i])'
  BY <1>1, <1>4, <1>5, <1>7 DEF Excused, Seen, Place
<1>9. AtWorkInv(i)'
  <2>1. progress'[i] = "tracked" BY <1>1 DEF OverwriteInv, Typed
  <2> QED BY <2>1 DEF AtWorkInv
<1> QED BY <1>1, <1>2, <1>7, <1>8, <1>9, CallStep

-----------------------------------------------------------------------------
(* The other steps.                                                        *)

LEMMA SettleInv ==
  ASSUME OverwriteInv, Settle PROVE OverwriteInv'
<1>1. /\ readState' = Merged[Len(calls)].read /\ verified' = Merged[Len(calls)].verified
      /\ calls' = <<>> /\ progress' = <<>> /\ out' = <<>> /\ disk' = disk /\ seen' = seen /\ raced' = raced
  BY DEF Settle
<1>2. Len(calls) \in 0..Len(calls) /\ disk \in [Paths -> Hashes]
  BY DEF OverwriteInv, Typed
<1>3. /\ readState' \in [Paths -> ReadEntries] /\ verified' \in [Paths -> Hashes]
      /\ \A p \in Paths : Excused(p, verified'[p])
  BY <1>1, <1>2, MergedVerified
<1>4. 1..Len(calls') = {} /\ calls' \in Seq(Call)
  BY <1>1
<1>5. Typed'
  BY <1>1, <1>2, <1>3, <1>4 DEF Typed
<1>6. VerifiedInv'
  BY <1>1, <1>3 DEF VerifiedInv, Excused, Seen
<1> QED BY <1>4, <1>5, <1>6 DEF OverwriteInv, TextInv, WorkInv, TrackedInv

LEMMA CompactInv ==
  ASSUME OverwriteInv, DropEvidence PROVE OverwriteInv'
<1>1. /\ readState' = DroppedEvidence /\ verified' = Nothing
      /\ calls = <<>> /\ calls' = calls /\ progress' = progress /\ out' = out /\ disk' = disk
  BY DEF DropEvidence
<1>2. Typed'
  BY <1>1 DEF OverwriteInv, Typed, DroppedEvidence, Nothing, NoEntry, ReadEntries, Hashes
<1>3. VerifiedInv'
  BY <1>1 DEF VerifiedInv, Excused, Nothing
<1>4. 1..Len(calls') = {}
  BY <1>1
<1> QED BY <1>2, <1>3, <1>4 DEF OverwriteInv, TextInv, WorkInv, TrackedInv

\* A file that changes while a call is at work on it is raced.
LEMMA OtherInv ==
  ASSUME OverwriteInv, NEW p \in Paths, NEW content \in Hashes, OtherProgram(p, content)
  PROVE  OverwriteInv'
<1>1. /\ disk' = [disk EXCEPT ![p] = content]
      /\ raced' = (IF AtWork(p) THEN raced \cup {p} ELSE raced)
      /\ readState' = readState /\ verified' = verified /\ calls' = calls
      /\ progress' = progress /\ out' = out /\ seen' = seen
  BY DEF OtherProgram
<1>2. raced \subseteq raced' /\ disk' \in [Paths -> Hashes]
      /\ \A q \in Paths : disk'[q] = IF q = p THEN content ELSE disk[q]
  BY <1>1 DEF OverwriteInv, Typed
<1>3. Typed'
  BY <1>1, <1>2 DEF OverwriteInv, Typed
<1>4. TextInv'
  BY <1>1 DEF OverwriteInv, TextInv, Seen
<1>5. VerifiedInv'
  BY <1>1, <1>2 DEF OverwriteInv, VerifiedInv, Excused, Seen
<1>6. TrackedInv'
  BY <1>1, <1>2 DEF OverwriteInv, TrackedInv, Excused, Seen, Place
<1>7. ASSUME NEW i \in 1..Len(calls) PROVE AtWorkInv(i)'
  <2> SUFFICES ASSUME progress[i] \in {"go", "edit", "ran"} PROVE AtWorkInv(i)'
    BY <1>1 DEF AtWorkInv
  <2>1. AtWorkInv(i) /\ Targets(calls[i]) \subseteq Paths /\ calls[i].path \in Targets(calls[i])
        /\ DOMAIN calls = 1..Len(calls)
    BY CallOf DEF OverwriteInv, WorkInv
  <2>2. p \in Targets(calls[i]) => p \in raced'
    BY <1>1, <2>1 DEF AtWork
  <2>3. \A q \in Targets(calls[i]) : Excused(q, disk[q]) => Excused(q, disk[q])'
    BY <1>1, <1>2, <2>1, <2>2 DEF Excused, Seen
  <2>4. \A q \in Targets(calls[i]) : disk'[q] = disk[q] \/ Excused(q, disk[q])'
    BY <1>1, <1>2, <2>1, <2>2 DEF Excused, Seen
  <2>5. CASE calls[i].tool # "read"
    BY <1>1, <2>1, <2>3, <2>5 DEF AtWorkInv, Targets
  <2>6. CASE calls[i].tool = "read"
    BY <1>1, <2>1, <2>3, <2>4, <2>6 DEF AtWorkInv
  <2> QED BY <2>5, <2>6
<1>8. WorkInv'
  BY <1>1, <1>7 DEF WorkInv
<1> QED BY <1>3, <1>4, <1>5, <1>6, <1>8 DEF OverwriteInv

LEMMA ModelCallsInv ==
  ASSUME OverwriteInv, calls = <<>>, NEW wanted \in Batches, ModelCalls(wanted) PROVE OverwriteInv'
<1>1. /\ calls' = wanted /\ progress' = [i \in DOMAIN wanted |-> "new"] /\ out' = [i \in DOMAIN wanted |-> NoFile]
      /\ seen' = seen \cup ({wanted[i].text : i \in {j \in DOMAIN wanted : wanted[j].tool = "write"}} \X Lines)
      /\ disk' = disk /\ readState' = readState /\ verified' = verified /\ raced' = raced
  BY DEF ModelCalls
<1>2. wanted \in Seq(Call) /\ DOMAIN wanted = 1..Len(wanted)
  BY FileStateAssumption
<1>3. Typed'
  BY <1>1, <1>2 DEF OverwriteInv, Typed, Hashes
<1>4. TextInv'
  <2> SUFFICES ASSUME NEW i \in 1..Len(wanted), wanted[i].tool = "write" PROVE Seen(wanted[i].text)'
    BY <1>1 DEF TextInv
  <2>1. <<wanted[i].text, 1>> \in seen' BY <1>1, <1>2, FirstLine
  <2> QED BY <2>1, FirstLine DEF Seen
<1>5. VerifiedInv'
  BY <1>1 DEF OverwriteInv, VerifiedInv, Excused, Seen
<1>6. \A i \in 1..Len(calls') : progress'[i] = "new"
  BY <1>1, <1>2
<1> QED BY <1>3, <1>4, <1>5, <1>6 DEF OverwriteInv, WorkInv, AtWorkInv, TrackedInv

LEMMA OverwriteStep == OverwriteInv /\ [FileStateNext]_fileVars => OverwriteInv'
<1> SUFFICES ASSUME OverwriteInv, [FileStateNext]_fileVars PROVE OverwriteInv'
  OBVIOUS
<1>1. DOMAIN calls = 1..Len(calls)
  BY DEF OverwriteInv, Typed
<1>2. CASE FileStateNext
  BY <1>1, <1>2, ModelCallsInv, PreInv, FailsInv, PostInv, ReadInv, MutateInv, FindInv, EditInv,
     SettleInv, CompactInv, OtherInv DEF FileStateNext
<1>3. CASE UNCHANGED fileVars
  BY <1>3 DEF fileVars, OverwriteInv, Typed, TextInv, VerifiedInv, WorkInv, AtWorkInv, TrackedInv,
     Excused, Seen, Targets, Place
<1> QED BY <1>2, <1>3

\* A call other than Mutate and WriteEdited leaves the files alone.
LEMMA OverwriteSeen ==
  ASSUME OverwriteInv, [FileStateNext]_fileVars, progress' # progress, NEW p \in Paths, disk[p] # NoFile, disk'[p] # disk[p]
  PROVE  p \in raced \/ \E l \in Lines : <<disk[p], l>> \in seen
<1>1. DOMAIN calls = 1..Len(calls) /\ disk \in [Paths -> Hashes] /\ disk' # disk
  BY DEF OverwriteInv, Typed
<1>2. PICK i \in 1..Len(calls) : Mutate(i) \/ WriteEdited(i)
  BY <1>1 DEF FileStateNext, fileVars, ModelCalls, PreToolUse, Fails, PostToolUse, Read, FindString, Settle, DropEvidence,
     OtherProgram
<1>3. AtWorkInv(i) /\ calls[i].tool # "read" /\ progress[i] \in {"go", "edit"}
  BY <1>2 DEF OverwriteInv, WorkInv, AtWorkInv, Mutate, WriteEdited
<1>4. p \in Targets(calls[i])
  <2>1. CASE WriteEdited(i)
    BY <1>1, <2>1 DEF WriteEdited, Targets
  <2>2. CASE Mutate(i)
    <3>1. /\ calls[i].tool \notin {"read", "edit"} /\ disk' = Mutated(calls[i])
          /\ calls[i].tool \in {"read", "write", "edit", "delete", "move"}
      BY <2>2, CallOf, CallKinds DEF Mutate, OverwriteInv
    <3> QED BY <1>1, <3>1 DEF Mutated, Targets
  <2> QED BY <1>2, <2>1, <2>2
<1>5. Excused(p, disk[p])
  BY <1>3, <1>4 DEF AtWorkInv
<1> QED BY <1>5 DEF Excused, Seen

\* Whatever is called in parallel and changed by others, no call replaces, moves or deletes
\* a content the model has not seen, unless the file changed under the call
\* (createReadBeforeWriteHook with createFileStateTrackingHook).
THEOREM OverwritesSeen == FileStateSpec => NoBlindOverwrite
<1>1. OverwriteInv /\ [FileStateNext]_fileVars =>
        [\A p \in Paths :
           progress' # progress /\ disk[p] # NoFile /\ disk'[p] # disk[p]
             => p \in raced \/ \E l \in Lines : <<disk[p], l>> \in seen]_fileVars
  BY OverwriteSeen
<1> QED BY <1>1, InitOverwrite, OverwriteStep, PTL DEF FileStateSpec, NoBlindOverwrite

-----------------------------------------------------------------------------
(* The lines that were shown.                                              *)

ToldInv == OverwriteInv /\ ShownInv /\ Told(readState)

LEMMA InitTold == FileStateInit => ToldInv
<1> SUFFICES ASSUME FileStateInit PROVE ToldInv
  OBVIOUS
<1>1. 1..Len(calls) = {}
  BY DEF FileStateInit
<1>2. \A p \in Paths : readState[p].hash = NoFile
  BY DEF FileStateInit, NoEntry
<1> QED BY <1>1, <1>2, InitOverwrite DEF ToldInv, ShownInv, Told

\* A call that is not yet tracked, with the context at most growing.
LEMMA ToldCallStep ==
  ASSUME ToldInv, NEW i \in 1..Len(calls), NEW s \in Stages \ {"tracked"},
         calls' = calls, readState' = readState, progress' = [progress EXCEPT ![i] = s], seen \subseteq seen',
         \A j \in 1..Len(calls) : j # i => out'[j] = out[j]
  PROVE  ShownInv' /\ Told(readState)'
<1>1. Told(readState)'
  BY DEF ToldInv, Told
<1>2. progress'[i] = s /\ \A j \in 1..Len(calls) : j # i => progress'[j] = progress[j]
  BY DEF ToldInv, OverwriteInv, Typed
<1>3. ASSUME NEW j \in 1..Len(calls), progress'[j] = "tracked", calls[j].tool = "read"
      PROVE  {out'[j]} \X Requested(calls[j]) \subseteq seen'
  <2>1. j # i /\ progress[j] = "tracked" /\ out'[j] = out[j] BY <1>2, <1>3
  <2>2. {out[j]} \X Requested(calls[j]) \subseteq seen BY <1>3, <2>1 DEF ToldInv, ShownInv
  <2> QED BY <2>1, <2>2
<1>4. ShownInv'
  BY <1>3 DEF ShownInv, Requested
<1> QED BY <1>1, <1>4

\* With every line shown, a tracked read has shown what it asked for.
LEMMA ToldPost ==
  ASSUME ShowsAll, ToldInv, NEW i \in 1..Len(calls), PostToolUse(i)
  PROVE  ShownInv' /\ Told(readState)'
<1> DEFINE c == calls[i]
<1>1. /\ calls' = calls /\ readState' = readState /\ progress' = [progress EXCEPT ![i] = "tracked"]
      /\ out' = [out EXCEPT ![i] = Snapshot(i)] /\ seen' = seen \cup Shown(i)
  BY DEF PostToolUse
<1>2. Told(readState)'
  BY <1>1 DEF ToldInv, Told
<1>3. /\ out'[i] = Snapshot(i) /\ c \in Call
      /\ \A j \in 1..Len(calls) : j # i => out'[j] = out[j] /\ progress'[j] = progress[j]
  BY <1>1 DEF ToldInv, OverwriteInv, Typed
<1>4. c.tool = "read" => {out'[i]} \X Requested(c) \subseteq seen'
  <2> SUFFICES ASSUME c.tool = "read" PROVE {out'[i]} \X Requested(c) \subseteq seen'
    OBVIOUS
  <2>1. PICK first \in Lines, last \in Lines : first = c.first /\ last = c.last /\ first <= last
    BY <1>3, CallKinds
  <2>2. \A l \in Requested(c) : l < c.first + MaxKept
    BY <2>1, FileStateAssumption DEF Requested, Lines, ShowsAll
  <2>3. out'[i] = out[i] BY <1>3 DEF Snapshot, ShowsAll
  <2>4. {out[i]} \X Requested(c) \subseteq Shown(i) BY <2>2 DEF Shown
  <2> QED BY <1>1, <2>3, <2>4
<1>5. ASSUME NEW j \in 1..Len(calls), progress'[j] = "tracked", calls[j].tool = "read"
      PROVE  {out'[j]} \X Requested(calls[j]) \subseteq seen'
  <2>1. CASE j = i BY <1>4, <1>5, <2>1
  <2>2. CASE j # i
    <3>1. {out[j]} \X Requested(calls[j]) \subseteq seen BY <1>3, <1>5, <2>2 DEF ToldInv, ShownInv
    <3> QED BY <1>1, <1>3, <2>2, <3>1
  <2> QED BY <2>1, <2>2
<1>6. ShownInv'
  BY <1>1, <1>5 DEF ShownInv, Requested
<1> QED BY <1>2, <1>6

LEMMA ToldStep ==
  ASSUME ShowsAll, ToldInv, [FileStateNext]_fileVars PROVE ToldInv'
<1>1. OverwriteInv' /\ DOMAIN calls = 1..Len(calls) /\ Typed
  BY OverwriteStep DEF ToldInv, OverwriteInv, Typed
<1>2. ASSUME NEW i \in 1..Len(calls),
              \/ PreToolUse(i) \/ Fails(i) \/ Read(i)
              \/ FindString(i) \/ WriteEdited(i) \/ Mutate(i)
      PROVE  ShownInv' /\ Told(readState)'
  <2>1. \E s \in Stages \ {"tracked"} : progress' = [progress EXCEPT ![i] = s]
    <3>1. CASE PreToolUse(i) BY <3>1 DEF PreToolUse, Stages
    <3>2. CASE Fails(i) BY <3>2 DEF Fails, Stages
    <3>3. CASE Read(i) BY <3>3 DEF Read, Stages
    <3>4. CASE FindString(i) BY <3>4 DEF FindString, Stages
    <3>5. CASE WriteEdited(i) BY <3>5 DEF WriteEdited, Stages
    <3>6. CASE Mutate(i) BY <3>6 DEF Mutate, Stages
    <3> QED BY <1>2, <3>1, <3>2, <3>3, <3>4, <3>5, <3>6
  <2>2. calls' = calls /\ readState' = readState /\ seen \subseteq seen'
    BY <1>2 DEF PreToolUse, Fails, Read, FindString, WriteEdited, Mutate
  <2>3. \A j \in 1..Len(calls) : j # i => out'[j] = out[j]
    BY <1>1, <1>2 DEF PreToolUse, Fails, Read, FindString, WriteEdited, Mutate, Typed
  <2> QED BY <2>1, <2>2, <2>3, ToldCallStep
<1>3. CASE Settle
  <2>1. Len(calls) \in 0..Len(calls) BY <1>1 DEF Typed
  <2>2. Told(Merged[Len(calls)].read) BY <2>1, MergedTold DEF ToldInv
  <2>3. readState' = Merged[Len(calls)].read /\ seen' = seen /\ calls' = <<>> BY <1>3 DEF Settle
  <2>4. Told(readState)' BY <2>2, <2>3 DEF Told
  <2>5. 1..Len(calls') = {} BY <2>3
  <2> QED BY <1>1, <2>4, <2>5 DEF ToldInv, ShownInv
<1>4. CASE DropEvidence
  <2>1. readState' = DroppedEvidence /\ calls' = <<>> BY <1>4 DEF DropEvidence
  <2>2. 1..Len(calls') = {} BY <2>1
  <2> QED BY <1>1, <2>1, <2>2 DEF ToldInv, ShownInv, Told, DroppedEvidence, NoEntry
<1>5. ASSUME NEW p \in Paths, NEW content \in Hashes, OtherProgram(p, content) PROVE ToldInv'
  BY <1>1, <1>5 DEF OtherProgram, ToldInv, ShownInv, Told, Requested
<1>6. ASSUME NEW wanted \in Batches, calls = <<>>, ModelCalls(wanted) PROVE ToldInv'
  <2>1. readState' = readState /\ seen \subseteq seen' /\ calls' = wanted
        /\ progress' = [i \in DOMAIN wanted |-> "new"]
    BY <1>6 DEF ModelCalls
  <2>2. \A i \in 1..Len(calls') : progress'[i] = "new" BY <2>1, FileStateAssumption
  <2>3. Told(readState)' BY <2>1 DEF ToldInv, Told
  <2> QED BY <1>1, <2>2, <2>3 DEF ToldInv, ShownInv
<1>7. CASE UNCHANGED fileVars
  BY <1>1, <1>7 DEF fileVars, ToldInv, ShownInv, Told, Requested
<1>8. ASSUME NEW i \in 1..Len(calls), PostToolUse(i) PROVE ToldInv'
  BY <1>1, <1>8, ToldPost DEF ToldInv
<1>9. ASSUME NEW i \in 1..Len(calls),
              \/ PreToolUse(i) \/ Fails(i) \/ Read(i)
              \/ FindString(i) \/ WriteEdited(i) \/ Mutate(i)
      PROVE  ToldInv'
  BY <1>1, <1>2, <1>9 DEF ToldInv
<1> QED BY <1>1, <1>3, <1>4, <1>5, <1>6, <1>7, <1>8, <1>9 DEF FileStateNext

\* A refused read asked for lines the model was told of.
LEMMA RefusalTold ==
  ASSUME ToldInv, [FileStateNext]_fileVars, NEW i \in DOMAIN calls,
         progress[i] = "new", progress' # <<>>, progress'[i] = "done", calls[i].tool = "read"
  PROVE  {disk[calls[i].path]} \X Requested(calls[i]) \subseteq seen
<1>1. DOMAIN calls = 1..Len(calls) /\ Typed /\ calls # <<>>
  BY DEF ToldInv, OverwriteInv, Typed
<1>2. PreToolUse(i)
  <2>1. PICK j \in DOMAIN calls :
          \/ PreToolUse(j) \/ Fails(j) \/ PostToolUse(j)
          \/ Read(j) \/ Mutate(j) \/ FindString(j) \/ WriteEdited(j)
    BY <1>1 DEF FileStateNext, fileVars, Settle, DropEvidence, OtherProgram
  <2>2. \E s : progress' = [progress EXCEPT ![j] = s]
    BY <2>1 DEF PreToolUse, Fails, PostToolUse, Read, Mutate, FindString, WriteEdited
  <2>3. j = i
    BY <1>1, <2>2 DEF Typed
  <2> QED BY <2>1, <2>3 DEF Fails, PostToolUse, Read, Mutate, FindString, WriteEdited
<1>3. Wasted(calls[i])
  BY <1>1, <1>2 DEF PreToolUse, Typed
<1>4. calls[i].path \in Paths
  BY <1>1, CallOf
<1> QED BY <1>3, <1>4 DEF Wasted, ToldInv, Told

\* Where a read shows all the lines it was asked for and the hook hashes the text that was
\* read, a read is refused as wasted only when the lines it asks for, of the file as it is
\* now, are in the context (createWastedReadHook with createFileStateTrackingHook and
\* createFileStateCompactionHook).
THEOREM RefusesTruly == ShowsAll => (FileStateSpec => WastedReadTruthful)
<1> SUFFICES ASSUME ShowsAll PROVE FileStateSpec => WastedReadTruthful
  OBVIOUS
<1>1. ToldInv /\ [FileStateNext]_fileVars => ToldInv'
  BY ToldStep
<1>2. ToldInv /\ [FileStateNext]_fileVars =>
        [\A i \in DOMAIN calls :
           progress[i] = "new" /\ progress' # <<>> /\ progress'[i] = "done" /\ calls[i].tool = "read"
             => {disk[calls[i].path]} \X Requested(calls[i]) \subseteq seen]_fileVars
  BY RefusalTold
<1> QED BY <1>1, <1>2, InitTold, PTL DEF FileStateSpec, WastedReadTruthful
=============================================================================
