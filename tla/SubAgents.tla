----------------------------- MODULE SubAgents -----------------------------
(***************************************************************************)
(* The states of sub-agents across the runs of their parent: the subagent  *)
(* tool in its two variants (createSubagentsTool and the forking one), the *)
(* maps AgentState.subAgents (paused children) and terminalChildren, the   *)
(* subAgent entries by which a later run of the parent resumes a paused    *)
(* child, and withApprovals reaching into the tree.                        *)
(*                                                                         *)
(* A call of the tool either starts a child, whose agent id is then the id *)
(* of the call, or addresses an earlier child by agent_id.  A run of a     *)
(* child is AgentLoop's business; here it is what it does to the child's   *)
(* state between reading it (Start) and handing it back (ChildEnds).       *)
(***************************************************************************)
EXTENDS Naturals, Sequences, FiniteSetsExt, SequencesExt

CONSTANTS
  MaxCalls,  \* bound: calls of the tool
  MaxAsks,   \* bound: approvals all children ask for
  Tools,     \* variants of the tool: "specialists", "forking"
  MaxFails   \* bound: runs of the parent that throw

ASSUME SubAgentsAssumption ==
  /\ MaxCalls \in Nat /\ MaxAsks \in Nat /\ MaxFails \in Nat
  /\ Tools \subseteq {"specialists", "forking"}

Calls == 1..MaxCalls
Asks == 1..MaxAsks

VARIABLES
  tool,      \* the variant in use
  issued,    \* calls emitted so far: 1..issued
  target,    \* agent id the call is about; its own number starts a child
  batch,     \* calls of the parent's last assistant message
  answered,  \* calls with a result
  entries,   \* subAgent entries of the parent's pendingToolCalls
  paused,    \* AgentState.subAgents
  terminal,  \* AgentState.terminalChildren: state and completedTurns
  \* the parent's run in progress
  phase, todo, plain,
  stage,     \* progress of each call of the tool
  local,     \* its childState, then the state in its result
  prior,     \* completedTurns of its priorTerminalRecord
  \* history
  asked,     \* approvals asked for so far: 1..asked
  asker,     \* the call of the tool in which each was asked for
  approved,  \* those approved
  ran,       \* executions of the call an approval is about
  turns,     \* runs of each child that completed its prompt
  crossed,   \* agents addressed by two calls of one step
  failures,  \* runs of the parent that threw
  unrecorded \* runs of children that ended without a terminal outcome

storeVars == <<issued, target, batch, answered, entries, paused, terminal>>
runVars == <<phase, todo, plain, stage, local, prior>>
histVars == <<asked, asker, approved, ran, turns, crossed, failures, unrecorded>>
vars == <<tool, storeVars, runVars, histVars>>

\* A child's state: the prompts in its messages, the dangling call an approval was asked
\* for (0: none) and whether its entry is still pending.
Child == [heard : Seq(Calls), ask : 0..MaxAsks, pending : BOOLEAN]
Absent == [heard |-> <<>>, ask |-> 0, pending |-> FALSE]
Fresh(c) == [Absent EXCEPT !.heard = <<c>>]
Prompted(s, c) == [s EXCEPT !.heard = Append(@, c)]
Unresolved == batch \ answered
IsNext(c) == c \in todo /\ \A d \in todo : c <= d
Agent(c) == target[c]

Init ==
  /\ tool \in Tools
  /\ issued = 0 /\ target = [c \in Calls |-> 0] /\ batch = {} /\ answered = {} /\ entries = {}
  /\ paused = [a \in Calls |-> Absent]
  /\ terminal = [a \in Calls |-> [state |-> Absent, completedTurns |-> 0]]
  /\ phase = "idle" /\ todo = {} /\ plain = FALSE
  /\ stage = [c \in Calls |-> "none"] /\ local = [c \in Calls |-> Absent] /\ prior = [c \in Calls |-> 0]
  /\ asked = 0 /\ asker = [k \in Asks |-> 0] /\ approved = {} /\ ran = [k \in Asks |-> 0] /\ turns = [a \in Calls |-> 0]
  /\ crossed = {} /\ failures = 0 /\ unrecorded = 0

Finish(pendingEntries) ==
  /\ entries' = pendingEntries
  /\ phase' = "idle" /\ todo' = {} /\ plain' = FALSE
  /\ stage' = [c \in Calls |-> "none"] /\ local' = [c \in Calls |-> Absent] /\ prior' = [c \in Calls |-> 0]

-----------------------------------------------------------------------------
(* The parent's run.                                                       *)

\* Dangling calls are taken up one by one; without any entry they are merely executed.
StartRun ==
  /\ phase = "idle"
  /\ \/ Unresolved = {} /\ phase' = "model" /\ UNCHANGED <<todo, plain>>
     \/ Unresolved # {} /\ phase' = "preamble" /\ todo' = Unresolved /\ plain' = (entries = {})
  /\ UNCHANGED <<tool, storeVars, stage, local, prior, histVars>>

\* The model calls the tool for new children, and for earlier ones by their agent_id.
ModelCallsTool(k) ==
  /\ phase = "model" /\ issued + k <= MaxCalls
  /\ issued' = issued + k /\ batch' = (issued + 1)..(issued + k)
  /\ \E t \in [batch' -> 1..issued'] :
       /\ \A c \in batch' : t[c] = c \/ (t[c] <= issued /\ target[t[c]] = t[c])
       /\ target' = [c \in Calls |-> IF c \in batch' THEN t[c] ELSE target[c]]
       /\ crossed' = crossed \cup {a \in Calls : \E c, d \in batch' : c # d /\ t[c] = a /\ t[d] = a}
  /\ phase' = "tools"
  /\ UNCHANGED <<tool, answered, entries, paused, terminal, todo, plain, stage, local, prior, asked, asker, approved, ran, turns, failures, unrecorded>>

ModelAnswers ==
  /\ phase = "model"
  /\ batch' = {}
  /\ Finish({})
  /\ UNCHANGED <<tool, issued, target, answered, paused, terminal, histVars>>

\* The run throws while no child of it runs.
ParentFails ==
  /\ failures < MaxFails /\ phase # "idle" /\ \A c \in Calls : stage[c] # "running"
  /\ failures' = failures + 1
  /\ Finish({})
  /\ UNCHANGED <<tool, issued, target, batch, answered, paused, terminal, asked, asker, approved, ran, turns, crossed, unrecorded>>

-----------------------------------------------------------------------------
(* The tool: which state the child runs from, its run, what is kept of it. *)

InHand(c) == IF phase = "preamble" THEN IsNext(c) ELSE phase = "tools" /\ c \in batch
NewChild(c) == Agent(c) = c
Resumable(c) == terminal[Agent(c)].state # Absent

\* Mutant: only the call that started a child looks for its paused state.
FromOwnPaused(c) == paused[Agent(c)] # Absent /\ NewChild(c)
\* A paused child goes on where it was, unless a forking tool resumes it by agent_id.
FromPaused(c) == paused[Agent(c)] # Absent /\ (NewChild(c) \/ tool = "specialists")
Continued(c) == Prompted(terminal[Agent(c)].state, c)
PriorTurns(c) == terminal[Agent(c)].completedTurns

Start(c) ==
  /\ InHand(c) /\ stage[c] = "none"
  /\ \/ /\ FromPaused(c)
        /\ local' = [local EXCEPT ![c] = paused[Agent(c)]]
        /\ stage' = [stage EXCEPT ![c] = "running"]
        /\ UNCHANGED prior
     \/ /\ ~FromPaused(c) /\ NewChild(c)
        /\ local' = [local EXCEPT ![c] = Fresh(c)]
        /\ stage' = [stage EXCEPT ![c] = "running"]
        /\ UNCHANGED prior
     \/ /\ ~FromPaused(c) /\ ~NewChild(c) /\ Resumable(c)
        /\ local' = [local EXCEPT ![c] = Continued(c)]
        /\ prior' = [prior EXCEPT ![c] = PriorTurns(c)]
        /\ stage' = [stage EXCEPT ![c] = "running"]
     \/ /\ ~FromPaused(c) /\ ~NewChild(c) /\ ~Resumable(c)   \* "No terminal subagent found"
        /\ stage' = [stage EXCEPT ![c] = "done"]
        /\ UNCHANGED <<local, prior>>
  /\ UNCHANGED <<tool, storeVars, phase, todo, plain, histVars>>

\* The child's preamble: a pending call ends its run at once.
ChildStillPending(c) ==
  /\ stage[c] = "running" /\ local[c].pending
  /\ stage' = [stage EXCEPT ![c] = "paused"]
  /\ UNCHANGED <<tool, storeVars, phase, todo, plain, local, prior, histVars>>

\* The child's preamble: a call whose entry is gone is executed.
ChildExecutes(c) ==
  /\ stage[c] = "running" /\ local[c].ask # 0 /\ ~local[c].pending
  /\ ran' = [ran EXCEPT ![local[c].ask] = @ + 1]
  /\ local' = [local EXCEPT ![c].ask = 0]
  /\ UNCHANGED <<tool, storeVars, phase, todo, plain, stage, prior, asked, asker, approved, turns, crossed, failures, unrecorded>>

ChildAsks(c) ==
  /\ stage[c] = "running" /\ local[c].ask = 0 /\ asked < MaxAsks
  /\ asked' = asked + 1 /\ asker' = [asker EXCEPT ![asked'] = c]
  /\ local' = [local EXCEPT ![c].ask = asked', ![c].pending = TRUE]
  /\ stage' = [stage EXCEPT ![c] = "paused"]
  /\ UNCHANGED <<tool, storeVars, phase, todo, plain, prior, approved, ran, turns, crossed, failures, unrecorded>>

\* A terminal outcome is recorded under the agent id; other finish reasons (maxSteps, a
\* stop condition) leave no record.  A run may fail before it executed a dangling call.
ChildEnds(c) ==
  /\ stage[c] = "running"
  /\ \E outcome \in {"complete", "error", "interrupted", "other"} :
       /\ outcome # "error" => local[c].ask = 0
       /\ ~local[c].pending
       /\ unrecorded' = IF outcome = "other" THEN unrecorded + 1 ELSE unrecorded
       /\ LET done == IF outcome = "complete" THEN 1 ELSE 0
          IN  /\ turns' = [turns EXCEPT ![Agent(c)] = @ + done]
              /\ terminal' = IF outcome = "other" THEN terminal
                             ELSE [terminal EXCEPT ![Agent(c)] =
                                    [state |-> local[c], completedTurns |-> prior[c] + done]]
  /\ stage' = [stage EXCEPT ![c] = "done"]
  /\ UNCHANGED <<tool, issued, target, batch, answered, entries, paused, phase, todo, plain, local, prior, asked, asker, approved, ran, crossed, failures>>

-----------------------------------------------------------------------------
(* What the parent makes of the outcome.                                   *)

Paused == {c \in batch : stage[c] = "paused"}
\* subAgents[agentId] = childState, in the order of the outcomes.
Stored(S) ==
  [a \in Calls |-> LET of == {c \in S : Agent(c) = a}
                   IN  IF of = {} THEN paused[a] ELSE local[Max(of)]]

Settled == batch \ Paused

ToolsSettle ==
  /\ phase = "tools" /\ \A c \in batch : stage[c] \in {"paused", "done"}
  /\ paused' = Stored(Paused)
  /\ answered' = answered \cup Settled
  /\ \/ Paused # {} /\ Finish(Paused)
     \/ /\ Paused = {}
        /\ phase' = "model"
        /\ stage' = [c \in Calls |-> "none"] /\ local' = [c \in Calls |-> Absent] /\ prior' = [c \in Calls |-> 0]
        /\ UNCHANGED <<entries, todo, plain>>
  /\ UNCHANGED <<tool, issued, target, batch, terminal, histVars>>

KeepsEntry(c) == stage[c] = "paused" /\ ~plain

\* The preamble is done with the call.  On the plain path a pause is taken for a result.
PreambleVisits(c) ==
  /\ phase = "preamble" /\ InHand(c) /\ stage[c] \in {"paused", "done"}
  /\ paused' = IF plain THEN paused
               ELSE [paused EXCEPT ![Agent(c)] = IF stage[c] = "paused" THEN local[c] ELSE Absent]
  /\ \/ KeepsEntry(c) /\ UNCHANGED <<answered, entries>>
     \/ ~KeepsEntry(c) /\ answered' = answered \cup {c} /\ entries' = entries \ {c}
  /\ todo' = todo \ {c}
  /\ stage' = [stage EXCEPT ![c] = "none"]
  /\ local' = [local EXCEPT ![c] = Absent] /\ prior' = [prior EXCEPT ![c] = 0]
  /\ UNCHANGED <<tool, issued, target, batch, terminal, phase, plain, histVars>>

PreambleEnds ==
  /\ phase = "preamble" /\ todo = {}
  /\ \/ entries # {} /\ Finish(entries)
     \/ entries = {} /\ phase' = "model" /\ UNCHANGED <<entries, todo, plain, stage, local, prior>>
  /\ UNCHANGED <<tool, issued, target, batch, answered, paused, terminal, histVars>>

-----------------------------------------------------------------------------
(* The caller, between runs.                                               *)

\* Mutants: withApprovals does not descend; a denial leaves no result.
DecidedNowhere(s, k, ok) == s
DecidedUnanswered(s, k, ok) == IF s.ask = k THEN [s EXCEPT !.pending = FALSE] ELSE s
DecidedIn(s, k, ok) ==
  IF s.ask = k /\ s.pending THEN [s EXCEPT !.pending = FALSE, !.ask = IF ok THEN k ELSE 0] ELSE s
ListedIn(s) == IF s.pending THEN {s.ask} ELSE {}
\* getAllPendingApprovals.
Listed == UNION {ListedIn(paused[a]) \cup ListedIn(terminal[a].state) : a \in Calls}

\* withApprovals: a denial leaves its result in the child's messages.
Decide(k, ok) ==
  /\ phase = "idle" /\ k \in Listed
  /\ paused' = [a \in Calls |-> DecidedIn(paused[a], k, ok)]
  /\ terminal' = [a \in Calls |-> [terminal[a] EXCEPT !.state = DecidedIn(@, k, ok)]]
  /\ approved' = IF ok THEN approved \cup {k} ELSE approved
  /\ UNCHANGED <<tool, issued, target, batch, answered, entries, runVars, asked, asker, ran, turns, crossed, failures, unrecorded>>

-----------------------------------------------------------------------------

ParentStep ==
  \/ \E k \in 1..MaxCalls : ModelCallsTool(k)
  \/ ModelAnswers
  \/ ToolsSettle
  \/ \E c \in Calls : PreambleVisits(c)
  \/ PreambleEnds

ChildStep(c) ==
  Start(c) \/ ChildStillPending(c) \/ ChildExecutes(c) \/ ChildAsks(c) \/ ChildEnds(c)

CallerDecides == \E k \in Asks, ok \in BOOLEAN : Decide(k, ok)

Next ==
  \/ StartRun
  \/ ParentStep
  \/ \E c \in Calls : ChildStep(c)
  \/ ParentFails
  \/ CallerDecides

Spec == Init /\ [][Next]_vars

\* Promises settle, and the caller decides what it is asked and resumes.
FairSpec ==
  /\ Spec
  /\ WF_vars(ParentStep) /\ \A c \in Calls : WF_vars(ChildStep(c))
  /\ SF_vars(StartRun /\ Listed = {}) /\ SF_vars(CallerDecides)

-----------------------------------------------------------------------------

\* States in which the dangling call of approval k is held.
Held(k) ==
  \E a \in Calls : k \in {paused[a].ask, terminal[a].state.ask}
                       \cup (IF stage[a] # "none" THEN {local[a].ask} ELSE {})

\* An approval that was granted is carried out or still held in a state that a later run
\* reads, unless the forking tool had resumed the child by its agent_id.
ApprovalNotLost ==
  \A k \in approved : tool = "specialists" \/ NewChild(asker[k]) => ran[k] > 0 \/ Held(k)

\* An approval that was granted is carried out or still held in a state that a later run
\* reads, for every child: also one the forking tool had resumed by its agent_id.
ResumedPauseContinues == \A k \in approved : ran[k] > 0 \/ Held(k)

\* The call an approval is about runs only when granted.
OnlyGrantedRuns == \A k \in Asks : ran[k] > 0 => k \in approved

\* A call that waited for an approval runs only when it was granted, and, in a
\* conversation none of whose runs failed, once plus once for every run of a child that
\* left no record.
GrantedRunsOnce ==
  /\ OnlyGrantedRuns
  /\ \A k \in Asks : tool = "specialists" /\ crossed = {} /\ failures = 0 => ran[k] <= 1 + unrecorded

\* Every call of the tool is answered in the end, if the caller decides what it is asked
\* and resumes.
CallsAnswered == \A c \in Calls : c \in batch ~> c \in answered
=============================================================================
