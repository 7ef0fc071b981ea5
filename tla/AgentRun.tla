------------------------------ MODULE AgentRun ------------------------------
(***************************************************************************)
(* The handles of one tree of runs: the event buffer and async iterator of *)
(* AgentRun, the forwarding of a child's events into its parent's stream   *)
(* (awaitSubAgent), and approvals answered while their run waits one       *)
(* macrotask for them (resolveApproval, delegated through activeChildren). *)
(*                                                                         *)
(* The tree runs on one JavaScript thread.  A step is what runs between    *)
(* two awaits; continuations of promises that have settled are microtasks, *)
(* and timers, answers of models and of people come only once no microtask *)
(* is left.                                                                *)
(***************************************************************************)
EXTENDS Naturals, Sequences, FiniteSets, SequencesExt

CONSTANTS
  Runs,      \* the root run and the runs of its sub-agents, at any depth
  Root,
  Parent,    \* the run whose tool call starts the run; the root is its own
  Calls,     \* tool calls an approval hook may ask about
  Owner,     \* the run whose model emits the call
  MaxSteps,  \* bound: model calls of one run
  Throws     \* a hook beside a sub-agent call may throw

\* The run and the runs above it.
Closed(S) == \A r \in S : Parent[r] \in S
Line == [r \in Runs |-> {a \in Runs : \A S \in SUBSET Runs : r \in S /\ Closed(S) => a \in S}]

\* The runs are a tree: from each of them the way up ends at the root.
ASSUME AgentRunAssumption ==
  /\ Root \in Runs /\ Parent \in [Runs -> Runs] /\ Parent[Root] = Root
  /\ \A r \in Runs : Root \in Line[r]
  /\ IsFiniteSet(Calls) /\ Owner \in [Calls -> Runs]
  /\ MaxSteps \in Nat /\ Throws \in BOOLEAN

VARIABLES
  loop,      \* where each run's executeLoop is
  steps,     \* model calls it has made
  outcome,   \* finishReason, as far as a parent tells them apart
  events,    \* AgentRun.events
  iter,      \* the run's one iterator: the consumer, or the parent's forwarding loop
  pos,       \* its index
  awaiting,  \* progress of awaitSubAgent for the run; activeChildren holds it meanwhile
  resolvers, \* pendingResolvers of all runs
  asked,     \* calls asked about so far
  thrown,    \* history: runs whose step was rejected beside running sub-agents
  prompt     \* the consumer iterates from the start and answers, if ever, at once

vars == <<loop, steps, outcome, events, iter, pos, awaiting, resolvers, asked, thrown, prompt>>

None == "none"
Children(r) == {c \in Runs \ {Root} : Parent[c] = r}
Up(r) == Line[r] \ {Root}
Owned(r) == {c \in Calls : Owner[c] = r}
Message(r) == [of |-> r, ask |-> None]
AskEvents(r, A) == [i \in DOMAIN SetToSeq(A) |-> [of |-> r, ask |-> SetToSeq(A)[i]]]

\* iteratorResolve is set, and an event or the end of the run calls it.
\* Mutant: the end of a run does not wake its iterator.
Asleep(r) == iter[r]
Woken(r) == IF iter[r] = "waiting" THEN "ready" ELSE iter[r]

Active(r) == awaiting[r] \in {"result", "forward"}
\* Mutant: a sub-agent's tool call ends with its result, whatever was forwarded by then.
ForwardingAnyway(r) == awaiting[r] = "forward"
ForwardingOver(r) == awaiting[r] = "forward" /\ iter[r] = "ended"
\* Some continuation is queued: no timer fires and nothing else happens before it.
MicrotaskPending ==
  \E r \in Runs : \/ iter[r] = "ready"
                  \/ awaiting[r] = "result" /\ loop[r] = "done"
                  \/ ForwardingOver(r)
\* Mutant: the loop yields a microtask where it should yield a macrotask.
AnyTime == TRUE
Quiet == ~MicrotaskPending

Init ==
  /\ prompt \in BOOLEAN
  /\ loop = [r \in Runs |-> IF r = Root THEN "model" ELSE "new"]
  /\ steps = [r \in Runs |-> 0] /\ outcome = [r \in Runs |-> None]
  /\ events = [r \in Runs |-> <<>>] /\ pos = [r \in Runs |-> 0]
  /\ iter = [r \in Runs |-> IF r = Root /\ prompt THEN "ready" ELSE "off"]
  /\ awaiting = [r \in Runs |-> None]
  /\ resolvers = {} /\ asked = {} /\ thrown = {}

\* finish clears the resolvers of the run.
Cleared(r) == resolvers \ Owned(r)

\* The loop pushes the events of s and finishes, in one step.
PushAndFinish(r, s, why) ==
  /\ events' = [events EXCEPT ![r] = @ \o s]
  /\ iter' = [iter EXCEPT ![r] = Woken(r)]
  /\ loop' = [loop EXCEPT ![r] = "done"] /\ outcome' = [outcome EXCEPT ![r] = why]
  /\ resolvers' = Cleared(r)

\* The loop pushes the events of s and goes on.
PushAndGo(r, s, next) ==
  /\ events' = [events EXCEPT ![r] = @ \o s]
  /\ iter' = [iter EXCEPT ![r] = IF s = <<>> THEN @ ELSE Woken(r)]
  /\ loop' = [loop EXCEPT ![r] = next]
  /\ UNCHANGED outcome

-----------------------------------------------------------------------------
(* The loops.                                                              *)

\* The model answers: a final text, or tool calls that may start sub-agents.
ModelAnswers(r) ==
  /\ loop[r] = "model" /\ Quiet
  /\ \/ /\ PushAndFinish(r, <<Message(r)>>, "ended")
        /\ UNCHANGED <<steps, pos, awaiting>>
     \/ /\ steps[r] < MaxSteps
        /\ steps' = [steps EXCEPT ![r] = @ + 1]
        /\ \E S \in SUBSET {c \in Children(r) : loop[c] = "new"} :
             /\ events' = [events EXCEPT ![r] = Append(@, Message(r))]
             /\ loop' = [c \in Runs |-> IF c = r THEN "tools" ELSE IF c \in S THEN "model" ELSE loop[c]]
             /\ iter' = [c \in Runs |-> IF c = r THEN Woken(r) ELSE IF c \in S THEN "ready" ELSE iter[c]]
             /\ awaiting' = [c \in Runs |-> IF c \in S THEN "result" ELSE awaiting[c]]
        /\ UNCHANGED <<outcome, pos, resolvers>>
  /\ UNCHANGED <<asked, thrown, prompt>>

\* awaitSubAgent: the child's result, then the end of the forwarding, then unregistered.
ChildResult(c) ==
  /\ awaiting[c] = "result" /\ loop[c] = "done"
  /\ awaiting' = [awaiting EXCEPT ![c] = "forward"]
  /\ UNCHANGED <<loop, steps, outcome, events, iter, pos, resolvers, asked, thrown, prompt>>

ChildForwarded(c) ==
  /\ ForwardingOver(c)
  /\ awaiting' = [awaiting EXCEPT ![c] = "over"]
  /\ UNCHANGED <<loop, steps, outcome, events, iter, pos, resolvers, asked, thrown, prompt>>

ToolsSettled(r) == \A c \in Children(r) : ~Active(c)
Paused(r) == {c \in Children(r) : outcome[c] = "approvalRequired"}

\* All tool calls of the step are settled: results are pushed, or approvals asked for.
ToolsDone(r) ==
  /\ loop[r] = "tools" /\ ToolsSettled(r)
  /\ \E A \in SUBSET (Owned(r) \ asked) :
       /\ asked' = asked \cup A
       /\ \/ /\ A = {} /\ Paused(r) = {}
             /\ PushAndGo(r, <<Message(r)>>, "model")
             /\ UNCHANGED resolvers
          \/ /\ A = {} /\ Paused(r) # {}
             /\ PushAndFinish(r, <<>>, "approvalRequired")
          \/ /\ A # {}
             /\ PushAndGo(r, AskEvents(r, A), "waiting")
             /\ resolvers' = resolvers \cup A
  /\ UNCHANGED <<steps, pos, awaiting, thrown, prompt>>

\* The step is rejected while sub-agents of its other calls run on.
StepThrows(r) ==
  /\ Throws /\ loop[r] = "tools"
  /\ PushAndFinish(r, <<>>, "ended")
  /\ thrown' = thrown \cup {r}
  /\ UNCHANGED <<steps, pos, awaiting, asked, prompt>>

\* The zero timer of the wait fires.
TimerFires(r) ==
  /\ loop[r] = "waiting" /\ Quiet
  /\ \/ /\ resolvers \cap Owned(r) # {} \/ Paused(r) # {}
        /\ PushAndFinish(r, <<>>, "approvalRequired")
     \/ /\ resolvers \cap Owned(r) = {} /\ Paused(r) = {}
        /\ PushAndGo(r, <<>>, "live")
        /\ UNCHANGED resolvers
  /\ UNCHANGED <<steps, pos, awaiting, asked, thrown, prompt>>

\* The calls decided in flight have been executed or denied.
LiveDone(r) ==
  /\ loop[r] = "live"
  /\ PushAndGo(r, <<Message(r)>>, "model")
  /\ UNCHANGED <<steps, pos, awaiting, resolvers, asked, thrown, prompt>>

-----------------------------------------------------------------------------
(* The iterators.                                                          *)

HasNext(r) == pos[r] < Len(events[r])
NextEvent(r) == events[r][pos[r] + 1]

\* awaitSubAgent's loop pushes the child's next event into the parent's stream.
Forward(c) ==
  /\ c # Root /\ iter[c] = "ready" /\ HasNext(c)
  /\ pos' = [pos EXCEPT ![c] = @ + 1]
  /\ events' = [events EXCEPT ![Parent[c]] = Append(@, NextEvent(c))]
  /\ iter' = [iter EXCEPT ![Parent[c]] = Woken(Parent[c])]
  /\ UNCHANGED <<loop, steps, outcome, awaiting, resolvers, asked, thrown, prompt>>

\* The buffer is drained: the iterator ends or goes to sleep.
DrainEnds(r) ==
  /\ iter[r] = "ready" /\ ~HasNext(r)
  /\ iter' = [iter EXCEPT ![r] = IF loop[r] = "done" THEN "ended" ELSE "waiting"]
  /\ UNCHANGED <<loop, steps, outcome, events, pos, awaiting, resolvers, asked, thrown, prompt>>

\* resolveApproval finds the call's resolver through the active children.
Deliverable(c) == c \in resolvers /\ \A a \in Up(Owner[c]) : Active(a)

\* The consumer takes the next event.  It may answer an approval there and then; one that
\* is not prompt may first await something else.
Consume ==
  /\ iter[Root] = "ready" /\ HasNext(Root)
  /\ pos' = [pos EXCEPT ![Root] = @ + 1]
  /\ \/ UNCHANGED resolvers
     \/ /\ NextEvent(Root).ask # None /\ Deliverable(NextEvent(Root).ask)
        /\ resolvers' = resolvers \ {NextEvent(Root).ask}
  /\ \/ UNCHANGED iter
     \/ ~prompt /\ iter' = [iter EXCEPT ![Root] = "busy"]
  /\ UNCHANGED <<loop, steps, outcome, events, awaiting, asked, thrown, prompt>>

\* The consumer starts to iterate.
Subscribe ==
  /\ iter[Root] = "off" /\ Quiet
  /\ iter' = [iter EXCEPT ![Root] = "ready"]
  /\ UNCHANGED <<loop, steps, outcome, events, pos, awaiting, resolvers, asked, thrown, prompt>>

\* It has finished what it awaited.
ConsumerGoesOn ==
  /\ iter[Root] = "busy" /\ Quiet
  /\ iter' = [iter EXCEPT ![Root] = "ready"]
  /\ UNCHANGED <<loop, steps, outcome, events, pos, awaiting, resolvers, asked, thrown, prompt>>

\* An answer from outside the consumer's loop.
AnswerFromOutside(c) ==
  /\ ~prompt /\ Quiet /\ Deliverable(c)
  /\ resolvers' = resolvers \ {c}
  /\ UNCHANGED <<loop, steps, outcome, events, iter, pos, awaiting, asked, thrown, prompt>>

-----------------------------------------------------------------------------

Loop(r) == ModelAnswers(r) \/ ToolsDone(r) \/ StepThrows(r) \/ TimerFires(r) \/ LiveDone(r)
Iterator(r) == Forward(r) \/ DrainEnds(r)
Await(c) == ChildResult(c) \/ ChildForwarded(c)
Consumer == Consume \/ ConsumerGoesOn

\* No loop is in progress; whether the iterators end is StreamEnds' question.
Over == \A r \in Runs : loop[r] \in {"new", "done"}
Rest == Over /\ UNCHANGED vars

Next ==
  \/ \E r \in Runs : Loop(r) \/ Iterator(r) \/ Await(r)
  \/ Consumer
  \/ Subscribe
  \/ \E c \in Calls : AnswerFromOutside(c)
  \/ Rest

Spec == Init /\ [][Next]_vars

\* Queued continuations run, models and tools answer, timers fire, and the consumer keeps
\* iterating once it has begun.
FairSpec ==
  /\ Spec
  /\ \A r \in Runs : WF_vars(Loop(r)) /\ WF_vars(Iterator(r)) /\ WF_vars(Await(r))
  /\ WF_vars(Consumer)

-----------------------------------------------------------------------------

\* Where a parent's stream holds events of a child and of the child's own sub-agents, and
\* which of them an event is.
From(c) == {i \in DOMAIN events[Parent[c]] : c \in Line[events[Parent[c]][i].of]}
Place(i, I) == Cardinality({j \in I : j <= i})

\* The parent's stream holds a child's events, those of its own sub-agents among them, in
\* the child's order, and holds all of them once the tool call of the child has ended:
\* before the result of that call is pushed.  A child whose own step threw beside a running
\* sub-agent has ended its stream too early for that; where no step threw, a consumer whose
\* iteration has ended has seen every event of every run of the tree.
MergedInOrder ==
  /\ \A c \in Runs \ {Root} :
       /\ \A i \in From(c) : LET k == Place(i, From(c))
                            IN  k <= Len(events[c]) /\ events[Parent[c]][i] = events[c][k]
       /\ awaiting[c] = "over" /\ c \notin thrown => Cardinality(From(c)) = Len(events[c])
  /\ iter[Root] = "ended" /\ thrown = {} =>
       \A r \in Runs : /\ loop[r] \in {"new", "done"}
                       /\ \A i \in DOMAIN events[r] : \E j \in 1..pos[Root] : events[Root][j] = events[r][i]

\* A consumer that answers an approval the moment it sees the event is always in time,
\* however deep in the tree the call was emitted, unless a run between has thrown.
PromptAnswerInTime ==
  [][prompt /\ thrown = {} /\ pos'[Root] > pos[Root] /\ NextEvent(Root).ask # None
       => Deliverable(NextEvent(Root).ask)]_vars

\* Every run that starts finishes, and whoever iterates over it reaches the end.
StreamEnds == \A r \in Runs : iter[r] # "off" ~> loop[r] = "done" /\ iter[r] = "ended"
=============================================================================
