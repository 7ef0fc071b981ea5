---------------------------- MODULE StopConditions ----------------------------
(***************************************************************************)
(* The stop conditions of agentlayer-core over the steps of one run: the   *)
(* loop adds a step when the model has answered, asks the conditions of    *)
(* the first timing, runs the calls, and asks those of the second unless   *)
(* the run ends before.                                                    *)
(***************************************************************************)
EXTENDS Naturals, Sequences, FiniteSets, SequencesExt

CONSTANTS
  Stops,    \* what stopWhen may be: sequences of conditions
  CallLists, \* what a step may call: sequences of [tool, input]
  MaxLength,
  Nothing   \* no tool is named, no condition has fired

\* Thresholds are positive; a condition that a run starts with is one of those below.
StopNames == {"maxSteps", "toolCalled", "toolCompleted", "totalToolFailures", "consecutiveToolFailures", "doomLoop"}
Listed(lists) == UNION {ToSet(list) : list \in lists}
ASSUME StopAssumption ==
  /\ Stops \subseteq Seq(Listed(Stops)) /\ CallLists \subseteq Seq(Listed(CallLists))
  /\ \A def \in Listed(Stops) : def # Nothing /\ def.name \in StopNames /\ def.n \in Nat \ {0}

VARIABLES
  stopWhen, steps,
  stage,  \* model, executing, stopped
  fired   \* the condition that stopped the run

stopVars == <<stopWhen, steps, stage, fired>>

\* A step holds its calls and the results pushed for them, each under the place of its call
\* and how many times the call has been pushed: no condition reads their order.
Condition(name, n, tool) == [name |-> name, n |-> n, tool |-> tool]
timing(def) == IF def.name = "toolCalled" THEN "beforeExecution" ELSE "afterExecution"

-----------------------------------------------------------------------------

maxSteps(def, so) == Len(so) >= def.n
toolCalled(def, so) == so # <<>> /\ \E c \in ToSet(Last(so).toolCalls) : c.tool = def.tool
toolCompleted(def, so) ==
  so # <<>> /\ LET ran == Last(so).toolResults IN \E i \in DOMAIN ran : ran[i].tool = def.tool /\ ~ran[i].isError

Relevant(def, step) == {i \in DOMAIN step.toolResults : def.tool \in {Nothing, step.toolResults[i].tool}}
Failures(def, step) == {i \in Relevant(def, step) : step.toolResults[i].isError}

totalToolFailures(def, so) ==
  LET count[k \in 0..Len(so)] == IF k = 0 THEN 0 ELSE count[k - 1] + Cardinality(Failures(def, so[k]))
  IN count[Len(so)] >= def.n

\* Mutant: a step with one failure goes on with the streak.
SomeFailed(def, step) == Failures(def, step) # {}
AllFailed(def, step) == Failures(def, step) = Relevant(def, step)
consecutiveToolFailures(def, so) ==
  LET streak[k \in 0..Len(so)] ==
        IF k = 0 THEN 0
        ELSE IF Relevant(def, so[k]) = {} THEN streak[k - 1]
        ELSE IF AllFailed(def, so[k]) THEN streak[k - 1] + Cardinality(Relevant(def, so[k])) ELSE 0
  IN \E k \in DOMAIN so : Relevant(def, so[k]) # {} /\ streak[k] >= def.n

doomLoop(def, so) ==
  LET recent == SubSeq(so, Len(so) - def.n + 1, Len(so))
  IN /\ Len(so) >= def.n
     /\ \A k \in DOMAIN recent : Len(recent[k].toolCalls) = 1 /\ recent[k].toolCalls = recent[1].toolCalls

check(def, so) ==
  CASE def.name = "maxSteps" -> maxSteps(def, so)
    [] def.name = "toolCalled" -> toolCalled(def, so)
    [] def.name = "toolCompleted" -> toolCompleted(def, so)
    [] def.name = "totalToolFailures" -> totalToolFailures(def, so)
    [] def.name = "consecutiveToolFailures" -> consecutiveToolFailures(def, so)
    [] def.name = "doomLoop" -> doomLoop(def, so)

\* The first of them that fires.
shouldStop(defs, so, when) ==
  LET hits == {i \in DOMAIN defs : timing(defs[i]) = when /\ check(defs[i], so)}
  IN IF hits = {} THEN Nothing ELSE defs[CHOOSE i \in hits : \A j \in hits : i =< j]

-----------------------------------------------------------------------------

StopInit == stopWhen \in Stops /\ steps = <<>> /\ stage = "model" /\ fired = Nothing

checkStopConditions(when, next) ==
  /\ fired' = shouldStop(stopWhen, steps', when)
  /\ stage' = IF fired' = Nothing THEN next ELSE "stopped"
  /\ UNCHANGED stopWhen

\* A reasoning-only answer has no calls and is a step all the same.
Generate ==
  /\ stage = "model" /\ Len(steps) < MaxLength
  /\ \E answer \in CallLists : steps' = Append(steps, [toolCalls |-> answer, toolResults |-> <<>>])
  /\ checkStopConditions("beforeExecution", "executing")

\* What becomes of a call: the tool, or a hook in its place, succeeds or fails; a hook or the
\* user denies it; or hooks keep an approved call from running, which leaves it no result.
Fates == {"succeeded", "failed", "denied", "unrun"}

\* The calls whose approval was asked and answered in flight are pushed when they are
\* decided, the others when the asks are found and again when the step settles.
Pushed(asked, fate, live) ==
  ((DOMAIN asked \ live) \X (IF live = {} THEN {1} ELSE {1, 2}))
    \cup ({i \in live : fate[i] # "unrun"} \X {1})

\* A denial is a result, and no error.
Execute ==
  /\ stage = "executing"
  /\ LET asked == Last(steps).toolCalls
     IN \E fate \in [DOMAIN asked -> Fates], live \in SUBSET DOMAIN asked :
          /\ \A i \in DOMAIN asked \ live : fate[i] # "unrun"
          /\ steps' = [steps EXCEPT ![Len(steps)].toolResults =
                         [r \in Pushed(asked, fate, live) |->
                            [tool |-> asked[r[1]].tool, output |-> fate[r[1]], isError |-> fate[r[1]] = "failed"]]]
  /\ checkStopConditions("afterExecution", "model")

\* A complete answer, the stop of a hook or tool, an approval left open, an abort, an error
\* or maxSteps ends the run: no condition is asked.
Leave ==
  /\ stage # "stopped" /\ stage' = "stopped"
  /\ UNCHANGED <<stopWhen, steps, fired>>

StopNext == Generate \/ Execute \/ Leave
StopSpec == StopInit /\ [][StopNext]_stopVars

-----------------------------------------------------------------------------

\* The calls of a step that failed, however often their result was pushed, and those of the
\* steps after one and up to another.
FailedCalls(def, step) == {r[1] : r \in Failures(def, step)}
FailuresIn(def, so, from, to) == UNION {{k} \X FailedCalls(def, so[k]) : k \in (from + 1)..to}
PushedAgain(def, so) == \E k \in DOMAIN so : \E r \in Failures(def, so[k]) : r[2] = 2
\* The last of the first steps that had a success.
LastGood(def, so, to) ==
  LET good == {k \in 1..to : \E i \in Relevant(def, so[k]) : ~so[k].toolResults[i].isError}
  IN IF good = {} THEN 0 ELSE CHOOSE k \in good : \A j \in good : j =< k

\* What a condition says of a run that should go on: the calls that failed in all steps, or
\* in the steps since the last that had a result without error, are fewer than the
\* threshold, no call was made a threshold of times in a row, no tool that is waited for
\* was called or has a result without error.
GoesOn(def, so) ==
  CASE def.name = "maxSteps" -> Len(so) < def.n
    [] def.name = "toolCalled" -> \A k \in DOMAIN so : \A c \in ToSet(so[k].toolCalls) : c.tool # def.tool
    [] def.name = "toolCompleted" ->
         \A k \in DOMAIN so : \A i \in DOMAIN so[k].toolResults :
           so[k].toolResults[i].tool = def.tool => so[k].toolResults[i].isError
    [] def.name = "totalToolFailures" -> Cardinality(FailuresIn(def, so, 0, Len(so))) < def.n
    [] def.name = "consecutiveToolFailures" ->
         Cardinality(FailuresIn(def, so, LastGood(def, so, Len(so)), Len(so))) < def.n
    [] def.name = "doomLoop" ->
         ~\E from \in 0..(Len(so) - def.n) : \E call \in Listed(CallLists) :
            \A k \in 1..def.n : so[from + k].toolCalls = <<call>>

\* While a run goes on no condition of its own says that it should not, and the one
\* that stopped it does, unless it counts failures and a failure was pushed again after
\* approvals in flight (Agent.executeLoop, shouldStop and the conditions).
StopsWhenDue ==
  /\ stage = "model" => \A def \in ToSet(stopWhen) : GoesOn(def, steps)
  /\ fired # Nothing =>
       \/ ~GoesOn(fired, steps)
       \/ fired.name \in {"totalToolFailures", "consecutiveToolFailures"} /\ PushedAgain(fired, steps)

\* As its description says, the condition on total failures stops a run only when as many
\* calls have failed as its threshold (totalToolFailures).
FailuresCountOnce == fired # Nothing /\ fired.name = "totalToolFailures" => ~GoesOn(fired, steps)
===============================================================================
