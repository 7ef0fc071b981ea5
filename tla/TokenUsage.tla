------------------------------ MODULE TokenUsage ------------------------------
(***************************************************************************)
(* What the runs of a tree of agents are billed. A run adds up, for each   *)
(* model, what the providers report of its prompts and what the runs of    *)
(* its sub-agents were billed, and reconciles each sum when it ends. Costs *)
(* and output tokens are linear in the counters and are left out.          *)
(***************************************************************************)
EXTENDS Integers

CONSTANTS
  Runs,
  Models,
  parentOf,   \* the run whose tool call started a run, or None
  modelOf,    \* the model a run calls
  Reports,    \* what a provider may report of one call
  MaxCalls,   \* model calls in all
  None

\* An absent figure; the length of a prompt is a natural number.
Unknown == -1
ModelTokenUsage == [input : Nat, read : Int, write : Int, noCache : Int]

ASSUME UsageAssumption ==
  /\ None \notin Runs
  /\ parentOf \in [Runs -> Runs \cup {None}] /\ \A r \in Runs : parentOf[r] # r
  /\ modelOf \in [Runs -> Models]
  /\ Reports \subseteq ModelTokenUsage

VARIABLES
  running,  \* runs that have started and not ended
  over,     \* runs that have ended
  byModel,  \* the accumulator of each run
  bill,     \* the snapshot in the result of a run
  passedOn,    \* history: the sum of the bills of the children that ended in time
  calls

usageVars == <<running, over, byModel, bill, passedOn, calls>>

-----------------------------------------------------------------------------

AtLeast0(n) == IF n < 0 THEN 0 ELSE n
AtMost(n, limit) == IF n > limit THEN limit ELSE n

\* A negative report is as good as none.
extractUsage(u) == [u EXCEPT !.noCache = IF u.noCache >= 0 THEN u.noCache ELSE Unknown]

sumOrPoison(a, b) == IF a # Unknown /\ b # Unknown THEN a + b ELSE Unknown

\* The sum of no calls: adding to it is storing what is added.
NoUsage == [input |-> 0, read |-> 0, write |-> 0, noCache |-> 0]
add(u, v) ==
  [input |-> u.input + v.input, read |-> u.read + v.read, write |-> u.write + v.write,
   noCache |-> sumOrPoison(u.noCache, v.noCache)]

\* Whether the reported categories account for the whole prompt.
Covers(u) == u.noCache # Unknown /\ u.noCache + AtLeast0(u.read) + AtLeast0(u.write) >= u.input

\* Mutant: the cached tokens are billed as reported.
AsReported(n, limit) == AtLeast0(n)
Capped(n, limit) == AtMost(AtLeast0(n), limit)

\* The figures of one model in a snapshot.
reconcile(u) ==
  LET uncached == IF Covers(u) THEN AtMost(u.noCache, u.input) ELSE Unknown
      rest == u.input - AtLeast0(uncached)
      read == Capped(u.read, rest)
  IN [input |-> u.input, read |-> read, write |-> Capped(u.write, rest - read), noCache |-> uncached]

\* What a reconciled usage is priced at as new input.
pricedUncached(u) == IF u.noCache # Unknown THEN u.noCache ELSE u.input - u.read - u.write

-----------------------------------------------------------------------------

UsageInit ==
  /\ running = {r \in Runs : parentOf[r] = None} /\ over = {}
  /\ byModel = [r \in Runs |-> [m \in Models |-> NoUsage]]
  /\ bill = byModel /\ passedOn = [r \in Runs |-> [m \in Models |-> [input |-> 0, read |-> 0, write |-> 0, priced |-> 0]]]
  /\ calls = 0

\* A tool call of the parent starts the run of a sub-agent.
Start(r) ==
  /\ r \notin running \cup over /\ parentOf[r] \in running
  /\ running' = running \cup {r}
  /\ UNCHANGED <<over, byModel, bill, passedOn, calls>>

\* A step of the loop or a summary: the usage of each call is added by itself.
CallModel(r) ==
  /\ r \in running /\ calls < MaxCalls
  /\ \E report \in Reports :
       byModel' = [byModel EXCEPT ![r][modelOf[r]] = add(@, extractUsage(report))]
  /\ calls' = calls + 1
  /\ UNCHANGED <<running, over, bill, passedOn>>

\* What a parent was passed on, with one more usage.
PassedOn(h, u) ==
  [input |-> h.input + u.input, read |-> h.read + u.read, write |-> h.write + u.write,
   priced |-> h.priced + pricedUncached(u)]

\* awaitSubAgent passes the snapshot of the child on to the accumulator of its
\* parent, whose own result may have been given away: a sibling threw.
Finish(r) ==
  LET usage == [m \in Models |-> reconcile(byModel[r][m])]
      onChildTokenUsage(p) == [m \in Models |-> add(byModel[p][m], usage[m])]
  IN /\ r \in running
     /\ running' = running \ {r} /\ over' = over \cup {r}
     /\ bill' = [bill EXCEPT ![r] = usage]
     /\ byModel' = [p \in Runs |-> IF p = parentOf[r] THEN onChildTokenUsage(p) ELSE byModel[p]]
     /\ passedOn' = [p \in Runs |->
                    IF p = parentOf[r] /\ p \in running THEN [m \in Models |-> PassedOn(passedOn[p][m], usage[m])]
                    ELSE passedOn[p]]
     /\ UNCHANGED calls

UsageNext == \E r \in Runs : Start(r) \/ CallModel(r) \/ Finish(r)

UsageSpec == UsageInit /\ [][UsageNext]_usageVars

-----------------------------------------------------------------------------

\* The prices cover every token of the prompts and no token twice, whatever the
\* providers reported.
Partition(u) ==
  /\ u.read >= 0 /\ u.write >= 0 /\ pricedUncached(u) >= 0
  /\ u.read + u.write + pricedUncached(u) = u.input

\* What a run reports of a model is priced whole and once; and of a model that
\* only its sub-agents called it reports what they reported, kind by kind,
\* however their reports were poisoned, capped and added up on the way, and
\* whatever comes in after its end (token-usage.ts, agent.ts onChildTokenUsage).
BilledOnce ==
  \A r \in over : \A m \in Models :
    /\ Partition(bill[r][m])
    /\ m # modelOf[r] =>
         LET b == bill[r][m]
         IN passedOn[r][m] = [input |-> b.input, read |-> b.read, write |-> b.write, priced |-> pricedUncached(b)]
===============================================================================
