--------------------------- MODULE SubAgentsProofs ---------------------------
(***************************************************************************)
(* Theorems about SubAgents.  No call of a sub-agent that waits for an     *)
(* approval runs without it, wherever in the tree and in however many runs *)
(* the child's state is paused, resumed by its entry or its agent id, or   *)
(* taken up once more after its end.  An approval that was granted is      *)
(* carried out or stays in a state that a later run reads, and is carried  *)
(* out once.  The invariants follow every copy of a child's state: the     *)
(* paused state of the agent that asked, the local state of the call that  *)
(* resumed it, its terminal state if that run ended in an error.           *)
(***************************************************************************)
EXTENDS SubAgents, TLAPS, WellFoundedInduction

\* A state whose dangling call was asked for, and granted unless it is pending.
Sound(s, granted, n) ==
  /\ s.ask \in 0..n
  /\ s.ask # 0 /\ ~s.pending => s.ask \in granted

ChildrenInv ==
  /\ \A a \in Calls : paused[a] \in Child /\ Sound(paused[a], approved, asked)
  /\ \A a \in Calls : "state" \in DOMAIN terminal[a]
  /\ \A a \in Calls : terminal[a].state \in Child /\ Sound(terminal[a].state, approved, asked)
  /\ \A c \in Calls : local[c] \in Child /\ Sound(local[c], approved, asked)

StoreType ==
  /\ issued \in 0..MaxCalls /\ target \in [Calls -> 0..MaxCalls] /\ batch \subseteq Calls
  /\ \A c \in batch : target[c] \in Calls
  /\ todo \subseteq batch /\ asked \in 0..MaxAsks /\ ran \in [Asks -> Nat]
  /\ DOMAIN paused = Calls /\ DOMAIN local = Calls /\ DOMAIN stage = Calls
  /\ DOMAIN terminal = Calls
  /\ \A c \in Calls : stage[c] # "none" => c \in batch
  /\ phase \in {"idle", "model"} => \A c \in Calls : stage[c] = "none"
  /\ phase # "preamble" => todo = {}
  /\ phase = "preamble" => \A c \in Calls : stage[c] # "none" => c \in todo

GrantInv == StoreType /\ ChildrenInv /\ OnlyGrantedRuns

\* A set of calls has a last one.
LEMMA LastCall == ASSUME NEW S \in SUBSET Calls, S # {} PROVE Max(S) \in S
<1> DEFINE T == {MaxCalls - c : c \in S}
<1>1. T \subseteq Nat /\ T # {}
  <2>1. \A c \in S : MaxCalls - c \in Nat
    BY SubAgentsAssumption DEF Calls
  <2> QED BY <2>1
<1>2. PICK x \in T : \A y \in T : ~(<<y, x>> \in OpToRel(<, Nat))
  BY <1>1, NatLessThanWellFounded, WFMin
<1>3. \A y \in T : ~(y < x)
  BY <1>1, <1>2 DEF OpToRel
<1>4. PICK c \in S : x = MaxCalls - c
  OBVIOUS
<1>5. \A d \in S : c >= d
  <2> TAKE d \in S
  <2>1. ~(MaxCalls - d < MaxCalls - c)
    BY <1>3, <1>4
  <2> QED BY <2>1, SubAgentsAssumption DEF Calls
<1> QED BY <1>5 DEF Max

LEMMA SoundAbsent ==
  ASSUME NEW granted, NEW n \in Nat
  PROVE  Absent \in Child /\ Sound(Absent, granted, n)
BY SubAgentsAssumption DEF Absent, Child, Sound

\* More approvals asked for or granted make no state unsound.
LEMMA StaysSound ==
  ASSUME NEW s, NEW granted, NEW more, NEW n \in Nat, NEW m \in Nat,
         granted \subseteq more, n <= m, Sound(s, granted, n)
  PROVE  Sound(s, more, m)
BY DEF Sound

LEMMA PromptedSound ==
  ASSUME NEW s \in Child, NEW c \in Calls, NEW granted, NEW n, Sound(s, granted, n)
  PROVE  Prompted(s, c) \in Child /\ Sound(Prompted(s, c), granted, n)
BY DEF Prompted, Child, Sound

LEMMA FreshSound ==
  ASSUME NEW c \in Calls, NEW granted, NEW n \in Nat
  PROVE  Fresh(c) \in Child /\ Sound(Fresh(c), granted, n)
<1>1. \A s \in Child, h \in Seq(Calls) : /\ [s EXCEPT !.heard = h] \in Child
                                         /\ [s EXCEPT !.heard = h].ask = s.ask
                                         /\ [s EXCEPT !.heard = h].pending = s.pending
  BY DEF Child
<1>2. <<c>> \in Seq(Calls)
  OBVIOUS
<1> QED BY <1>1, <1>2, SoundAbsent DEF Fresh, Sound

\* A decision lets the call run only if it grants it.
LEMMA DecidedSound ==
  ASSUME NEW s \in Child, NEW k \in Asks, NEW ok \in BOOLEAN, NEW granted, NEW n \in Nat, Sound(s, granted, n)
  PROVE  /\ DecidedIn(s, k, ok) \in Child
         /\ Sound(DecidedIn(s, k, ok), IF ok THEN granted \cup {k} ELSE granted, n)
<1>1. CASE s.ask = k /\ s.pending
  <2> DEFINE t == [s EXCEPT !.pending = FALSE, !.ask = IF ok THEN k ELSE 0]
  <2>1. t \in Child /\ t.pending = FALSE /\ t.ask = IF ok THEN k ELSE 0
    <3>1. \A a \in 0..MaxAsks : /\ [s EXCEPT !.pending = FALSE, !.ask = a] \in Child
                               /\ [s EXCEPT !.pending = FALSE, !.ask = a].pending = FALSE
                               /\ [s EXCEPT !.pending = FALSE, !.ask = a].ask = a
      BY DEF Child
    <3>2. (IF ok THEN k ELSE 0) \in 0..MaxAsks
      BY SubAgentsAssumption DEF Asks
    <3> QED BY <3>1, <3>2
  <2>2. DecidedIn(s, k, ok) = t
    BY <1>1 DEF DecidedIn
  <2> QED BY <1>1, <2>1, <2>2 DEF Sound
<1>2. CASE ~(s.ask = k /\ s.pending)
  BY <1>2 DEF DecidedIn, Sound
<1> QED BY <1>1, <1>2

-----------------------------------------------------------------------------

\* A step that leaves the states of the children, or empties some.
LEMMA StatesKept ==
  ASSUME GrantInv, UNCHANGED <<asked, approved, terminal>>,
         \A a \in Calls : paused'[a] \in {paused[a], Absent} /\ local'[a] \in {local[a], Absent}
  PROVE  ChildrenInv'
<1>1. asked \in Nat
  BY DEF GrantInv, StoreType
<1> QED BY <1>1, SoundAbsent DEF GrantInv, ChildrenInv

LEMMA RunsKept == ASSUME GrantInv, ran' = ran, approved \subseteq approved' PROVE OnlyGrantedRuns'
BY DEF GrantInv, OnlyGrantedRuns

LEMMA FinishKeeps ==
  ASSUME GrantInv, NEW e, Finish(e), UNCHANGED <<issued, target, asked, approved, ran, terminal>>,
         batch' \in {batch, {}}, \A a \in Calls : paused'[a] = paused[a], DOMAIN paused' = Calls
  PROVE  GrantInv'
<1>1. ChildrenInv'
  BY StatesKept DEF Finish
<1>2. StoreType'
  BY DEF Finish, GrantInv, StoreType
<1> QED BY <1>1, <1>2, RunsKept DEF GrantInv

LEMMA ParentKeeps ==
  ASSUME GrantInv, StartRun \/ (\E k \in 1..MaxCalls : ModelCallsTool(k)) \/ ModelAnswers \/ PreambleEnds \/ ParentFails
  PROVE  GrantInv'
<1> USE DEF histVars, storeVars
<1>1. CASE StartRun
  <2>1. ChildrenInv'
    BY <1>1, StatesKept DEF StartRun
  <2>2. StoreType'
    BY <1>1 DEF StartRun, Unresolved, GrantInv, StoreType
  <2> QED BY <1>1, <2>1, <2>2, RunsKept DEF StartRun, GrantInv
<1>2. ASSUME NEW k \in 1..MaxCalls, ModelCallsTool(k) PROVE GrantInv'
  <2>1. ChildrenInv'
    BY <1>2, StatesKept DEF ModelCallsTool
  <2>2. PICK t \in [batch' -> 1..issued'] : target' = [c \in Calls |-> IF c \in batch' THEN t[c] ELSE target[c]]
    BY <1>2 DEF ModelCallsTool
  <2>3. issued' \in 0..MaxCalls /\ batch' \subseteq Calls /\ 1..issued' \subseteq Calls
    BY <1>2, SubAgentsAssumption DEF ModelCallsTool, GrantInv, StoreType, Calls
  <2>4. target' \in [Calls -> 0..MaxCalls] /\ \A c \in batch' : target'[c] \in Calls
    BY <2>2, <2>3, SubAgentsAssumption DEF GrantInv, StoreType, Calls
  <2>5. todo = {} /\ \A c \in Calls : stage[c] = "none"
    BY <1>2 DEF ModelCallsTool, GrantInv, StoreType
  <2> QED BY <1>2, <2>1, <2>3, <2>4, <2>5, RunsKept DEF ModelCallsTool, GrantInv, StoreType
<1>3. CASE ModelAnswers
  BY <1>3, FinishKeeps DEF ModelAnswers, GrantInv, StoreType
<1>4. CASE PreambleEnds
  <2>1. CASE Finish(entries)
    BY <1>4, <2>1, FinishKeeps DEF PreambleEnds, GrantInv, StoreType
  <2>2. CASE phase' = "model" /\ UNCHANGED <<todo, stage, local>>
    <3>1. ChildrenInv'
      BY <1>4, <2>2, StatesKept DEF PreambleEnds
    <3> QED BY <1>4, <2>2, <3>1, RunsKept DEF PreambleEnds, GrantInv, StoreType
  <2> QED BY <1>4, <2>1, <2>2 DEF PreambleEnds
<1>5. CASE ParentFails
  BY <1>5, FinishKeeps DEF ParentFails, GrantInv, StoreType
<1> QED BY <1>1, <1>2, <1>3, <1>4, <1>5

-----------------------------------------------------------------------------

LEMMA InHandIsCall == ASSUME GrantInv, NEW c \in Calls, InHand(c) PROVE c \in batch /\ Agent(c) \in Calls /\ phase \notin {"idle", "model"}
BY DEF InHand, IsNext, Agent, GrantInv, StoreType

\* A step of a child changes its local state alone.
LEMMA LocalKeeps ==
  ASSUME GrantInv, NEW c \in Calls, UNCHANGED <<issued, target, batch, paused, terminal, phase, todo>>,
         DOMAIN local' = Calls, DOMAIN stage' = Calls, \A d \in Calls \ {c} : local'[d] = local[d] /\ stage'[d] = stage[d],
         stage'[c] = "none" \/ stage[c] # "none" \/ InHand(c),
         asked' \in asked..MaxAsks, approved' = approved, ran' \in [Asks -> Nat],
         local'[c] \in Child /\ Sound(local'[c], approved, asked'),
         OnlyGrantedRuns'
  PROVE  GrantInv'
<1>1. asked \in Nat /\ asked' \in Nat /\ asked <= asked' /\ asked' <= MaxAsks
  BY SubAgentsAssumption DEF GrantInv, StoreType
<1>2. ChildrenInv'
  BY <1>1, StaysSound DEF GrantInv, ChildrenInv
<1>3. stage'[c] # "none" => c \in batch /\ phase \notin {"idle", "model"} /\ (phase = "preamble" => c \in todo)
  BY InHandIsCall DEF InHand, IsNext, GrantInv, StoreType
<1>4. StoreType'
  BY <1>1, <1>3 DEF GrantInv, StoreType
<1> QED BY <1>2, <1>4 DEF GrantInv

LEMMA StartKeeps == ASSUME GrantInv, NEW c \in Calls, Start(c) PROVE GrantInv'
<1>1. c \in batch /\ Agent(c) \in Calls
  BY InHandIsCall DEF Start
<1>2. asked \in Nat /\ asked <= MaxAsks
  BY SubAgentsAssumption DEF GrantInv, StoreType
<1>3. /\ Fresh(c) \in Child /\ Sound(Fresh(c), approved, asked)
      /\ Continued(c) \in Child /\ Sound(Continued(c), approved, asked)
      /\ paused[Agent(c)] \in Child /\ Sound(paused[Agent(c)], approved, asked)
      /\ local[c] \in Child /\ Sound(local[c], approved, asked)
  BY <1>1, <1>2, FreshSound, PromptedSound DEF Continued, GrantInv, ChildrenInv
<1>4. /\ local'[c] \in {local[c], Fresh(c), Continued(c), paused[Agent(c)]}
      /\ DOMAIN local' = Calls /\ DOMAIN stage' = Calls
      /\ \A d \in Calls \ {c} : local'[d] = local[d] /\ stage'[d] = stage[d]
  BY DEF Start, GrantInv, StoreType
<1>5. OnlyGrantedRuns' /\ ran' \in [Asks -> Nat]
  BY RunsKept DEF Start, histVars, GrantInv, StoreType
<1> QED BY <1>2, <1>3, <1>4, <1>5, LocalKeeps DEF Start, storeVars, histVars

\* The call is executed with the approval it waited for.
LEMMA ExecutesKeeps == ASSUME GrantInv, NEW c \in Calls, ChildExecutes(c) PROVE GrantInv'
<1>1. local[c] \in Child /\ Sound(local[c], approved, asked) /\ asked \in 0..MaxAsks
  BY DEF GrantInv, ChildrenInv, StoreType
<1>2. local[c].ask \in approved /\ local[c].ask \in Asks
  BY <1>1, SubAgentsAssumption DEF ChildExecutes, Sound, Asks
<1>3. OnlyGrantedRuns' /\ ran' \in [Asks -> Nat]
  BY <1>2 DEF ChildExecutes, OnlyGrantedRuns, GrantInv, StoreType
<1>4. local' = [local EXCEPT ![c] = [local[c] EXCEPT !.ask = 0]]
  BY DEF ChildExecutes
<1>5. \A s \in Child, a \in 0..MaxAsks : [s EXCEPT !.ask = a] \in Child /\ [s EXCEPT !.ask = a].ask = a
  BY DEF Child
<1>6. local'[c] \in Child /\ Sound(local'[c], approved, asked)
  BY <1>1, <1>4, <1>5, SubAgentsAssumption DEF Sound, GrantInv, StoreType
<1>7. DOMAIN local' = Calls /\ \A d \in Calls \ {c} : local'[d] = local[d]
  BY <1>4 DEF GrantInv, StoreType
<1> QED BY <1>1, <1>3, <1>6, <1>7, LocalKeeps DEF ChildExecutes, storeVars, GrantInv, StoreType

Asking(s, k) == [s EXCEPT !.ask = k, !.pending = TRUE]

LEMMA AskingSound ==
  ASSUME NEW s \in Child, NEW k \in 0..MaxAsks, NEW granted
  PROVE  Asking(s, k) \in Child /\ Sound(Asking(s, k), granted, k)
<1>1. Asking(s, k) \in Child /\ Asking(s, k).ask = k /\ Asking(s, k).pending = TRUE
  BY DEF Asking, Child
<1> QED BY <1>1, SubAgentsAssumption DEF Sound

LEMMA AsksKeeps == ASSUME GrantInv, NEW c \in Calls, ChildAsks(c) PROVE GrantInv'
<1>1. local[c] \in Child /\ asked' = asked + 1 /\ asked' \in 0..MaxAsks /\ asked' \in asked..MaxAsks
  BY SubAgentsAssumption DEF ChildAsks, GrantInv, ChildrenInv, StoreType
<1>2. local' = [local EXCEPT ![c] = Asking(local[c], asked')]
  BY DEF ChildAsks, Asking
<1>3. local'[c] = Asking(local[c], asked')
  BY <1>2 DEF GrantInv, StoreType
<1>4. local'[c] \in Child /\ Sound(local'[c], approved, asked')
  BY <1>1, <1>3, AskingSound
<1>5. DOMAIN local' = Calls /\ DOMAIN stage' = Calls /\ \A d \in Calls \ {c} : local'[d] = local[d] /\ stage'[d] = stage[d]
  BY <1>2 DEF ChildAsks, GrantInv, StoreType
<1>6. OnlyGrantedRuns' /\ ran' \in [Asks -> Nat]
  BY RunsKept DEF ChildAsks, GrantInv, StoreType
<1> QED BY <1>1, <1>4, <1>5, <1>6, LocalKeeps DEF ChildAsks, storeVars

LEMMA StillPendingKeeps == ASSUME GrantInv, NEW c \in Calls, ChildStillPending(c) PROVE GrantInv'
<1>1. ChildrenInv'
  BY StatesKept DEF ChildStillPending, storeVars, histVars
<1> QED BY <1>1, RunsKept DEF ChildStillPending, storeVars, histVars, GrantInv, StoreType

LEMMA EndsKeeps == ASSUME GrantInv, NEW c \in Calls, ChildEnds(c) PROVE GrantInv'
<1>1. \/ terminal' = terminal
      \/ \E n : terminal' = [terminal EXCEPT ![Agent(c)] = [state |-> local[c], completedTurns |-> n]]
  BY DEF ChildEnds
<1>2. /\ DOMAIN terminal' = Calls
      /\ \A a \in Calls : terminal'[a].state \in {terminal[a].state, local[c]} /\ "state" \in DOMAIN terminal'[a]
  BY <1>1 DEF GrantInv, ChildrenInv, StoreType
<1>3. ChildrenInv'
  BY <1>2 DEF ChildEnds, GrantInv, ChildrenInv
<1> QED BY <1>2, <1>3, RunsKept DEF ChildEnds, GrantInv, StoreType

-----------------------------------------------------------------------------

\* What the parent stores of its children is what their runs ended with.
LEMMA StoredKept ==
  ASSUME GrantInv, NEW S \in SUBSET Calls
  PROVE  \A a \in Calls : Stored(S)[a] = paused[a] \/ \E c \in Calls : Stored(S)[a] = local[c]
<1> TAKE a \in Calls
<1> DEFINE of == {c \in S : Agent(c) = a}
<1>1. CASE of = {}
  BY <1>1 DEF Stored
<1>2. CASE of # {}
  <2>1. Max(of) \in Calls
    BY <1>2, LastCall
  <2> QED BY <1>2, <2>1 DEF Stored
<1> QED BY <1>1, <1>2

LEMMA SettleKeeps == ASSUME GrantInv, ToolsSettle PROVE GrantInv'
<1>1. /\ paused' = Stored(Paused) /\ Paused \in SUBSET Calls /\ phase' \in {"idle", "model"}
      /\ stage' = [c \in Calls |-> "none"] /\ local' = [c \in Calls |-> Absent]
      /\ UNCHANGED <<issued, target, batch, terminal, histVars>>
  BY DEF ToolsSettle, Finish, Paused, GrantInv, StoreType
<1>2. asked \in Nat /\ DOMAIN paused' = Calls
  <2>1. asked \in Nat
    BY DEF GrantInv, StoreType
  <2>2. DOMAIN Stored(Paused) = Calls
    BY DEF Stored
  <2> QED BY <1>1, <2>1, <2>2
<1>3. ChildrenInv'
  <2>1. \A a \in Calls : paused'[a] = paused[a] \/ \E c \in Calls : paused'[a] = local[c]
    BY <1>1, StoredKept
  <2> QED BY <1>1, <1>2, <2>1, SoundAbsent DEF histVars, GrantInv, ChildrenInv
<1>4. todo' = {}
  BY DEF ToolsSettle, Finish, GrantInv, StoreType
<1>6. StoreType'
  BY <1>1, <1>2, <1>4 DEF histVars, GrantInv, StoreType
<1> QED BY <1>1, <1>3, <1>6, RunsKept DEF histVars, GrantInv

LEMMA VisitKeeps == ASSUME GrantInv, NEW c \in Calls, PreambleVisits(c) PROVE GrantInv'
<1>1. /\ UNCHANGED <<issued, target, batch, terminal, phase, histVars>> /\ phase = "preamble"
      /\ todo' = todo \ {c} /\ stage' = [stage EXCEPT ![c] = "none"] /\ local' = [local EXCEPT ![c] = Absent]
  BY DEF PreambleVisits
<1>2. DOMAIN paused' = Calls /\ \A a \in Calls : paused'[a] \in {paused[a], local[c], Absent}
  BY DEF PreambleVisits, GrantInv, StoreType
<1>3. asked \in Nat
  BY DEF GrantInv, StoreType
<1>4. DOMAIN local' = Calls /\ \A a \in Calls : local'[a] \in {local[a], Absent}
  BY <1>1 DEF GrantInv, StoreType
<1>5. ChildrenInv'
  BY <1>1, <1>2, <1>3, <1>4, SoundAbsent DEF histVars, GrantInv, ChildrenInv
<1>6. StoreType'
  BY <1>1, <1>2, <1>4 DEF histVars, GrantInv, StoreType
<1> QED BY <1>1, <1>5, <1>6, RunsKept DEF histVars, GrantInv

LEMMA DecideKeeps == ASSUME GrantInv, NEW k \in Asks, NEW ok \in BOOLEAN, Decide(k, ok) PROVE GrantInv'
<1>1. /\ UNCHANGED <<issued, target, batch, phase, todo, stage, local, asked, ran>>
      /\ approved' = IF ok THEN approved \cup {k} ELSE approved
      /\ paused' = [a \in Calls |-> DecidedIn(paused[a], k, ok)]
      /\ terminal' = [a \in Calls |-> [terminal[a] EXCEPT !.state = DecidedIn(terminal[a].state, k, ok)]]
  BY DEF Decide, runVars
<1>2. asked \in Nat
  BY DEF GrantInv, StoreType
<1>3. \A a \in Calls : paused'[a] \in Child /\ Sound(paused'[a], approved', asked)
  BY <1>1, <1>2, DecidedSound DEF GrantInv, ChildrenInv
<1>4. \A a \in Calls : terminal'[a].state \in Child /\ Sound(terminal'[a].state, approved', asked)
  <2> TAKE a \in Calls
  <2>1. terminal'[a].state = DecidedIn(terminal[a].state, k, ok)
    BY <1>1 DEF GrantInv, ChildrenInv
  <2> QED BY <1>1, <1>2, <2>1, DecidedSound DEF GrantInv, ChildrenInv
<1>5. \A a \in Calls : local'[a] \in Child /\ Sound(local'[a], approved', asked)
  BY <1>1, <1>2, StaysSound DEF GrantInv, ChildrenInv
<1>6. ChildrenInv'
  BY <1>1, <1>3, <1>4, <1>5 DEF GrantInv, ChildrenInv
<1>7. StoreType'
  BY <1>1 DEF GrantInv, StoreType
<1> QED BY <1>1, <1>6, <1>7, RunsKept DEF GrantInv

-----------------------------------------------------------------------------

LEMMA InitGrant == Init => GrantInv
<1> SUFFICES ASSUME Init PROVE GrantInv
  OBVIOUS
<1>1. ChildrenInv
  BY SoundAbsent DEF Init, ChildrenInv
<1>2. StoreType
  BY SubAgentsAssumption DEF Init, StoreType
<1>3. OnlyGrantedRuns
  BY DEF Init, OnlyGrantedRuns
<1> QED BY <1>1, <1>2, <1>3 DEF GrantInv

LEMMA StepGrant == GrantInv /\ [Next]_vars => GrantInv'
<1> SUFFICES ASSUME GrantInv, [Next]_vars PROVE GrantInv'
  OBVIOUS
<1>1. CASE UNCHANGED vars
  BY <1>1 DEF vars, storeVars, runVars, histVars, GrantInv, StoreType, ChildrenInv, OnlyGrantedRuns
<1>2. CASE StartRun \/ ParentStep \/ ParentFails
  BY <1>2, ParentKeeps, SettleKeeps, VisitKeeps DEF ParentStep
<1>3. ASSUME NEW c \in Calls, ChildStep(c) PROVE GrantInv'
  BY <1>3, StartKeeps, StillPendingKeeps, ExecutesKeeps, AsksKeeps, EndsKeeps DEF ChildStep
<1>4. CASE CallerDecides
  BY <1>4, DecideKeeps DEF CallerDecides
<1> QED BY <1>1, <1>2, <1>3, <1>4 DEF Next

\* No call that waited for an approval runs without it, wherever in the tree of sub-agents
\* and in whatever later run its child is resumed, for any number of calls and approvals.
THEOREM OnlyGranted == Spec => []OnlyGrantedRuns
<1>1. GrantInv => OnlyGrantedRuns
  BY DEF GrantInv
<1> QED BY <1>1, InitGrant, StepGrant, PTL DEF Spec

-----------------------------------------------------------------------------
(* What becomes of the approvals that sub-agents ask for.                  *)

\* The agent that asked for approval k.
Home(k) == target[asker[k]]

CallsInv ==
  /\ tool \in {"specialists", "forking"} /\ phase \in {"idle", "model", "tools", "preamble"}
  /\ \A c \in Calls : stage[c] \in {"none", "running", "paused", "done"}
  /\ issued \in 0..MaxCalls /\ batch \subseteq 1..issued /\ answered \subseteq 1..issued
  /\ \A c \in 1..issued : target[c] \in 1..issued /\ target[target[c]] = target[c]
  /\ \A c \in batch : target[c] # c => target[c] \notin batch
  /\ phase = "model" => Unresolved = {}
  /\ phase = "tools" => batch \cap answered = {} /\ entries = {}
  /\ todo \subseteq Unresolved
  /\ entries \in {{}, Unresolved}
  /\ phase = "preamble" /\ ~plain => entries = Unresolved
  /\ phase = "preamble" /\ plain => entries = {} /\ todo = Unresolved
  /\ failures \in Nat /\ unrecorded \in Nat
  /\ failures = 0 => (phase = "idle" => entries = Unresolved) /\ ~plain
  /\ approved \subseteq 1..asked /\ DOMAIN asker = Asks
  /\ \A k \in 1..asked : asker[k] \in 1..issued

callVars == <<tool, issued, target, batch, answered, entries, phase, todo, plain, failures>>

\* A step that asks for nothing and leaves the calls alone.
LEMMA CallsKept ==
  ASSUME CallsInv, UNCHANGED callVars, UNCHANGED <<asked, asker, approved>>,
         unrecorded' \in Nat, \A c \in Calls : stage'[c] \in {"none", "running", "paused", "done"}
  PROVE  CallsInv'
BY DEF CallsInv, callVars, Unresolved

LEMMA AskedKept ==
  ASSUME GrantInv, CallsInv, NEW c \in Calls, ChildAsks(c)
  PROVE  CallsInv'
<1>1. c \in 1..issued /\ asked \in Nat /\ asked' = asked + 1 /\ asked' \in Asks
  BY SubAgentsAssumption DEF ChildAsks, GrantInv, StoreType, CallsInv, Asks
<1>2. DOMAIN asker' = Asks /\ asker'[asked'] = c /\ \A k \in 1..asked : asker'[k] = asker[k]
  BY <1>1, SubAgentsAssumption DEF ChildAsks, CallsInv, Asks
<1>3. \A k \in 1..asked' : k \in 1..asked \/ k = asked'
  BY <1>1
<1>4. approved' \subseteq 1..asked'
  BY <1>1 DEF ChildAsks, CallsInv
<1>5. \A k \in 1..asked' : asker'[k] \in 1..issued
  BY <1>1, <1>2, <1>3 DEF CallsInv
<1>6. \A d \in Calls : stage'[d] \in {"none", "running", "paused", "done"}
  BY DEF ChildAsks, CallsInv, GrantInv, StoreType
<1> QED BY <1>2, <1>4, <1>5, <1>6 DEF ChildAsks, CallsInv, Unresolved, storeVars

\* A new message of the parent: its calls start children or address earlier ones.
LEMMA NewCalls ==
  ASSUME GrantInv, CallsInv, NEW n \in 1..MaxCalls, ModelCallsTool(n)
  PROVE  /\ issued' = issued + n /\ issued' \in 0..MaxCalls /\ batch' = (issued + 1)..issued'
         /\ batch' \cap 1..issued = {} /\ batch' \subseteq 1..issued'
         /\ \A c \in 1..issued : target'[c] = target[c]
         /\ \A c \in batch' : target'[c] \in 1..issued' /\ target'[target'[c]] = target'[c]
         /\ \A c \in batch' : target'[c] = c \/ target'[c] \in 1..issued
         /\ \A c \in Calls : stage[c] = "none"
<1>1. issued \in Nat /\ issued' = issued + n /\ issued' <= MaxCalls /\ batch' = (issued + 1)..issued'
  BY DEF ModelCallsTool, CallsInv
<1>2. batch' \cap 1..issued = {} /\ batch' \subseteq 1..issued' /\ 1..issued' \subseteq Calls /\ 1..issued \subseteq Calls
  BY <1>1, SubAgentsAssumption DEF Calls
<1>3. PICK t \in [batch' -> 1..issued'] :
        /\ \A c \in batch' : t[c] = c \/ (t[c] <= issued /\ target[t[c]] = t[c])
        /\ target' = [c \in Calls |-> IF c \in batch' THEN t[c] ELSE target[c]]
  BY DEF ModelCallsTool
<1>4. \A c \in 1..issued : target'[c] = target[c]
  BY <1>2, <1>3
<1>5. \A c \in batch' : target'[c] = t[c] /\ t[c] \in 1..issued'
  BY <1>2, <1>3
<1>6. \A c \in batch' : t[c] = c \/ (t[c] \in 1..issued /\ target'[t[c]] = t[c])
  BY <1>1, <1>3, <1>4
<1>7. \A c \in Calls : stage[c] = "none"
  BY DEF ModelCallsTool, GrantInv, StoreType
<1> QED BY <1>1, <1>2, <1>4, <1>5, <1>6, <1>7, SubAgentsAssumption

LEMMA NewCallsKeep ==
  ASSUME GrantInv, CallsInv, NEW n \in 1..MaxCalls, ModelCallsTool(n)
  PROVE  CallsInv'
<1>1. issued \in Nat /\ Unresolved = {} /\ entries = {} /\ todo = {}
  <2>1. phase = "model"
    BY DEF ModelCallsTool
  <2>2. issued \in Nat
    BY SubAgentsAssumption DEF CallsInv
  <2>3. Unresolved = {} /\ entries = {}
    BY <2>1 DEF CallsInv
  <2>4. todo = {}
    BY <2>1 DEF GrantInv, StoreType
  <2> QED BY <2>2, <2>3, <2>4
<1>2. \A c \in 1..issued' : c \in batch' \/ c \in 1..issued
  BY <1>1, NewCalls
<1>3. 1..issued \subseteq 1..issued'
  BY <1>1, NewCalls
<1>4. \A c \in 1..issued' : target'[c] \in 1..issued' /\ target'[target'[c]] = target'[c]
  <2> TAKE c \in 1..issued'
  <2>1. CASE c \in batch'
    BY <2>1, NewCalls
  <2>2. CASE c \in 1..issued
    <3>1. target[c] \in 1..issued /\ target[target[c]] = target[c]
      BY <2>2 DEF CallsInv
    <3> QED BY <2>2, <3>1, <1>3, NewCalls
  <2> QED BY <1>2, <2>1, <2>2
<1>5. \A c \in batch' : target'[c] # c => target'[c] \notin batch'
  BY NewCalls
<1>6. answered \subseteq 1..issued /\ batch' \cap answered = {}
  BY NewCalls DEF CallsInv
<1>7. UNCHANGED <<tool, answered, entries, todo, plain, stage, asked, asker, approved, failures, unrecorded>> /\ phase' = "tools"
  BY DEF ModelCallsTool
<1>8. \A k \in 1..asked : asker[k] \in 1..issued'
  BY <1>3 DEF CallsInv
<1> QED BY <1>1, <1>3, <1>4, <1>5, <1>6, <1>7, <1>8, NewCalls DEF CallsInv, Unresolved

LEMMA ParentCalls ==
  ASSUME GrantInv, CallsInv,
         StartRun \/ ModelAnswers \/ ParentFails \/ PreambleEnds \/ ToolsSettle \/ \E c \in Calls : PreambleVisits(c)
  PROVE  CallsInv'
<1> USE DEF CallsInv, Unresolved
<1>1. CASE StartRun
  <2>1. CASE Unresolved = {} /\ phase' = "model" /\ UNCHANGED <<todo, plain>>
    BY <1>1, <2>1 DEF StartRun, storeVars, histVars
  <2>2. CASE Unresolved # {} /\ phase' = "preamble" /\ todo' = Unresolved /\ plain' = (entries = {})
    <3>1. CASE entries = {}
      <4>1. plain' /\ failures # 0
        BY <1>1, <2>2, <3>1 DEF StartRun
      <4> QED BY <1>1, <2>2, <3>1, <4>1 DEF StartRun, storeVars, histVars
    <3>2. CASE entries # {}
      <4>1. ~plain' /\ entries = Unresolved
        BY <2>2, <3>2
      <4> QED BY <1>1, <2>2, <4>1 DEF StartRun, storeVars, histVars
    <3> QED BY <3>1, <3>2
  <2> QED BY <1>1, <2>1, <2>2 DEF StartRun
<1>2. CASE ModelAnswers
  BY <1>2 DEF ModelAnswers, Finish, histVars
<1>3. CASE ParentFails
  BY <1>3 DEF ParentFails, Finish
<1>4. CASE PreambleEnds
  <2>1. Unresolved = entries
    BY <1>4 DEF PreambleEnds
  <2> QED BY <1>4, <2>1 DEF PreambleEnds, Finish, histVars
<1>5. CASE ToolsSettle
  <2>1. Paused \subseteq batch /\ answered' \subseteq 1..issued /\ batch \ answered' = Paused
    BY <1>5 DEF ToolsSettle, Paused, Settled
  <2>2. todo = {}
    BY <1>5 DEF ToolsSettle, GrantInv, StoreType
  <2>3. UNCHANGED <<tool, issued, target, batch, histVars>>
    BY <1>5 DEF ToolsSettle
  <2>4. CASE Finish(Paused)
    BY <2>1, <2>3, <2>4 DEF Finish, histVars
  <2>5. CASE Paused = {} /\ phase' = "model" /\ stage' = [c \in Calls |-> "none"] /\ UNCHANGED <<entries, todo, plain>>
    BY <1>5, <2>1, <2>2, <2>3, <2>5 DEF ToolsSettle, histVars
  <2> QED BY <1>5, <2>4, <2>5 DEF ToolsSettle
<1>6. ASSUME NEW c \in Calls, PreambleVisits(c) PROVE CallsInv'
  <2>1. /\ c \in Unresolved /\ phase = "preamble" /\ todo' = todo \ {c} /\ UNCHANGED <<issued, target, batch, phase, plain>>
        /\ \/ KeepsEntry(c) /\ UNCHANGED <<answered, entries>>
           \/ answered' = answered \cup {c} /\ entries' = entries \ {c}
    BY <1>6 DEF PreambleVisits, InHand, IsNext
  <2>2. c \notin todo' /\ todo' \subseteq Unresolved' /\ answered' \subseteq 1..issued
    BY <2>1
  <2>3. CASE plain
    <3>1. entries' = {} /\ todo' = Unresolved'
      BY <2>1, <2>3 DEF KeepsEntry
    <3> QED BY <1>6, <2>1, <2>2, <2>3, <3>1 DEF PreambleVisits, histVars, GrantInv, StoreType
  <2>4. CASE ~plain
    <3>1. entries' = Unresolved'
      BY <2>1, <2>4
    <3> QED BY <1>6, <2>1, <2>2, <2>4, <3>1 DEF PreambleVisits, histVars, GrantInv, StoreType
  <2> QED BY <2>3, <2>4
<1> QED BY <1>1, <1>2, <1>3, <1>4, <1>5, <1>6

LEMMA InitCalls == Init => CallsInv
BY SubAgentsAssumption DEF Init, CallsInv, Unresolved

LEMMA StepCalls == ASSUME GrantInv, CallsInv, [Next]_vars PROVE CallsInv'
<1> USE DEF callVars, storeVars, histVars, runVars
<1>1. CASE UNCHANGED vars
  BY <1>1, CallsKept DEF vars, CallsInv
<1>2. CASE StartRun \/ ParentStep \/ ParentFails
  BY <1>2, ParentCalls, NewCallsKeep DEF ParentStep
<1>3. ASSUME NEW c \in Calls, ChildStep(c) PROVE CallsInv'
  <2>1. CASE Start(c)
    BY <2>1, CallsKept DEF Start, CallsInv, GrantInv, StoreType
  <2>2. CASE ChildStillPending(c)
    BY <2>2, CallsKept DEF ChildStillPending, CallsInv, GrantInv, StoreType
  <2>3. CASE ChildExecutes(c)
    BY <2>3, CallsKept DEF ChildExecutes, CallsInv
  <2>4. CASE ChildEnds(c)
    BY <2>4, CallsKept DEF ChildEnds, CallsInv, GrantInv, StoreType
  <2> QED BY <1>3, <2>1, <2>2, <2>3, <2>4, AskedKept DEF ChildStep
<1>4. ASSUME NEW k \in Asks, NEW ok \in BOOLEAN, Decide(k, ok) PROVE CallsInv'
  <2>1. PICK a \in Calls : k \in ListedIn(paused[a]) \/ k \in ListedIn(terminal[a].state)
    BY <1>4 DEF Decide, Listed
  <2>2. k \in 1..asked
    BY <2>1, SubAgentsAssumption DEF ListedIn, GrantInv, ChildrenInv, Sound, StoreType, Asks
  <2>3. approved' \subseteq 1..asked
    BY <1>4, <2>2 DEF Decide, CallsInv
  <2> QED BY <1>4, <2>3 DEF Decide, CallsInv, Unresolved
<1> QED BY <1>1, <1>2, <1>3, <1>4 DEF Next, CallerDecides

-----------------------------------------------------------------------------
(* Whose approval a state waits for.                                       *)

\* A state of agent a: its dangling call was asked for in a run of a, and is not granted
\* while it is pending.
Owned(s, a, agents, by, granted) ==
  /\ s.ask # 0 => agents[by[s.ask]] = a
  /\ s.pending => s.ask # 0 /\ s.ask \notin granted

AsksInv ==
  /\ \A a \in Calls : Owned(paused[a], a, target, asker, approved)
  /\ \A a \in Calls : Owned(terminal[a].state, a, target, asker, approved) /\ ~terminal[a].state.pending
  /\ \A c \in Calls : Owned(local[c], target[c], target, asker, approved)
  /\ \A a \in Calls : paused[a] = Absent \/ paused[a].heard # <<>>
  /\ \A c \in Calls : stage[c] = "none" => local[c] = Absent
  /\ \A c \in Calls : stage[c] \in {"running", "paused"} => local[c].heard # <<>>
  /\ \A c \in Calls : stage[c] = "paused" => local[c].pending
  /\ \A a \in Calls : a > issued => terminal[a].state = Absent /\ paused[a] = Absent

HeldInv == GrantInv /\ CallsInv /\ AsksInv

LEMMA AbsentFields == Absent.heard = <<>> /\ Absent.ask = 0 /\ Absent.pending = FALSE
BY DEF Absent

LEMMA AbsentOwned ==
  ASSUME NEW a, NEW agents, NEW by, NEW granted
  PROVE  Owned(Absent, a, agents, by, granted)
BY AbsentFields DEF Owned

LEMMA PromptedFields ==
  ASSUME NEW s \in Child, NEW c \in Calls
  PROVE  Prompted(s, c).ask = s.ask /\ Prompted(s, c).pending = s.pending /\ Prompted(s, c).heard # <<>>
<1>1. Prompted(s, c).heard = Append(s.heard, c)
  BY DEF Prompted, Child
<1>2. s.heard \in Seq(Calls)
  BY DEF Child
<1>3. Append(s.heard, c) # <<>>
  BY <1>2
<1> QED BY <1>1, <1>3 DEF Prompted, Child

LEMMA FreshFields ==
  ASSUME NEW c \in Calls
  PROVE  Fresh(c).ask = 0 /\ Fresh(c).pending = FALSE /\ Fresh(c).heard # <<>>
<1>1. Fresh(c).heard = <<c>>
  BY DEF Fresh, Absent
<1>2. <<c>> # <<>>
  OBVIOUS
<1> QED BY <1>1, <1>2 DEF Fresh, Absent

LEMMA DecidedNow ==
  ASSUME NEW s \in Child, NEW k \in Asks, NEW ok \in BOOLEAN, s.ask = k, s.pending
  PROVE  /\ DecidedIn(s, k, ok).heard = s.heard
         /\ DecidedIn(s, k, ok).ask = IF ok THEN k ELSE 0
         /\ DecidedIn(s, k, ok).pending = FALSE
<1>1. DecidedIn(s, k, ok) = [s EXCEPT !.pending = FALSE, !.ask = IF ok THEN k ELSE 0]
  BY DEF DecidedIn
<1> QED BY <1>1 DEF Child

LEMMA DecidedElse ==
  ASSUME NEW s, NEW k, NEW ok, ~(s.ask = k /\ s.pending)
  PROVE  DecidedIn(s, k, ok) = s
BY DEF DecidedIn

LEMMA DecidedHeard ==
  ASSUME NEW s \in Child, NEW k \in Asks, NEW ok \in BOOLEAN
  PROVE  DecidedIn(s, k, ok).heard = s.heard
<1>1. CASE s.ask = k /\ s.pending
  BY <1>1, DecidedNow
<1>2. CASE ~(s.ask = k /\ s.pending)
  BY <1>2, DecidedElse
<1> QED BY <1>1, <1>2

\* What is decided is not pending: a state that is pending afterwards was not decided.
LEMMA DecidedOnce ==
  ASSUME NEW s \in Child, NEW k \in Asks, NEW ok \in BOOLEAN, DecidedIn(s, k, ok).pending
  PROVE  DecidedIn(s, k, ok) = s
<1>1. CASE s.ask = k /\ s.pending
  BY <1>1, DecidedNow
<1>2. CASE ~(s.ask = k /\ s.pending)
  BY <1>2, DecidedElse
<1> QED BY <1>1, <1>2

LEMMA DecidedOwned ==
  ASSUME NEW s \in Child, NEW k \in Asks, NEW ok \in BOOLEAN, NEW a, NEW agents, NEW by, NEW granted,
         Owned(s, a, agents, by, granted)
  PROVE  Owned(DecidedIn(s, k, ok), a, agents, by, IF ok THEN granted \cup {k} ELSE granted)
<1> DEFINE t == DecidedIn(s, k, ok)
           more == IF ok THEN granted \cup {k} ELSE granted
<1>1. CASE s.ask = k /\ s.pending
  <2>1. t.pending = FALSE /\ t.ask \in {s.ask, 0}
    BY <1>1, DecidedNow
  <2>2. Owned(t, a, agents, by, more)
    BY <2>1 DEF Owned
  <2> QED BY <2>2
<1>2. CASE ~(s.ask = k /\ s.pending)
  <2>1. t = s
    BY <1>2, DecidedElse
  <2>2. s.pending => s.ask \notin more
    <3>1. more \subseteq granted \cup {k}
      OBVIOUS
    <3> QED BY <1>2, <3>1 DEF Owned
  <2>3. Owned(s, a, agents, by, more)
    BY <2>2 DEF Owned
  <2> QED BY <2>1, <2>3, Zenon
<1> QED BY <1>1, <1>2

-----------------------------------------------------------------------------

\* A call in hand is one of the last message that has no result yet.
LEMMA InHandOpen ==
  ASSUME GrantInv, CallsInv, NEW c \in Calls, InHand(c)
  PROVE  c \in Unresolved /\ c \in 1..issued /\ Agent(c) \in 1..issued /\ Agent(c) \in Calls
<1>1. c \in Unresolved
  BY DEF InHand, IsNext, CallsInv, Unresolved
<1>2. c \in 1..issued
  BY <1>1 DEF Unresolved, CallsInv
<1> QED BY <1>1, <1>2, InHandIsCall DEF CallsInv, Agent

LEMMA ActiveOpen ==
  ASSUME GrantInv, CallsInv, NEW c \in Calls, stage[c] # "none"
  PROVE  c \in batch /\ c \in Unresolved /\ Agent(c) \in 1..issued /\ Agent(c) \in Calls /\ phase \in {"tools", "preamble"}
<1>1. c \in batch /\ phase \notin {"idle", "model"}
  BY DEF GrantInv, StoreType
<1>2. c \in Unresolved
  BY <1>1 DEF GrantInv, StoreType, CallsInv, Unresolved
<1> QED BY <1>1, <1>2 DEF CallsInv, Agent, GrantInv, StoreType

\* A step that moves the states of the children as they are.
LEMMA CopiesKept ==
  ASSUME HeldInv, UNCHANGED <<issued, target, asked, asker, approved>>,
         \A a \in Calls : \/ paused'[a] \in {paused[a], Absent}
                          \/ \E c \in Calls : target[c] = a /\ stage[c] = "paused" /\ paused'[a] = local[c],
         \A a \in Calls : \/ terminal'[a].state = terminal[a].state
                          \/ \E c \in Calls : target[c] = a /\ stage[c] = "running" /\ ~local[c].pending /\ terminal'[a].state = local[c],
         \A c \in Calls : \/ local'[c] = local[c] /\ (stage'[c] = stage[c] \/ (stage[c] = "running" /\ stage'[c] = "done"))
                          \/ local'[c] = Absent /\ stage'[c] = "none"
  PROVE  AsksInv'
<1> USE DEF HeldInv, AsksInv
<1>1. \A a \in Calls : Owned(Absent, a, target, asker, approved)
  BY AbsentOwned
<1>2. \A a \in Calls : Owned(paused'[a], a, target, asker, approved)
  <2> TAKE a \in Calls
  <2>1. CASE paused'[a] = paused[a]
    BY <2>1, Zenon
  <2>0. CASE paused'[a] = Absent
    BY <1>1, <2>0, Zenon
  <2>2. ASSUME NEW c \in Calls, target[c] = a, paused'[a] = local[c] PROVE Owned(paused'[a], a, target, asker, approved)
    BY <2>2, Zenon
  <2> QED BY <2>0, <2>1, <2>2
<1>3. \A a \in Calls : Owned(terminal'[a].state, a, target, asker, approved) /\ ~terminal'[a].state.pending
  <2> TAKE a \in Calls
  <2>1. CASE terminal'[a].state = terminal[a].state
    BY <2>1, Zenon
  <2>2. ASSUME NEW c \in Calls, target[c] = a, ~local[c].pending, terminal'[a].state = local[c]
        PROVE  Owned(terminal'[a].state, a, target, asker, approved) /\ ~terminal'[a].state.pending
    BY <2>2, Zenon
  <2> QED BY <2>1, <2>2
<1>4. \A c \in Calls : Owned(local'[c], target[c], target, asker, approved)
  <2>1. \A c \in Calls : target[c] \in 0..MaxCalls
    BY DEF GrantInv, StoreType
  <2>2. \A c \in Calls : Owned(Absent, target[c], target, asker, approved)
    BY AbsentOwned
  <2> QED BY <2>2
<1>5. \A a \in Calls : paused'[a] = Absent \/ paused'[a].heard # <<>>
  OBVIOUS
<1>6. \A a \in Calls : a > issued => terminal'[a].state = Absent /\ paused'[a] = Absent
  <2> SUFFICES ASSUME NEW a \in Calls, a > issued PROVE terminal'[a].state = Absent /\ paused'[a] = Absent
    OBVIOUS
  <2>1. \A c \in Calls : stage[c] # "none" => target[c] # a
    <3> TAKE c \in Calls
    <3> HAVE stage[c] # "none"
    <3>1. target[c] \in 1..issued
      BY ActiveOpen DEF Agent
    <3> QED BY <3>1, SubAgentsAssumption DEF CallsInv
  <2> QED BY <2>1
<1>7. \A c \in Calls : /\ stage'[c] = "none" => local'[c] = Absent
                       /\ stage'[c] \in {"running", "paused"} => local'[c].heard # <<>>
                       /\ stage'[c] = "paused" => local'[c].pending
  OBVIOUS
<1> QED BY <1>2, <1>3, <1>4, <1>5, <1>6, <1>7

LEMMA ParentCopies ==
  ASSUME HeldInv,
         \/ StartRun \/ ModelAnswers \/ ParentFails \/ PreambleEnds \/ ToolsSettle
         \/ \E c \in Calls : PreambleVisits(c) \/ ChildEnds(c)
  PROVE  AsksInv'
<1> USE DEF storeVars, histVars, Finish
<1>1. CASE StartRun
  BY <1>1, CopiesKept DEF StartRun
<1>2. CASE ModelAnswers
  BY <1>2, CopiesKept DEF ModelAnswers
<1>3. CASE ParentFails
  BY <1>3, CopiesKept DEF ParentFails
<1>4. CASE PreambleEnds
  BY <1>4, CopiesKept DEF PreambleEnds
<1>5. CASE ToolsSettle
  <2>1. UNCHANGED <<issued, target, asked, asker, approved, terminal>> /\ stage' = [c \in Calls |-> "none"] /\ local' = [c \in Calls |-> Absent]
    BY <1>5 DEF ToolsSettle
  <2>2. \A a \in Calls : paused'[a] = paused[a] \/ \E c \in Calls : target[c] = a /\ stage[c] = "paused" /\ paused'[a] = local[c]
    <3> TAKE a \in Calls
    <3> DEFINE of == {c \in Paused : Agent(c) = a}
    <3>1. paused'[a] = IF of = {} THEN paused[a] ELSE local[Max(of)]
      BY <1>5 DEF ToolsSettle, Stored
    <3>2. of \in SUBSET Calls
      BY DEF Paused, HeldInv, GrantInv, StoreType
    <3>3. of # {} => Max(of) \in of
      BY <3>2, LastCall
    <3> QED BY <3>1, <3>2, <3>3 DEF Paused, Agent
  <2> QED BY <2>1, <2>2, CopiesKept
<1>6. ASSUME NEW c \in Calls, PreambleVisits(c) PROVE AsksInv'
  <2>1. UNCHANGED <<issued, target, asked, asker, approved, terminal>> /\ stage' = [stage EXCEPT ![c] = "none"] /\ local' = [local EXCEPT ![c] = Absent]
    BY <1>6 DEF PreambleVisits
  <2>2. \A d \in Calls : (d # c /\ local'[d] = local[d] /\ stage'[d] = stage[d]) \/ (local'[d] = Absent /\ stage'[d] = "none")
    BY <2>1 DEF HeldInv, GrantInv, StoreType
  <2>3. \A a \in Calls : \/ paused'[a] \in {paused[a], Absent}
                         \/ target[c] = a /\ stage[c] = "paused" /\ paused'[a] = local[c]
    BY <1>6 DEF PreambleVisits, Agent, HeldInv, GrantInv, StoreType
  <2> QED BY <2>1, <2>2, <2>3, CopiesKept
<1>7. ASSUME NEW c \in Calls, ChildEnds(c) PROVE AsksInv'
  <2>1. /\ UNCHANGED <<issued, target, asked, asker, approved, paused, local>>
        /\ stage[c] = "running" /\ ~local[c].pending /\ stage' = [stage EXCEPT ![c] = "done"]
    BY <1>7 DEF ChildEnds
  <2>2. \/ terminal' = terminal
        \/ \E n : terminal' = [terminal EXCEPT ![Agent(c)] = [state |-> local[c], completedTurns |-> n]]
    BY <1>7 DEF ChildEnds
  <2>3. \A a \in Calls : \/ terminal'[a].state = terminal[a].state
                         \/ target[c] = a /\ terminal'[a].state = local[c]
    BY <2>2 DEF Agent, HeldInv, GrantInv, StoreType
  <2>4. \A d \in Calls : stage'[d] = stage[d] \/ (stage[d] = "running" /\ stage'[d] = "done")
    BY <2>1 DEF HeldInv, GrantInv, StoreType
  <2> QED BY <2>1, <2>3, <2>4, CopiesKept
<1> QED BY <1>1, <1>2, <1>3, <1>4, <1>5, <1>6, <1>7

\* A step of a child changes its local state alone.
LEMMA LocalCopies ==
  ASSUME HeldInv, NEW c \in Calls, UNCHANGED <<issued, target, asked, asker, approved, paused, terminal>>,
         \A d \in Calls \ {c} : local'[d] = local[d] /\ stage'[d] = stage[d],
         Owned(local'[c], target[c], target, asker, approved),
         stage'[c] # "none", stage'[c] \in {"running", "paused"} => local'[c].heard # <<>>,
         stage'[c] = "paused" => local'[c].pending
  PROVE  AsksInv'
<1>1. \A d \in Calls : Owned(local'[d], target[d], target, asker, approved)
  <2> TAKE d \in Calls
  <2>1. CASE d = c
    BY <2>1, Zenon
  <2>2. CASE d # c
    <3>1. local'[d] = local[d]
      BY <2>2
    <3>2. Owned(local[d], target[d], target, asker, approved)
      BY DEF HeldInv, AsksInv
    <3> QED BY <3>1, <3>2, Zenon
  <2> QED BY <2>1, <2>2
<1>2. \A d \in Calls : /\ stage'[d] = "none" => local'[d] = Absent
                       /\ stage'[d] \in {"running", "paused"} => local'[d].heard # <<>>
                       /\ stage'[d] = "paused" => local'[d].pending
  <2> TAKE d \in Calls
  <2>1. CASE d = c
    BY <2>1
  <2>2. CASE d # c
    BY <2>2 DEF HeldInv, AsksInv
  <2> QED BY <2>1, <2>2
<1> QED BY <1>1, <1>2 DEF HeldInv, AsksInv

LEMMA StartCopies ==
  ASSUME HeldInv, NEW c \in Calls, Start(c)
  PROVE  /\ AsksInv'
         /\ UNCHANGED <<tool, storeVars, phase, todo, plain, histVars>>
         /\ \A d \in Calls \ {c} : local'[d] = local[d] /\ stage'[d] = stage[d]
         /\ \/ FromPaused(c) /\ local'[c] = paused[Agent(c)] /\ stage'[c] = "running"
            \/ ~FromPaused(c) /\ NewChild(c) /\ local'[c] = Fresh(c) /\ stage'[c] = "running"
            \/ ~FromPaused(c) /\ ~NewChild(c) /\ Resumable(c) /\ local'[c] = Continued(c) /\ stage'[c] = "running"
            \/ ~FromPaused(c) /\ ~NewChild(c) /\ ~Resumable(c) /\ local'[c] = local[c] /\ stage'[c] = "done"
<1>1. c \in Unresolved /\ Agent(c) \in Calls /\ Agent(c) = target[c]
  BY InHandOpen DEF Start, HeldInv, Agent
<1>2. UNCHANGED <<tool, storeVars, phase, todo, plain, histVars>> /\ stage[c] = "none"
  BY DEF Start
<1>3. \A d \in Calls \ {c} : local'[d] = local[d] /\ stage'[d] = stage[d]
  BY DEF Start, HeldInv, GrantInv, StoreType
<1>4. \/ FromPaused(c) /\ local'[c] = paused[Agent(c)] /\ stage'[c] = "running"
      \/ ~FromPaused(c) /\ NewChild(c) /\ local'[c] = Fresh(c) /\ stage'[c] = "running"
      \/ ~FromPaused(c) /\ ~NewChild(c) /\ Resumable(c) /\ local'[c] = Continued(c) /\ stage'[c] = "running"
      \/ ~FromPaused(c) /\ ~NewChild(c) /\ ~Resumable(c) /\ local'[c] = local[c] /\ stage'[c] = "done"
  BY DEF Start, HeldInv, GrantInv, StoreType
<1>5. /\ Owned(paused[Agent(c)], target[c], target, asker, approved)
      /\ Owned(terminal[Agent(c)].state, target[c], target, asker, approved)
      /\ Owned(local[c], target[c], target, asker, approved)
      /\ terminal[Agent(c)].state \in Child
  BY <1>1, Zenon DEF HeldInv, GrantInv, ChildrenInv, AsksInv
<1>6. Owned(Fresh(c), target[c], target, asker, approved) /\ Fresh(c).heard # <<>>
  BY FreshFields DEF Owned
<1>7. Owned(Continued(c), target[c], target, asker, approved) /\ Continued(c).heard # <<>>
  BY <1>5, PromptedFields DEF Owned, Continued
<1>8. FromPaused(c) => paused[Agent(c)].heard # <<>>
  BY <1>1 DEF FromPaused, HeldInv, AsksInv
<1>9. Owned(local'[c], target[c], target, asker, approved)
  BY <1>4, <1>5, <1>6, <1>7, Zenon
<1>10. stage'[c] = "running" => local'[c].heard # <<>>
  BY <1>4, <1>6, <1>7, <1>8
<1>11. AsksInv'
  BY <1>2, <1>3, <1>4, <1>9, <1>10, LocalCopies DEF storeVars, histVars
<1> QED BY <1>2, <1>3, <1>4, <1>11

LEMMA ExecutesCopies ==
  ASSUME HeldInv, NEW c \in Calls, ChildExecutes(c)
  PROVE  /\ AsksInv' /\ stage' = stage
         /\ \A d \in Calls \ {c} : local'[d] = local[d]
         /\ local'[c].ask = 0 /\ local'[c].pending = FALSE /\ local'[c].heard = local[c].heard
<1>1. local[c] \in Child
  BY DEF HeldInv, GrantInv, ChildrenInv
<1>2. local' = [local EXCEPT ![c] = [local[c] EXCEPT !.ask = 0]] /\ ~local[c].pending /\ stage[c] = "running" /\ stage' = stage
  BY DEF ChildExecutes
<1>3. local'[c] = [local[c] EXCEPT !.ask = 0] /\ \A d \in Calls \ {c} : local'[d] = local[d]
  BY <1>2 DEF HeldInv, GrantInv, StoreType
<1>4. local'[c].ask = 0 /\ local'[c].pending = FALSE /\ local'[c].heard = local[c].heard
  BY <1>1, <1>2, <1>3 DEF Child
<1>5. Owned(local'[c], target[c], target, asker, approved)
  BY <1>4 DEF Owned
<1>6. local[c].heard # <<>>
  BY <1>2 DEF HeldInv, AsksInv
<1>7. AsksInv'
  BY <1>2, <1>3, <1>4, <1>5, <1>6, LocalCopies DEF ChildExecutes, storeVars
<1> QED BY <1>2, <1>3, <1>4, <1>7

LEMMA StillPendingCopies ==
  ASSUME HeldInv, NEW c \in Calls, ChildStillPending(c)
  PROVE  AsksInv'
<1>1. Owned(local[c], target[c], target, asker, approved) /\ local[c].heard # <<>> /\ local[c].pending
  BY DEF ChildStillPending, HeldInv, AsksInv
<1>2. local' = local /\ stage'[c] = "paused" /\ \A d \in Calls \ {c} : stage'[d] = stage[d]
  BY DEF ChildStillPending, HeldInv, GrantInv, StoreType
<1>3. Owned(local'[c], target[c], target, asker, approved)
  BY <1>1, <1>2, Zenon
<1> QED BY <1>1, <1>2, <1>3, LocalCopies DEF ChildStillPending, storeVars, histVars

\* New calls, and approvals newly asked for, leave the copies there are as they were.
LEMMA OldCopies ==
  ASSUME HeldInv, NEW s, NEW a, s.ask \in 0..asked, Owned(s, a, target, asker, approved),
         \A k \in 1..asked : asker'[k] = asker[k], \A c \in 1..issued : target'[c] = target[c]
  PROVE  Owned(s, a, target', asker', approved)
<1>1. asked \in Nat /\ \A k \in 1..asked : asker[k] \in 1..issued
  BY DEF HeldInv, GrantInv, StoreType, CallsInv
<1> QED BY <1>1 DEF Owned

LEMMA AsksCopies ==
  ASSUME HeldInv, NEW c \in Calls, ChildAsks(c)
  PROVE  /\ AsksInv' /\ asked' = asked + 1 /\ asked' \in Asks /\ asker'[asked'] = c
         /\ \A k \in 1..asked : asker'[k] = asker[k]
         /\ local'[c].ask = asked' /\ local'[c].pending = TRUE /\ local'[c].heard = local[c].heard
         /\ \A d \in Calls \ {c} : local'[d] = local[d] /\ stage'[d] = stage[d]
<1> USE DEF HeldInv
<1>1. local[c] \in Child /\ asked \in Nat /\ asked' = asked + 1 /\ asked' \in Asks
  BY SubAgentsAssumption DEF ChildAsks, GrantInv, ChildrenInv, StoreType, Asks
<1>2. asker'[asked'] = c /\ \A k \in 1..asked : asker'[k] = asker[k]
  BY <1>1, SubAgentsAssumption DEF ChildAsks, CallsInv, Asks
<1>3. local' = [local EXCEPT ![c] = Asking(local[c], asked')]
  BY DEF ChildAsks, Asking
<1>4. local'[c] = Asking(local[c], asked') /\ \A d \in Calls \ {c} : local'[d] = local[d]
  BY <1>3 DEF GrantInv, StoreType
<1>5. local'[c].ask = asked' /\ local'[c].pending = TRUE /\ local'[c].heard = local[c].heard
  BY <1>1, <1>4 DEF Asking, Child
<1>6. UNCHANGED <<issued, target, approved, paused, terminal>> /\ stage'[c] = "paused" /\ \A d \in Calls \ {c} : stage'[d] = stage[d]
  BY DEF ChildAsks, storeVars, GrantInv, StoreType
<1>7. asked' \notin approved
  BY <1>1 DEF CallsInv
<1>8. \A s, a : s.ask \in 0..asked /\ Owned(s, a, target, asker, approved) => Owned(s, a, target', asker', approved')
  BY <1>2, <1>6, OldCopies
<1>9. \A a \in Calls : Owned(paused'[a], a, target', asker', approved')
  BY <1>6, <1>8 DEF AsksInv, GrantInv, ChildrenInv, Sound
<1>10. \A a \in Calls : Owned(terminal'[a].state, a, target', asker', approved') /\ ~terminal'[a].state.pending
  BY <1>6, <1>8 DEF AsksInv, GrantInv, ChildrenInv, Sound
<1>11. \A d \in Calls : Owned(local'[d], target'[d], target', asker', approved')
  <2> TAKE d \in Calls
  <2>1. CASE d = c
    <3>1. target'[asker'[local'[c].ask]] = target'[c] /\ local'[c].ask \notin approved' /\ local'[c].ask # 0
      BY <1>1, <1>2, <1>5, <1>6, <1>7
    <3> QED BY <2>1, <3>1 DEF Owned
  <2>2. CASE d # c
    <3>1. local'[d] = local[d] /\ local[d].ask \in 0..asked /\ target'[d] = target[d]
      BY <1>4, <1>6, <2>2 DEF GrantInv, ChildrenInv, Sound
    <3>2. Owned(local[d], target[d], target, asker, approved)
      BY DEF AsksInv
    <3> QED BY <1>8, <3>1, <3>2
  <2> QED BY <2>1, <2>2
<1>12. local[c].heard # <<>>
  BY DEF ChildAsks, AsksInv
<1>13. AsksInv'
  BY <1>4, <1>5, <1>6, <1>9, <1>10, <1>11, <1>12 DEF AsksInv
<1> QED BY <1>1, <1>2, <1>4, <1>5, <1>6, <1>13

LEMMA NewCallsCopies ==
  ASSUME HeldInv, NEW n \in 1..MaxCalls, ModelCallsTool(n)
  PROVE  AsksInv'
<1> USE DEF HeldInv
<1>1. /\ UNCHANGED <<paused, terminal, stage, local, asked, asker, approved>> /\ issued \in Nat /\ issued' \in Nat /\ issued' >= issued
      /\ \A c \in 1..issued : target'[c] = target[c]
      /\ \A c \in Calls : stage[c] = "none"
  <2>1. UNCHANGED <<paused, terminal, stage, local, asked, asker, approved>>
    BY DEF ModelCallsTool
  <2>2. issued \in Nat /\ issued' = issued + n
    BY SubAgentsAssumption DEF ModelCallsTool, CallsInv
  <2>3. \A c \in 1..issued : target'[c] = target[c]
    BY NewCalls
  <2>4. \A c \in Calls : stage[c] = "none"
    BY NewCalls
  <2> QED BY <2>1, <2>2, <2>3, <2>4
<1>2. \A s, a : s.ask \in 0..asked /\ Owned(s, a, target, asker, approved) => Owned(s, a, target', asker', approved')
  BY <1>1, OldCopies
<1>3. \A a \in Calls : Owned(paused'[a], a, target', asker', approved')
  BY <1>1, <1>2 DEF AsksInv, GrantInv, ChildrenInv, Sound
<1>4. \A a \in Calls : Owned(terminal'[a].state, a, target', asker', approved') /\ ~terminal'[a].state.pending
  BY <1>1, <1>2 DEF AsksInv, GrantInv, ChildrenInv, Sound
<1>5. \A c \in Calls : local'[c] = Absent
  BY <1>1 DEF AsksInv
<1>6. \A c \in Calls : Owned(local'[c], target'[c], target', asker', approved')
  BY <1>5, AbsentFields DEF Owned
<1>7. \A a \in Calls : a > issued' => a > issued
  BY <1>1 DEF Calls
<1>8. UNCHANGED <<paused, terminal, stage, local>>
  BY <1>1
<1> QED BY <1>3, <1>4, <1>6, <1>7, <1>8 DEF AsksInv

\* A decision changes the states that wait for it, and leaves those of ended children alone.
LEMMA DecideCopies ==
  ASSUME HeldInv, NEW k \in Asks, NEW ok \in BOOLEAN, Decide(k, ok)
  PROVE  /\ AsksInv'
         /\ \A a \in Calls : paused'[a] = DecidedIn(paused[a], k, ok) /\ terminal'[a].state = terminal[a].state
         /\ \A a \in Calls : paused[a] = Absent <=> paused'[a] = Absent
         /\ \E a \in Calls : paused[a].ask = k /\ paused[a].pending
<1> USE DEF HeldInv
<1>1. /\ UNCHANGED <<issued, target, asked, asker, stage, local>>
      /\ approved' = IF ok THEN approved \cup {k} ELSE approved
      /\ paused' = [a \in Calls |-> DecidedIn(paused[a], k, ok)]
      /\ terminal' = [a \in Calls |-> [terminal[a] EXCEPT !.state = DecidedIn(terminal[a].state, k, ok)]]
      /\ phase = "idle"
  BY DEF Decide, runVars
<1>2. k # 0
  BY SubAgentsAssumption DEF Asks
<1>3. \A a \in Calls : paused'[a] = DecidedIn(paused[a], k, ok)
  BY <1>1
<1>4. \A a \in Calls : terminal'[a].state = terminal[a].state
  <2> TAKE a \in Calls
  <2>1. terminal'[a].state = DecidedIn(terminal[a].state, k, ok)
    BY <1>1 DEF GrantInv, ChildrenInv
  <2>2. ~terminal[a].state.pending
    BY DEF AsksInv
  <2> QED BY <2>1, <2>2, DecidedElse
<1>5. \A a \in Calls : paused[a] # Absent => paused'[a].heard # <<>>
  <2>1. \A s \in Child : DecidedIn(s, k, ok).heard = s.heard
    BY DecidedHeard
  <2>2. \A a \in Calls : paused[a] \in Child /\ (paused[a] # Absent => paused[a].heard # <<>>)
    BY DEF AsksInv, GrantInv, ChildrenInv
  <2> QED BY <1>3, <2>1, <2>2
<1>6. \A a \in Calls : paused[a] = Absent => paused'[a] = Absent
  BY <1>2, <1>3, AbsentFields, DecidedElse
<1>7. \A a \in Calls : Owned(paused'[a], a, target, asker, approved')
  <2> TAKE a \in Calls
  <2>1. Owned(paused[a], a, target, asker, approved) /\ paused[a] \in Child
    BY DEF AsksInv, GrantInv, ChildrenInv
  <2>2. Owned(DecidedIn(paused[a], k, ok), a, target, asker, IF ok THEN approved \cup {k} ELSE approved)
    BY <2>1, DecidedOwned
  <2> QED BY <1>1, <1>3, <2>2
<1>8. \A a \in Calls : Owned(terminal'[a].state, a, target, asker, approved')
  BY <1>4 DEF AsksInv, Owned
<1>9. \A c \in Calls : local'[c] = Absent /\ stage'[c] = "none"
  BY <1>1 DEF AsksInv, GrantInv, StoreType
<1>10. \A c \in Calls : Owned(local'[c], target[c], target, asker, approved')
  BY <1>9, AbsentFields DEF Owned
<1>11. AsksInv'
  BY <1>1, <1>4, <1>5, <1>6, <1>7, <1>8, <1>9, <1>10, AbsentFields DEF AsksInv
<1>12. \E a \in Calls : paused[a].ask = k /\ paused[a].pending
  <2>1. PICK a \in Calls : k \in ListedIn(paused[a]) \/ k \in ListedIn(terminal[a].state)
    BY DEF Decide, Listed
  <2> QED BY <2>1 DEF ListedIn, AsksInv
<1> QED BY <1>3, <1>4, <1>5, <1>6, <1>11, <1>12, AbsentFields

LEMMA InitHeld == Init => HeldInv
<1> SUFFICES ASSUME Init PROVE HeldInv
  OBVIOUS
<1>1. AsksInv
  BY AbsentFields DEF Init, AsksInv, Owned
<1> QED BY <1>1, InitGrant, InitCalls DEF HeldInv

LEMMA StepHeld == HeldInv /\ [Next]_vars => HeldInv'
<1> SUFFICES ASSUME HeldInv, [Next]_vars PROVE HeldInv'
  OBVIOUS
<1>1. GrantInv' /\ CallsInv'
  BY StepGrant, StepCalls DEF HeldInv
<1>2. AsksInv'
  <2>1. CASE UNCHANGED vars
    BY <2>1 DEF vars, storeVars, runVars, histVars, HeldInv, AsksInv
  <2>2. CASE StartRun \/ ParentStep \/ ParentFails
    BY <2>2, ParentCopies, NewCallsCopies DEF ParentStep
  <2>3. ASSUME NEW c \in Calls, ChildStep(c) PROVE AsksInv'
    BY <2>3, StartCopies, StillPendingCopies, ExecutesCopies, AsksCopies, ParentCopies DEF ChildStep
  <2>4. CASE CallerDecides
    BY <2>4, DecideCopies DEF CallerDecides
  <2> QED BY <2>1, <2>2, <2>3, <2>4 DEF Next
<1> QED BY <1>1, <1>2 DEF HeldInv

-----------------------------------------------------------------------------
(* What a step does, under the invariant.                                  *)

LEMMA EndsFacts ==
  ASSUME HeldInv, NEW c \in Calls, ChildEnds(c)
  PROVE  /\ stage[c] = "running" /\ ~local[c].pending /\ c \in batch /\ c \in Unresolved /\ target[c] \in Calls
         /\ phase \in {"tools", "preamble"} /\ local[c].heard # <<>> /\ local[c] # Absent
         /\ stage'[c] = "done" /\ \A d \in Calls \ {c} : stage'[d] = stage[d]
         /\ UNCHANGED <<tool, issued, target, batch, answered, entries, phase, todo, plain, local, paused>>
         /\ UNCHANGED <<asked, asker, approved, ran, crossed, failures>>
         /\ \A a \in Calls \ {target[c]} : terminal'[a].state = terminal[a].state
         /\ \/ terminal'[target[c]].state = local[c] /\ unrecorded' = unrecorded
            \/ terminal'[target[c]].state = terminal[target[c]].state /\ unrecorded' = unrecorded + 1 /\ local[c].ask = 0
<1>1. /\ stage[c] = "running" /\ ~local[c].pending /\ stage' = [stage EXCEPT ![c] = "done"]
      /\ UNCHANGED <<tool, issued, target, batch, answered, entries, phase, todo, plain, local, paused>>
      /\ UNCHANGED <<asked, asker, approved, ran, crossed, failures>>
  BY DEF ChildEnds
<1>2. \/ unrecorded' = unrecorded + 1 /\ terminal' = terminal /\ local[c].ask = 0
      \/ unrecorded' = unrecorded /\ \E n : terminal' = [terminal EXCEPT ![Agent(c)] = [state |-> local[c], completedTurns |-> n]]
  BY DEF ChildEnds
<1>3. c \in batch /\ c \in Unresolved /\ target[c] \in Calls /\ phase \in {"tools", "preamble"}
  BY <1>1, ActiveOpen DEF HeldInv, Agent
<1>4. local[c].heard # <<>> /\ local[c] # Absent
  BY <1>1, AbsentFields DEF HeldInv, AsksInv
<1>5. stage'[c] = "done" /\ \A d \in Calls \ {c} : stage'[d] = stage[d]
  BY <1>1 DEF HeldInv, GrantInv, StoreType
<1>6. \A a \in Calls \ {target[c]} : terminal'[a].state = terminal[a].state
  BY <1>2 DEF Agent, HeldInv, GrantInv, StoreType
<1>7. \/ terminal'[target[c]].state = local[c] /\ unrecorded' = unrecorded
      \/ terminal'[target[c]].state = terminal[target[c]].state /\ unrecorded' = unrecorded + 1 /\ local[c].ask = 0
  BY <1>2, <1>3 DEF Agent, HeldInv, GrantInv, StoreType
<1> QED BY <1>1, <1>3, <1>4, <1>5, <1>6, <1>7

LEMMA VisitFacts ==
  ASSUME HeldInv, NEW c \in Calls, PreambleVisits(c)
  PROVE  /\ stage[c] \in {"paused", "done"} /\ c \in batch /\ c \in Unresolved /\ target[c] \in Calls
         /\ phase = "preamble" /\ stage'[c] = "none" /\ local'[c] = Absent
         /\ \A d \in Calls \ {c} : stage'[d] = stage[d] /\ local'[d] = local[d]
         /\ UNCHANGED <<tool, issued, target, batch, phase, plain, terminal>>
         /\ UNCHANGED <<asked, asker, approved, ran, crossed, failures, unrecorded>>
         /\ \A a \in Calls \ {target[c]} : paused'[a] = paused[a]
         /\ plain => paused' = paused
         /\ ~plain /\ stage[c] = "paused" => paused'[target[c]] = local[c] /\ UNCHANGED <<answered, entries>>
         /\ ~plain /\ stage[c] = "done" => paused'[target[c]] = Absent
         /\ plain \/ stage[c] = "done" => answered' = answered \cup {c} /\ entries' = entries \ {c}
<1>1. /\ stage[c] \in {"paused", "done"} /\ InHand(c) /\ phase = "preamble"
      /\ UNCHANGED <<tool, issued, target, batch, phase, plain, terminal>>
      /\ UNCHANGED <<asked, asker, approved, ran, crossed, failures, unrecorded>>
      /\ stage' = [stage EXCEPT ![c] = "none"] /\ local' = [local EXCEPT ![c] = Absent]
      /\ paused' = IF plain THEN paused ELSE [paused EXCEPT ![Agent(c)] = IF stage[c] = "paused" THEN local[c] ELSE Absent]
      /\ \/ KeepsEntry(c) /\ UNCHANGED <<answered, entries>>
         \/ ~KeepsEntry(c) /\ answered' = answered \cup {c} /\ entries' = entries \ {c}
  BY DEF PreambleVisits, histVars
<1>2. c \in batch /\ c \in Unresolved /\ target[c] \in Calls
  BY <1>1, ActiveOpen DEF HeldInv, Agent
<1>3. stage'[c] = "none" /\ local'[c] = Absent /\ \A d \in Calls \ {c} : stage'[d] = stage[d] /\ local'[d] = local[d]
  BY <1>1 DEF HeldInv, GrantInv, StoreType
<1>4. plain => paused' = paused
  BY <1>1
<1>5. ~plain => /\ \A a \in Calls \ {target[c]} : paused'[a] = paused[a]
                /\ paused'[target[c]] = IF stage[c] = "paused" THEN local[c] ELSE Absent
  BY <1>1, <1>2 DEF Agent, HeldInv, GrantInv, StoreType
<1>6. ~plain /\ stage[c] = "paused" => UNCHANGED <<answered, entries>>
  BY <1>1 DEF KeepsEntry
<1>7. plain \/ stage[c] = "done" => answered' = answered \cup {c} /\ entries' = entries \ {c}
  BY <1>1 DEF KeepsEntry
<1>8. \A a \in Calls \ {target[c]} : paused'[a] = paused[a]
  BY <1>4, <1>5
<1> QED BY <1>1, <1>2, <1>3, <1>4, <1>5, <1>6, <1>7, <1>8

LEMMA SettleFacts ==
  ASSUME HeldInv, ToolsSettle
  PROVE  /\ phase = "tools" /\ batch \cap answered = {} /\ entries = {}
         /\ \A c \in batch : stage[c] \in {"paused", "done"}
         /\ Unresolved' = Paused /\ answered' \subseteq 1..issued /\ answered \subseteq answered'
         /\ \A c \in Calls : stage'[c] = "none" /\ local'[c] = Absent
         /\ UNCHANGED <<tool, issued, target, batch, terminal, asked, asker, approved, ran, crossed, failures, unrecorded>>
         /\ entries' = Paused /\ phase' \in {"idle", "model"}
         /\ \A a \in Calls : \/ paused'[a] = paused[a] /\ \A c \in Paused : target[c] # a
                             \/ \E c \in Paused : target[c] = a /\ paused'[a] = local[c]
<1>1. /\ phase = "tools" /\ \A c \in batch : stage[c] \in {"paused", "done"}
      /\ paused' = Stored(Paused) /\ answered' = answered \cup Settled
      /\ stage' = [c \in Calls |-> "none"] /\ local' = [c \in Calls |-> Absent] /\ phase' \in {"idle", "model"}
      /\ UNCHANGED <<tool, issued, target, batch, terminal, asked, asker, approved, ran, crossed, failures, unrecorded>>
      /\ entries' = Paused \/ (Paused = {} /\ entries' = entries)
  BY DEF ToolsSettle, Finish, histVars
<1>2. batch \cap answered = {} /\ entries = {}
  BY <1>1 DEF HeldInv, CallsInv
<1>3. Unresolved' = Paused /\ answered' \subseteq 1..issued
  BY <1>1, <1>2 DEF Unresolved, Settled, Paused, HeldInv, CallsInv
<1>4. \A a \in Calls : \/ paused'[a] = paused[a] /\ \A c \in Paused : target[c] # a
                       \/ \E c \in Paused : target[c] = a /\ paused'[a] = local[c]
  <2> TAKE a \in Calls
  <2> DEFINE of == {c \in Paused : Agent(c) = a}
  <2>1. paused'[a] = IF of = {} THEN paused[a] ELSE local[Max(of)]
    BY <1>1 DEF Stored
  <2>2. of \in SUBSET Calls
    BY DEF Paused, HeldInv, GrantInv, StoreType
  <2>3. of # {} => Max(of) \in of
    BY <2>2, LastCall
  <2> QED BY <2>1, <2>3 DEF Agent
<1> QED BY <1>1, <1>2, <1>3, <1>4

-----------------------------------------------------------------------------
(* The forking tool: only the call that started a child looks for its      *)
(* paused state; the others go on from a terminal state, and know none     *)
(* while the child has never ended.                                        *)

Recorded(a) == terminal[a].state # Absent

ForkInv ==
  tool = "forking" =>
    /\ \A c \in Calls : c # target[c] /\ stage[c] \in {"running", "paused"} => Recorded(target[c])
    /\ \A c \in entries : c # target[c] => Recorded(target[c])
    /\ \A a \in batch : target[a] = a /\ (phase = "tools" \/ a \in entries) /\ stage[a] # "done" => ~Recorded(a)
    /\ \A a \in Calls : paused[a].pending /\ asker[paused[a].ask] = a => ~Recorded(a)
    /\ \A c \in Calls : local[c].pending /\ c # target[c] => asker[local[c].ask] = c
    /\ \A a \in Calls : target[a] = a /\ stage[a] = "running" /\ paused[a].pending => local[a].pending

ForkHeld == HeldInv /\ ForkInv

\* A step that only takes calls from those in progress.
LEMMA ForkKept ==
  ASSUME ForkHeld, UNCHANGED <<tool, target, paused, terminal, asker>>, batch' \in {batch, {}},
         entries' \subseteq entries, phase' = "tools" => phase = "tools",
         \A c \in Calls : \/ stage'[c] = stage[c] /\ local'[c] = local[c]
                          \/ stage'[c] = "none" /\ local'[c] = Absent /\ (stage[c] = "none" \/ entries' = {}) /\ phase' # "tools"
  PROVE  ForkInv'
<1>1. \A c \in Calls : stage'[c] # "none" => stage'[c] = stage[c] /\ local'[c] = local[c]
  OBVIOUS
<1>2. \A c \in Calls : local'[c].pending => local'[c] = local[c]
  BY AbsentFields
<1>3. \A a \in batch' : (phase' = "tools" \/ a \in entries') /\ stage'[a] # "done" => a \in batch /\ (phase = "tools" \/ a \in entries) /\ stage[a] # "done"
  BY DEF ForkHeld, HeldInv, GrantInv, StoreType
<1> QED BY <1>1, <1>2, <1>3 DEF ForkHeld, ForkInv, Recorded

LEMMA ForkParent ==
  ASSUME ForkHeld, StartRun \/ ModelAnswers \/ ParentFails \/ PreambleEnds
  PROVE  ForkInv'
<1> USE DEF Finish, storeVars, histVars
<1>1. CASE StartRun
  BY <1>1, ForkKept DEF StartRun
<1>2. CASE ModelAnswers
  BY <1>2, ForkKept DEF ModelAnswers
<1>3. CASE ParentFails
  BY <1>3, ForkKept DEF ParentFails
<1>4. CASE PreambleEnds
  <2>1. \A c \in Calls : stage[c] = "none" /\ local[c] = Absent
    BY <1>4 DEF PreambleEnds, ForkHeld, HeldInv, GrantInv, StoreType, AsksInv
  <2> QED BY <1>4, <2>1, ForkKept DEF PreambleEnds
<1> QED BY <1>1, <1>2, <1>3, <1>4

LEMMA ForkNewCalls ==
  ASSUME ForkHeld, NEW n \in 1..MaxCalls, ModelCallsTool(n)
  PROVE  ForkInv'
<1>1. GrantInv /\ CallsInv /\ AsksInv
  BY DEF ForkHeld, HeldInv
<1>2. \A a \in batch' : a \in Calls /\ a > issued
  BY <1>1, NewCalls, SubAgentsAssumption DEF CallsInv, Calls
<1>3. \A a \in batch' : ~Recorded(a)
  BY <1>1, <1>2 DEF AsksInv, Recorded
<1>4. \A c \in Calls : stage[c] = "none" /\ local[c] = Absent
  BY <1>1, NewCalls DEF AsksInv
<1>5. entries = {}
  BY <1>1 DEF ModelCallsTool, CallsInv
<1>6. UNCHANGED <<tool, paused, terminal, asker, stage, local, entries>>
  BY DEF ModelCallsTool
<1> QED BY <1>3, <1>4, <1>5, <1>6, AbsentFields DEF ForkHeld, ForkInv, Recorded

\* A pause of the call that started the child: no run of that child has ended.
LEMMA OwnPause ==
  ASSUME ForkHeld, tool = "forking", NEW c \in Calls, stage[c] = "paused", phase = "tools" \/ c \in entries,
         asker[local[c].ask] = target[c]
  PROVE  ~Recorded(target[c])
<1>1. c \in batch /\ local[c].pending
  BY ActiveOpen DEF ForkHeld, HeldInv, AsksInv
<1>2. c = target[c]
  BY <1>1 DEF ForkHeld, ForkInv
<1> QED BY <1>1, <1>2 DEF ForkHeld, ForkInv

LEMMA ForkSettle == ASSUME ForkHeld, ToolsSettle PROVE ForkInv'
<1> SUFFICES ASSUME tool = "forking" PROVE ForkInv'
  BY SettleFacts DEF ForkHeld, ForkInv
<1>1. HeldInv /\ Paused \subseteq Calls
  BY DEF ForkHeld, Paused, HeldInv, GrantInv, StoreType
<1>2. \A c \in Paused : stage[c] = "paused" /\ c \in batch
  BY DEF Paused
<1>3. \A a \in Calls : paused'[a].pending /\ asker[paused'[a].ask] = a => ~Recorded(a)
  <2> TAKE a \in Calls
  <2>1. CASE paused'[a] = paused[a]
    BY <2>1 DEF ForkHeld, ForkInv
  <2>2. ASSUME NEW c \in Paused, target[c] = a, paused'[a] = local[c] PROVE asker[paused'[a].ask] = a => ~Recorded(a)
    BY <1>1, <1>2, <2>2, SettleFacts, OwnPause
  <2> QED BY <1>1, <2>1, <2>2, SettleFacts
<1>4. \A c \in Paused : c # target[c] => Recorded(target[c])
  BY <1>1, <1>2 DEF ForkHeld, ForkInv
<1>5. \A a \in Paused : target[a] = a => ~Recorded(a)
  BY <1>1, <1>2, SettleFacts DEF ForkHeld, ForkInv
<1>6. UNCHANGED <<tool, target, batch, terminal, asker>> /\ entries' = Paused /\ phase' # "tools"
  BY <1>1, SettleFacts
<1>7. \A c \in Calls : stage'[c] = "none" /\ local'[c] = Absent
  BY <1>1, SettleFacts
<1> QED BY <1>3, <1>4, <1>5, <1>6, <1>7, AbsentFields DEF ForkInv, Recorded

LEMMA ForkVisit == ASSUME ForkHeld, NEW c \in Calls, PreambleVisits(c) PROVE ForkInv'
<1> SUFFICES ASSUME tool = "forking" PROVE ForkInv'
  BY VisitFacts DEF ForkHeld, ForkInv
<1>1. HeldInv /\ ForkInv
  BY DEF ForkHeld
<1>2. UNCHANGED <<tool, target, batch, terminal, asker, phase>> /\ phase = "preamble"
  BY <1>1, VisitFacts
<1>3. entries' \subseteq entries /\ (c \in entries' => stage[c] = "paused")
  BY <1>1, VisitFacts
<1>4. \A d \in Calls : (d # c /\ stage'[d] = stage[d] /\ local'[d] = local[d]) \/ (d = c /\ stage'[d] = "none" /\ local'[d] = Absent)
  BY <1>1, VisitFacts
<1>5. \A a \in Calls : paused'[a].pending /\ asker[paused'[a].ask] = a => paused'[a] = paused[a] \/ ~Recorded(a)
  <2> TAKE a \in Calls
  <2> HAVE paused'[a].pending /\ asker[paused'[a].ask] = a
  <2>1. CASE a # target[c] \/ plain
    BY <1>1, <2>1, VisitFacts
  <2>2. CASE a = target[c] /\ ~plain /\ stage[c] = "done"
    BY <1>1, <2>2, VisitFacts, AbsentFields
  <2>3. CASE a = target[c] /\ ~plain /\ stage[c] = "paused"
    <3>1. paused'[a] = local[c] /\ c \in Unresolved
      BY <1>1, <2>3, VisitFacts
    <3>2. c \in entries
      BY <1>1, <1>2, <2>3, <3>1 DEF HeldInv, CallsInv
    <3> QED BY <2>3, <3>1, <3>2, OwnPause
  <2> QED BY <1>1, <2>1, <2>2, <2>3, VisitFacts
<1>6. \A a \in Calls : target[a] = a /\ stage'[a] = "running" /\ paused'[a].pending => paused'[a] = paused[a]
  <2> TAKE a \in Calls
  <2> HAVE target[a] = a /\ stage'[a] = "running" /\ paused'[a].pending
  <2>1. a # c /\ stage[a] = "running"
    BY <1>4
  <2>2. a \in batch /\ c \in batch
    BY <1>1, <2>1, ActiveOpen, VisitFacts DEF HeldInv
  <2>3. target[c] # a
    BY <1>1, <2>1, <2>2 DEF HeldInv, CallsInv
  <2> QED BY <1>1, <2>3, VisitFacts
<1>7. \A a \in batch : a \in entries' /\ stage'[a] # "done" => a \in entries /\ stage[a] # "done"
  BY <1>3, <1>4 DEF ForkHeld, HeldInv, GrantInv, StoreType
<1> QED BY <1>1, <1>2, <1>3, <1>4, <1>5, <1>6, <1>7, AbsentFields DEF ForkInv, Recorded

LEMMA ForkStart == ASSUME ForkHeld, NEW c \in Calls, Start(c) PROVE ForkInv'
<1> SUFFICES ASSUME tool = "forking" PROVE ForkInv'
  BY StartCopies DEF ForkHeld, ForkInv
<1>1. HeldInv /\ ForkInv
  BY DEF ForkHeld
<1>2. UNCHANGED <<tool, target, batch, terminal, asker, phase, entries, paused>> /\ stage[c] = "none" /\ Agent(c) = target[c] /\ target[c] \in Calls
  BY <1>1, InHandOpen DEF Start, storeVars, histVars, Agent, HeldInv
<1>3. \A d \in Calls \ {c} : local'[d] = local[d] /\ stage'[d] = stage[d]
  BY <1>1, StartCopies
<1>4. FromPaused(c) => c = target[c]
  BY <1>2 DEF FromPaused, NewChild
<1>5. c # target[c] => (stage'[c] = "running" /\ Recorded(target[c])) \/ stage'[c] = "done"
  BY <1>1, <1>2, <1>4, StartCopies DEF NewChild, Resumable, Recorded
<1>6. c # target[c] => ~local'[c].pending
  <2> HAVE c # target[c]
  <2>1. terminal[target[c]].state \in Child /\ ~terminal[target[c]].state.pending /\ local[c] = Absent
    BY <1>1, <1>2 DEF HeldInv, GrantInv, ChildrenInv, AsksInv
  <2>2. ~Continued(c).pending
    BY <1>2, <2>1, PromptedFields DEF Continued
  <2> QED BY <1>1, <1>2, <1>4, <2>1, <2>2, StartCopies, AbsentFields DEF NewChild
<1>7. c = target[c] => stage'[c] = "running" /\ (paused[c].pending => local'[c].pending)
  BY <1>1, <1>2, StartCopies, AbsentFields DEF FromPaused, NewChild
<1>8. \A a \in batch : stage'[a] # "done" => stage[a] # "done"
  BY <1>2, <1>3 DEF ForkHeld, HeldInv, GrantInv, StoreType
<1> QED BY <1>1, <1>2, <1>3, <1>5, <1>6, <1>7, <1>8 DEF ForkInv, Recorded

LEMMA ForkAsks == ASSUME ForkHeld, NEW c \in Calls, ChildAsks(c) PROVE ForkInv'
<1> SUFFICES ASSUME tool = "forking" PROVE ForkInv'
  BY DEF ForkHeld, ForkInv, ChildAsks, storeVars
<1>1. HeldInv /\ ForkInv
  BY DEF ForkHeld
<1>2. UNCHANGED <<tool, target, batch, terminal, phase, entries, paused>> /\ stage[c] = "running" /\ stage'[c] = "paused"
  BY DEF ChildAsks, storeVars, ForkHeld, HeldInv, GrantInv, StoreType
<1>3. \A d \in Calls \ {c} : local'[d] = local[d] /\ stage'[d] = stage[d]
  BY <1>1, AsksCopies
<1>4. \A k \in 1..asked : asker'[k] = asker[k]
  BY <1>1, AsksCopies
<1>5. \A a \in Calls : paused[a].pending => paused[a].ask \in 1..asked
  BY <1>1 DEF HeldInv, GrantInv, ChildrenInv, Sound, AsksInv, Owned, StoreType
<1>6. \A d \in Calls : local[d].pending => local[d].ask \in 1..asked
  BY <1>1 DEF HeldInv, GrantInv, ChildrenInv, Sound, AsksInv, Owned, StoreType
<1>7. asker'[local'[c].ask] = c
  BY <1>1, AsksCopies
<1>8. \A a \in batch : stage'[a] # "done" => stage[a] # "done"
  BY <1>2, <1>3 DEF ForkHeld, HeldInv, GrantInv, StoreType
<1>9. \A a \in Calls : paused'[a].pending /\ asker'[paused'[a].ask] = a => ~Recorded(a)
  BY <1>1, <1>2, <1>4, <1>5 DEF ForkInv
<1>10. \A d \in Calls : local'[d].pending /\ d # target[d] => asker'[local'[d].ask] = d
  BY <1>1, <1>3, <1>4, <1>6, <1>7 DEF ForkInv
<1> QED BY <1>1, <1>2, <1>3, <1>8, <1>9, <1>10 DEF ForkInv, Recorded

LEMMA ForkExecutes == ASSUME ForkHeld, NEW c \in Calls, ChildExecutes(c) PROVE ForkInv'
<1>1. HeldInv /\ ForkInv
  BY DEF ForkHeld
<1>2. UNCHANGED <<tool, target, batch, terminal, asker, phase, entries, paused, stage>> /\ stage[c] = "running" /\ ~local[c].pending
  BY DEF ChildExecutes, storeVars
<1>3. ~local'[c].pending /\ \A d \in Calls \ {c} : local'[d] = local[d]
  BY <1>1, ExecutesCopies
<1> QED BY <1>1, <1>2, <1>3 DEF ForkInv, Recorded

LEMMA ForkStillPending == ASSUME ForkHeld, NEW c \in Calls, ChildStillPending(c) PROVE ForkInv'
<1>1. UNCHANGED <<tool, target, batch, terminal, asker, phase, entries, paused, local>> /\ stage[c] = "running" /\ stage'[c] = "paused"
  BY DEF ChildStillPending, storeVars, histVars, ForkHeld, HeldInv, GrantInv, StoreType
<1>2. \A d \in Calls \ {c} : stage'[d] = stage[d]
  BY DEF ChildStillPending, ForkHeld, HeldInv, GrantInv, StoreType
<1>3. \A a \in batch : stage'[a] # "done" => stage[a] # "done"
  BY <1>1, <1>2 DEF ForkHeld, HeldInv, GrantInv, StoreType
<1> QED BY <1>1, <1>2, <1>3 DEF ForkHeld, ForkInv, Recorded

\* The state of an ended run is recorded for a child that had been recorded, or is its own.
LEMMA ForkEnds == ASSUME ForkHeld, NEW c \in Calls, ChildEnds(c) PROVE ForkInv'
<1> SUFFICES ASSUME tool = "forking" PROVE ForkInv'
  BY EndsFacts DEF ForkHeld, ForkInv
<1>1. HeldInv /\ ForkInv
  BY DEF ForkHeld
<1>2. /\ UNCHANGED <<tool, target, batch, asker, phase, entries, paused, local>> /\ stage'[c] = "done" /\ stage[c] = "running"
      /\ \A d \in Calls \ {c} : stage'[d] = stage[d]
  BY <1>1, EndsFacts
<1>3. \A a \in Calls : Recorded(a) => Recorded(a)'
  BY <1>1, EndsFacts DEF Recorded
<1>4. \A a \in Calls \ {target[c]} : Recorded(a)' => Recorded(a)
  BY <1>1, EndsFacts DEF Recorded
<1>5. \A a \in batch : target[a] = a /\ stage'[a] # "done" => a # target[c] /\ stage[a] # "done"
  <2> TAKE a \in batch
  <2> HAVE target[a] = a /\ stage'[a] # "done"
  <2>1. a # c /\ a \in Calls /\ stage[a] = stage'[a]
    BY <1>1, <1>2 DEF HeldInv, GrantInv, StoreType
  <2>2. target[c] # a
    BY <1>1, <2>1, EndsFacts DEF HeldInv, CallsInv
  <2> QED BY <2>1, <2>2
<1>6. paused[target[c]].pending => asker[paused[target[c]].ask] # target[c]
  <2>1. CASE c = target[c]
    BY <1>1, <1>2, <2>1, EndsFacts DEF ForkInv
  <2>2. CASE c # target[c]
    BY <1>1, <1>2, <2>2, EndsFacts DEF ForkInv
  <2> QED BY <2>1, <2>2
<1>7. \A a \in batch : target[a] = a /\ (phase = "tools" \/ a \in entries) /\ stage'[a] # "done" => ~Recorded(a)'
  BY <1>1, <1>4, <1>5 DEF ForkInv, HeldInv, GrantInv, StoreType
<1>8. \A a \in Calls : paused[a].pending /\ asker[paused[a].ask] = a => ~Recorded(a)'
  BY <1>1, <1>4, <1>6 DEF ForkInv
<1>9. \A d \in Calls : d # target[d] /\ stage'[d] \in {"running", "paused"} => Recorded(target[d])'
  <2> TAKE d \in Calls
  <2> HAVE d # target[d] /\ stage'[d] \in {"running", "paused"}
  <2>1. stage[d] \in {"running", "paused"}
    BY <1>2
  <2>2. Recorded(target[d]) /\ target[d] \in Calls
    BY <1>1, <2>1, ActiveOpen DEF ForkInv, HeldInv, Agent
  <2> QED BY <1>2, <1>3, <2>2
<1>10. \A d \in entries : d # target[d] => Recorded(target[d])'
  <2>1. \A d \in entries : target[d] \in Calls
    BY <1>1 DEF HeldInv, GrantInv, StoreType, CallsInv, Unresolved
  <2> QED BY <1>1, <1>2, <1>3, <2>1 DEF ForkInv
<1> QED BY <1>1, <1>2, <1>7, <1>8, <1>9, <1>10 DEF ForkInv

LEMMA ForkDecide == ASSUME ForkHeld, NEW k \in Asks, NEW ok \in BOOLEAN, Decide(k, ok) PROVE ForkInv'
<1>1. HeldInv /\ ForkInv
  BY DEF ForkHeld
<1>2. UNCHANGED <<tool, target, batch, asker, phase, entries, stage, local>>
  BY DEF Decide, runVars
<1>3. \A a \in Calls : terminal'[a].state = terminal[a].state
  BY <1>1, DecideCopies
<1>4. \A a \in Calls : Recorded(a)' <=> Recorded(a)
  BY <1>3 DEF Recorded
<1>5. \A a \in Calls : paused'[a].pending => paused'[a] = paused[a]
  <2> TAKE a \in Calls
  <2>1. paused[a] \in Child /\ paused'[a] = DecidedIn(paused[a], k, ok)
    BY <1>1, DecideCopies DEF HeldInv, GrantInv, ChildrenInv
  <2>2. \A s \in Child : DecidedIn(s, k, ok).pending => DecidedIn(s, k, ok) = s
    BY DecidedOnce
  <2> QED BY <2>1, <2>2
<1>6. \A c \in Calls : stage[c] = "none"
  BY <1>1 DEF Decide, HeldInv, GrantInv, StoreType
<1>7. \A a \in entries \cup batch : a \in Calls
  BY <1>1 DEF HeldInv, GrantInv, StoreType, CallsInv, Unresolved
<1>8. \A a \in entries : target[a] \in Calls
  BY <1>1 DEF HeldInv, GrantInv, StoreType, CallsInv, Unresolved
<1> QED BY <1>1, <1>2, <1>4, <1>5, <1>6, <1>7, <1>8 DEF ForkInv

LEMMA StepFork == ForkHeld /\ [Next]_vars => ForkHeld'
<1> SUFFICES ASSUME ForkHeld, [Next]_vars PROVE ForkHeld'
  OBVIOUS
<1>1. HeldInv'
  BY StepHeld DEF ForkHeld
<1>2. ForkInv'
  <2>1. CASE UNCHANGED vars
    BY <2>1 DEF vars, storeVars, runVars, histVars, ForkHeld, ForkInv, Recorded
  <2>2. CASE StartRun \/ ParentStep \/ ParentFails
    BY <2>2, ForkParent, ForkNewCalls, ForkSettle, ForkVisit DEF ParentStep
  <2>3. ASSUME NEW c \in Calls, ChildStep(c) PROVE ForkInv'
    BY <2>3, ForkStart, ForkStillPending, ForkExecutes, ForkAsks, ForkEnds DEF ChildStep
  <2>4. CASE CallerDecides
    BY <2>4, ForkDecide DEF CallerDecides
  <2> QED BY <2>1, <2>2, <2>3, <2>4 DEF Next
<1> QED BY <1>1, <1>2 DEF ForkHeld

-----------------------------------------------------------------------------
(* Where the dangling call of a granted approval is held.                  *)

\* Every run that goes on from the agent's state has the call; it is in the paused state,
\* or in the terminal state and no call will look for the paused one.
Kept(k) ==
  /\ \A d \in Calls : target[d] = Home(k) =>
       /\ stage[d] = "running" => local[d].ask = k
       /\ stage[d] # "paused"
       /\ stage[d] = "done" => \/ terminal[Home(k)].state.ask = k
                               \/ tool = "forking" /\ d # Home(k) /\ ~Recorded(Home(k))
  /\ \/ paused[Home(k)].ask = k /\ (tool = "specialists" \/ Home(k) \in Unresolved \/ ~Recorded(Home(k)))
     \/ terminal[Home(k)].state.ask = k /\ Home(k) \notin Unresolved /\ (tool = "forking" \/ paused[Home(k)] = Absent)

Looked(k) == tool = "specialists" \/ NewChild(asker[k])

KeptInv == \A k \in approved : Looked(k) /\ ran[k] = 0 => Kept(k)

KeptHeld == ForkHeld /\ KeptInv

LEMMA HomeAgent ==
  ASSUME HeldInv, NEW k \in approved
  PROVE  k \in 1..asked /\ k # 0 /\ asker[k] \in 1..issued /\ Home(k) \in 1..issued /\ Home(k) \in Calls /\ target[Home(k)] = Home(k)
<1>1. k \in 1..asked /\ asked \in Nat
  BY DEF HeldInv, GrantInv, StoreType, CallsInv
<1>2. asker[k] \in 1..issued /\ 1..issued \subseteq Calls
  BY <1>1, SubAgentsAssumption DEF HeldInv, CallsInv, Calls
<1> QED BY <1>1, <1>2 DEF Home, HeldInv, CallsInv

\* A step that decides nothing has only to keep what is held.
LEMMA KeptFrom ==
  ASSUME KeptHeld, UNCHANGED <<tool, approved>>, \A k \in approved : asker'[k] = asker[k],
         \A c \in 1..issued : target'[c] = target[c],
         \A k \in approved : ran'[k] = 0 => ran[k] = 0,
         \A k \in approved : Looked(k) /\ Kept(k) /\ ran'[k] = 0 => Kept(k)'
  PROVE  KeptInv'
<1> SUFFICES ASSUME NEW k \in approved, Looked(k)', ran'[k] = 0 PROVE Kept(k)'
  BY DEF KeptInv
<1>1. asker[k] \in 1..issued
  BY HomeAgent DEF KeptHeld, ForkHeld
<1>2. Looked(k)
  BY <1>1 DEF Looked, NewChild, Agent
<1>3. Kept(k)
  BY <1>2 DEF KeptHeld, KeptInv
<1> QED BY <1>2, <1>3

\* A step between runs of children.
LEMMA KeptIdle ==
  ASSUME KeptHeld, UNCHANGED <<tool, target, approved, asker, ran, paused, terminal>>,
         batch' = batch \/ (batch' = {} /\ Unresolved = {}), answered' = answered,
         \A c \in Calls : stage'[c] = "none" \/ (stage'[c] = stage[c] /\ local'[c] = local[c])
  PROVE  KeptInv'
<1>1. Unresolved' = Unresolved
  BY DEF Unresolved
<1>2. ASSUME NEW k \in approved, Kept(k) PROVE Kept(k)'
  <2>1. Home(k)' = Home(k) /\ Recorded(Home(k))' = Recorded(Home(k))
    BY DEF Home, Recorded
  <2>2. \A d \in Calls : stage'[d] # "none" => stage'[d] = stage[d] /\ local'[d] = local[d]
    OBVIOUS
  <2> QED BY <1>1, <1>2, <2>1, <2>2 DEF Kept
<1> QED BY <1>2, KeptFrom

LEMMA KeptParent ==
  ASSUME KeptHeld, StartRun \/ ModelAnswers \/ ParentFails \/ PreambleEnds
  PROVE  KeptInv'
<1> USE DEF Finish, storeVars, histVars
<1>1. CASE StartRun
  BY <1>1, KeptIdle DEF StartRun
<1>2. CASE ModelAnswers
  <2>1. Unresolved = {}
    BY <1>2 DEF ModelAnswers, KeptHeld, ForkHeld, HeldInv, CallsInv
  <2> QED BY <1>2, <2>1, KeptIdle DEF ModelAnswers
<1>3. CASE ParentFails
  BY <1>3, KeptIdle DEF ParentFails
<1>4. CASE PreambleEnds
  BY <1>4, KeptIdle DEF PreambleEnds
<1> QED BY <1>1, <1>2, <1>3, <1>4

LEMMA KeptNewCalls == ASSUME KeptHeld, NEW n \in 1..MaxCalls, ModelCallsTool(n) PROVE KeptInv'
<1>1. HeldInv /\ GrantInv /\ CallsInv
  BY DEF KeptHeld, ForkHeld, HeldInv
<1>2. UNCHANGED <<tool, approved, asker, ran, paused, terminal, stage, local, answered>> /\ Unresolved = {}
  BY <1>1 DEF ModelCallsTool, CallsInv
<1>3. \A c \in 1..issued : target'[c] = target[c]
  BY <1>1, NewCalls
<1>4. \A c \in Calls : stage[c] = "none"
  BY <1>1, NewCalls
<1>5. ASSUME NEW k \in approved, Kept(k) PROVE Kept(k)'
  <2>1. asker[k] \in 1..issued /\ Home(k) \in 1..issued
    BY <1>1, HomeAgent
  <2>2. Home(k)' = Home(k)
    BY <1>2, <1>3, <2>1 DEF Home
  <2>3. Home(k) \notin Unresolved'
    BY <1>1, <2>1, NewCalls DEF Unresolved
  <2>4. Recorded(Home(k))' = Recorded(Home(k))
    BY <1>2, <2>2 DEF Recorded
  <2> QED BY <1>2, <1>4, <1>5, <2>2, <2>3, <2>4 DEF Kept
<1> QED BY <1>2, <1>3, <1>5, KeptFrom

LEMMA KeptSettle == ASSUME KeptHeld, ToolsSettle PROVE KeptInv'
<1>1. HeldInv
  BY DEF KeptHeld, ForkHeld
<1>2. UNCHANGED <<tool, target, approved, asker, ran, terminal>> /\ \A c \in Calls : stage'[c] = "none"
  BY <1>1, SettleFacts
<1>3. ASSUME NEW k \in approved, Kept(k) PROVE Kept(k)'
  <2>1. Home(k) \in Calls /\ Home(k)' = Home(k) /\ Recorded(Home(k))' = Recorded(Home(k)) /\ target[Home(k)] = Home(k)
    BY <1>1, <1>2, HomeAgent DEF Home, Recorded
  <2>2. paused'[Home(k)] = paused[Home(k)]
    <3>1. \A c \in Paused : c \in Calls /\ stage[c] = "paused"
      BY <1>1 DEF Paused, HeldInv, GrantInv, StoreType
    <3>2. \A c \in Paused : target[c] # Home(k)
      BY <1>3, <3>1 DEF Kept
    <3> QED BY <1>1, <2>1, <3>2, SettleFacts
  <2>3. Unresolved' \subseteq Unresolved
    BY <1>1, SettleFacts DEF Unresolved, Paused
  <2>4. Home(k) \in Unresolved /\ Home(k) \notin Unresolved' => terminal[Home(k)].state.ask = k
    <3> HAVE Home(k) \in Unresolved /\ Home(k) \notin Unresolved'
    <3>1. Home(k) \in batch
      BY DEF Unresolved
    <3>2. stage[Home(k)] = "done"
      BY <1>1, <2>1, <3>1, SettleFacts DEF Paused
    <3> QED BY <1>3, <2>1, <3>2 DEF Kept
  <2>5. CASE paused[Home(k)].ask = k /\ (tool = "specialists" \/ Home(k) \in Unresolved \/ ~Recorded(Home(k)))
    <3>1. tool \in {"specialists", "forking"}
      BY <1>1 DEF HeldInv, CallsInv
    <3> QED BY <1>2, <2>1, <2>2, <2>4, <2>5, <3>1 DEF Kept
  <2>6. CASE terminal[Home(k)].state.ask = k /\ Home(k) \notin Unresolved /\ (tool = "forking" \/ paused[Home(k)] = Absent)
    BY <1>2, <2>1, <2>2, <2>3, <2>6 DEF Kept
  <2> QED BY <1>3, <2>5, <2>6 DEF Kept
<1> QED BY <1>2, <1>3, KeptFrom

LEMMA KeptVisit == ASSUME KeptHeld, NEW c \in Calls, PreambleVisits(c) PROVE KeptInv'
<1>1. HeldInv /\ ForkInv
  BY DEF KeptHeld, ForkHeld
<1>2. UNCHANGED <<tool, target, approved, asker, ran, terminal>> /\ batch' = batch
  BY <1>1, VisitFacts
<1>3. \A d \in Calls : (d = c /\ stage'[d] = "none") \/ (d # c /\ stage'[d] = stage[d] /\ local'[d] = local[d])
  BY <1>1, VisitFacts
<1>4. ASSUME NEW k \in approved, Kept(k) PROVE Kept(k)'
  <2>1. Home(k) \in Calls /\ Home(k)' = Home(k) /\ Recorded(Home(k))' = Recorded(Home(k)) /\ target[Home(k)] = Home(k)
    BY <1>1, <1>2, HomeAgent DEF Home, Recorded
  <2>2. \A d \in Calls : target'[d] = Home(k) =>
          /\ stage'[d] = "running" => local'[d].ask = k
          /\ stage'[d] # "paused"
          /\ stage'[d] = "done" => \/ terminal'[Home(k)].state.ask = k
                                   \/ tool' = "forking" /\ d # Home(k) /\ ~Recorded(Home(k))
    BY <1>2, <1>3, <1>4 DEF Kept
  <2>3. CASE target[c] # Home(k)
    <3>1. paused'[Home(k)] = paused[Home(k)] /\ c # Home(k)
      BY <1>1, <2>1, <2>3, VisitFacts
    <3>2. answered' = answered \/ answered' = answered \cup {c}
      BY <1>1, VisitFacts
    <3>3. Home(k) \in Unresolved' <=> Home(k) \in Unresolved
      BY <1>2, <3>1, <3>2 DEF Unresolved
    <3> QED BY <1>2, <1>4, <2>1, <2>2, <3>1, <3>3 DEF Kept
  <2>4. CASE target[c] = Home(k)
    <3>1. stage[c] = "done" /\ answered' = answered \cup {c} /\ entries' = entries \ {c}
      BY <1>1, <1>4, <2>4, VisitFacts DEF Kept
    <3>2. paused'[Home(k)] = IF plain THEN paused[Home(k)] ELSE Absent
      BY <1>1, <2>4, <3>1, VisitFacts
    <3>3. Home(k) \notin Unresolved'
      <4>1. CASE c = Home(k)
        BY <1>2, <3>1, <4>1 DEF Unresolved
      <4>2. CASE c # Home(k)
        <5>1. Home(k) \notin batch
          <6>1. c \in batch
            BY <1>1, VisitFacts
          <6> QED BY <1>1, <2>4, <4>2, <6>1 DEF HeldInv, CallsInv
        <5> QED BY <1>2, <5>1 DEF Unresolved
      <4> QED BY <4>1, <4>2
    <3>4. tool \in {"specialists", "forking"} /\ (phase = "preamble" /\ ~plain => entries = Unresolved) /\ phase = "preamble" /\ c \in Unresolved
      BY <1>1, VisitFacts DEF HeldInv, CallsInv
    <3>5. CASE terminal[Home(k)].state.ask = k
      <4>1. CASE tool = "forking"
        BY <1>2, <2>1, <2>2, <3>3, <3>5, <4>1 DEF Kept
      <4>2. CASE tool = "specialists"
        <5>1. paused'[Home(k)] = Absent \/ paused'[Home(k)] = paused[Home(k)]
          BY <3>2
        <5>2. paused[Home(k)] = Absent \/ paused[Home(k)].ask = k
          BY <1>4, <4>2 DEF Kept
        <5>3. (paused'[Home(k)].ask = k /\ tool' = "specialists") \/ paused'[Home(k)] = Absent
          BY <1>2, <4>2, <5>1, <5>2
        <5> QED BY <1>2, <2>1, <2>2, <3>3, <3>5, <5>3 DEF Kept
      <4> QED BY <3>4, <4>1, <4>2
    <3>6. CASE tool = "forking" /\ c # Home(k) /\ ~Recorded(Home(k)) /\ terminal[Home(k)].state.ask # k
      <4>1. plain
        BY <1>1, <2>4, <3>4, <3>6 DEF ForkInv
      <4>2. paused[Home(k)].ask = k
        BY <1>4, <3>6 DEF Kept
      <4> QED BY <1>2, <2>1, <2>2, <3>2, <3>6, <4>1, <4>2 DEF Kept
    <3> QED BY <1>4, <2>4, <3>1, <3>5, <3>6 DEF Kept
  <2> QED BY <2>3, <2>4
<1> QED BY <1>2, <1>4, KeptFrom

\* A run of the child that asked goes on with the call.
LEMMA KeptStart == ASSUME KeptHeld, NEW c \in Calls, Start(c) PROVE KeptInv'
<1>1. HeldInv /\ ForkInv /\ GrantInv /\ CallsInv
  BY DEF KeptHeld, ForkHeld, HeldInv
<1>2. UNCHANGED <<tool, target, approved, asker, ran, terminal, paused, batch, answered>>
  BY DEF Start, storeVars, histVars
<1>3. c \in Unresolved /\ Agent(c) = target[c] /\ target[c] \in Calls
  BY <1>1, InHandOpen DEF Start, Agent
<1>4. \A d \in Calls \ {c} : local'[d] = local[d] /\ stage'[d] = stage[d]
  BY <1>1, StartCopies
<1>5. Unresolved' = Unresolved /\ tool \in {"specialists", "forking"}
  BY <1>1, <1>2 DEF Unresolved, CallsInv
<1>6. ASSUME NEW k \in approved, Kept(k) PROVE Kept(k)'
  <2>1. Home(k) \in Calls /\ Home(k)' = Home(k) /\ Recorded(Home(k))' = Recorded(Home(k)) /\ target[Home(k)] = Home(k) /\ k # 0
    BY <1>1, <1>2, HomeAgent DEF Home, Recorded
  <2>2. target[c] = Home(k) => \/ stage'[c] = "running" /\ local'[c].ask = k
                               \/ stage'[c] = "done" /\ tool = "forking" /\ c # Home(k) /\ ~Recorded(Home(k))
    <3> HAVE target[c] = Home(k)
    <3>1. c # Home(k) => Home(k) \notin Unresolved
      BY <1>1, <1>3 DEF CallsInv, Unresolved
    <3>2. CASE paused[Home(k)].ask = k /\ (tool = "specialists" \/ c = Home(k))
      <4>1. FromPaused(c)
        BY <1>3, <2>1, <3>2, AbsentFields DEF FromPaused, NewChild
      <4> QED BY <1>1, <1>3, <3>2, <4>1, StartCopies
    <3>3. CASE terminal[Home(k)].state.ask = k /\ c # Home(k) /\ (tool = "forking" \/ paused[Home(k)] = Absent)
      <4>1. ~FromPaused(c) /\ ~NewChild(c) /\ Resumable(c)
        BY <1>3, <2>1, <3>3, AbsentFields DEF FromPaused, NewChild, Resumable
      <4>2. local'[c] = Continued(c) /\ stage'[c] = "running"
        BY <1>1, <4>1, StartCopies
      <4>3. terminal[Home(k)].state \in Child
        BY <1>1, <2>1 DEF GrantInv, ChildrenInv
      <4> QED BY <1>3, <3>3, <4>2, <4>3, PromptedFields DEF Continued
    <3>4. CASE tool = "forking" /\ c # Home(k) /\ ~Recorded(Home(k))
      <4>1. ~FromPaused(c) /\ ~NewChild(c) /\ ~Resumable(c)
        BY <1>3, <3>4 DEF FromPaused, NewChild, Resumable, Recorded
      <4>2. stage'[c] = "done"
        BY <1>1, <4>1, StartCopies
      <4> QED BY <3>4, <4>2
    <3>5. \/ paused[Home(k)].ask = k /\ (tool = "specialists" \/ c = Home(k))
          \/ terminal[Home(k)].state.ask = k /\ c # Home(k) /\ (tool = "forking" \/ paused[Home(k)] = Absent)
          \/ tool = "forking" /\ c # Home(k) /\ ~Recorded(Home(k))
      <4>1. c = Home(k) => Home(k) \in Unresolved
        BY <1>3
      <4> QED BY <1>5, <1>6, <3>1, <4>1 DEF Kept
    <3> QED BY <3>2, <3>3, <3>4, <3>5
  <2> QED BY <1>2, <1>4, <1>5, <1>6, <2>1, <2>2 DEF Kept
<1> QED BY <1>2, <1>6, KeptFrom

LEMMA KeptExecutes == ASSUME KeptHeld, NEW c \in Calls, ChildExecutes(c) PROVE KeptInv'
<1>1. HeldInv
  BY DEF KeptHeld, ForkHeld
<1>2. UNCHANGED <<tool, target, approved, asker, terminal, paused, batch, answered, stage>> /\ stage[c] = "running"
      /\ ran' = [ran EXCEPT ![local[c].ask] = @ + 1]
  BY DEF ChildExecutes, storeVars
<1>3. \A d \in Calls \ {c} : local'[d] = local[d]
  BY <1>1, ExecutesCopies
<1>4. \A k \in approved : k \in Asks /\ ran[k] \in Nat /\ (ran'[k] = 0 => ran[k] = 0 /\ k # local[c].ask)
  <2> TAKE k \in approved
  <2>1. k \in Asks /\ ran \in [Asks -> Nat]
    BY <1>1, HomeAgent, SubAgentsAssumption, SMTT(40) DEF HeldInv, GrantInv, StoreType, Asks
  <2> QED BY <1>2, <2>1
<1>5. Unresolved' = Unresolved
  BY <1>2 DEF Unresolved
<1>6. ASSUME NEW k \in approved, Kept(k), ran'[k] = 0 PROVE Kept(k)'
  <2>1. Home(k)' = Home(k) /\ Recorded(Home(k))' = Recorded(Home(k))
    BY <1>2 DEF Home, Recorded
  <2>2. target[c] # Home(k)
    BY <1>2, <1>4, <1>6 DEF Kept
  <2> QED BY <1>2, <1>3, <1>5, <1>6, <2>1, <2>2 DEF Kept
<1> QED BY <1>2, <1>4, <1>6, KeptFrom

LEMMA KeptAsks == ASSUME KeptHeld, NEW c \in Calls, ChildAsks(c) PROVE KeptInv'
<1>1. HeldInv
  BY DEF KeptHeld, ForkHeld
<1>2. UNCHANGED <<tool, target, approved, terminal, paused, batch, answered, ran>> /\ stage[c] = "running" /\ local[c].ask = 0
  BY DEF ChildAsks, storeVars
<1>3. \A d \in Calls \ {c} : local'[d] = local[d] /\ stage'[d] = stage[d]
  BY <1>1, AsksCopies
<1>4. \A k \in approved : asker'[k] = asker[k] /\ k # 0
  BY <1>1, AsksCopies, HomeAgent
<1>5. Unresolved' = Unresolved
  BY <1>2 DEF Unresolved
<1>6. ASSUME NEW k \in approved, Kept(k) PROVE Kept(k)'
  <2>1. Home(k)' = Home(k) /\ Recorded(Home(k))' = Recorded(Home(k))
    BY <1>2, <1>4 DEF Home, Recorded
  <2>2. target[c] # Home(k)
    BY <1>2, <1>4, <1>6 DEF Kept
  <2> QED BY <1>2, <1>3, <1>5, <1>6, <2>1, <2>2 DEF Kept
<1> QED BY <1>2, <1>4, <1>6, KeptFrom

LEMMA KeptStillPending == ASSUME KeptHeld, NEW c \in Calls, ChildStillPending(c) PROVE KeptInv'
<1>1. HeldInv
  BY DEF KeptHeld, ForkHeld
<1>2. UNCHANGED <<tool, target, approved, asker, terminal, paused, batch, answered, ran, local>> /\ stage[c] = "running" /\ local[c].pending
  BY DEF ChildStillPending, storeVars, histVars
<1>3. \A d \in Calls \ {c} : stage'[d] = stage[d]
  BY <1>1 DEF ChildStillPending, HeldInv, GrantInv, StoreType
<1>4. local[c].ask \notin approved
  BY <1>1, <1>2 DEF HeldInv, AsksInv, Owned
<1>5. Unresolved' = Unresolved
  BY <1>2 DEF Unresolved
<1>6. ASSUME NEW k \in approved, Kept(k) PROVE Kept(k)'
  <2>1. Home(k)' = Home(k) /\ Recorded(Home(k))' = Recorded(Home(k))
    BY <1>2 DEF Home, Recorded
  <2>2. target[c] # Home(k)
    BY <1>2, <1>4, <1>6 DEF Kept
  <2> QED BY <1>2, <1>3, <1>5, <1>6, <2>1, <2>2 DEF Kept
<1> QED BY <1>2, <1>6, KeptFrom

\* A run that failed before it executed the call leaves it in the terminal state.
LEMMA KeptEnds == ASSUME KeptHeld, NEW c \in Calls, ChildEnds(c) PROVE KeptInv'
<1>1. HeldInv /\ ForkInv
  BY DEF KeptHeld, ForkHeld
<1>2. UNCHANGED <<tool, target, approved, asker, ran, paused, batch, answered, local>> /\ stage[c] = "running" /\ stage'[c] = "done" /\ c \in Unresolved
  BY <1>1, EndsFacts
<1>3. \A d \in Calls \ {c} : stage'[d] = stage[d]
  BY <1>1, EndsFacts
<1>4. Unresolved' = Unresolved /\ tool \in {"specialists", "forking"}
  BY <1>1, <1>2 DEF Unresolved, HeldInv, CallsInv
<1>5. ASSUME NEW k \in approved, Kept(k) PROVE Kept(k)'
  <2>1. Home(k) \in Calls /\ Home(k)' = Home(k) /\ target[Home(k)] = Home(k) /\ k # 0
    BY <1>1, <1>2, HomeAgent DEF Home
  <2>2. CASE target[c] = Home(k)
    <3>1. local[c].ask = k
      BY <1>2, <1>5, <2>2 DEF Kept
    <3>2. terminal'[Home(k)].state.ask = k
      BY <1>1, <2>1, <2>2, <3>1, EndsFacts
    <3>3. paused[Home(k)].ask = k => tool = "specialists" \/ Home(k) \in Unresolved \/ (terminal'[Home(k)].state.ask = k /\ Home(k) \notin Unresolved)
      BY <3>2
    <3>4. \A d \in Calls : target'[d] = Home(k) =>
            /\ stage'[d] = "running" => local'[d].ask = k
            /\ stage'[d] # "paused"
      BY <1>2, <1>3, <1>5 DEF Kept
    <3>5. \/ paused'[Home(k)].ask = k /\ (tool' = "specialists" \/ Home(k) \in Unresolved')
          \/ terminal'[Home(k)].state.ask = k /\ Home(k) \notin Unresolved' /\ (tool' = "forking" \/ paused'[Home(k)] = Absent)
      BY <1>2, <1>4, <1>5, <3>2 DEF Kept
    <3> QED BY <2>1, <3>2, <3>4, <3>5 DEF Kept
  <2>3. CASE target[c] # Home(k)
    <3>1. terminal'[Home(k)].state = terminal[Home(k)].state
      BY <1>1, <2>1, <2>3, EndsFacts
    <3>2. Recorded(Home(k))' = Recorded(Home(k))
      BY <2>1, <3>1 DEF Recorded
    <3> QED BY <1>2, <1>3, <1>4, <1>5, <2>1, <2>3, <3>1, <3>2 DEF Kept
  <2> QED BY <2>2, <2>3
<1> QED BY <1>2, <1>5, KeptFrom

\* The decision is about a paused state of the agent that asked; what was granted before
\* is in states that wait for nothing.
LEMMA KeptDecide == ASSUME KeptHeld, NEW k \in Asks, NEW ok \in BOOLEAN, Decide(k, ok) PROVE KeptInv'
<1>1. HeldInv /\ ForkInv
  BY DEF KeptHeld, ForkHeld
<1>2. UNCHANGED <<tool, target, asker, ran, batch, answered, stage, local>> /\ approved' = IF ok THEN approved \cup {k} ELSE approved
  BY DEF Decide, runVars
<1>3. \A c \in Calls : stage[c] = "none"
  BY <1>1 DEF Decide, HeldInv, GrantInv, StoreType
<1>4. \A a \in Calls : terminal'[a].state = terminal[a].state /\ paused'[a] = DecidedIn(paused[a], k, ok) /\ paused[a] \in Child
  BY <1>1, DecideCopies DEF HeldInv, GrantInv, ChildrenInv
<1>5. Unresolved' = Unresolved
  BY <1>2 DEF Unresolved
<1>6. PICK b \in Calls : paused[b].ask = k /\ paused[b].pending
  BY <1>1, DecideCopies
<1>7. ASSUME NEW j \in approved, Kept(j) PROVE Kept(j)'
  <2>1. Home(j) \in Calls /\ Home(j)' = Home(j) /\ Recorded(Home(j))' = Recorded(Home(j)) /\ j # 0
    BY <1>1, <1>2, <1>4, HomeAgent DEF Home, Recorded
  <2>2. paused[Home(j)].ask = j => ~paused[Home(j)].pending
    BY <1>1, <2>1 DEF HeldInv, AsksInv, Owned
  <2>3. paused[Home(j)].ask = j => paused'[Home(j)] = paused[Home(j)]
    BY <1>4, <2>1, <2>2, DecidedElse
  <2>4. paused[Home(j)] = Absent => paused'[Home(j)] = Absent
    BY <1>1, <2>1, DecideCopies
  <2> QED BY <1>2, <1>3, <1>4, <1>5, <1>7, <2>1, <2>3, <2>4 DEF Kept
<1>8. ASSUME ok, Looked(k) PROVE Kept(k)'
  <2>1. Home(k) = b /\ k # 0
    BY <1>1, <1>6 DEF HeldInv, AsksInv, Owned, Home
  <2>2. tool = "specialists" \/ ~Recorded(b)
    <3>1. CASE asker[k] = b
      BY <1>1, <1>6, <3>1 DEF ForkInv, HeldInv, CallsInv
    <3> QED BY <1>8, <2>1, <3>1 DEF Looked, NewChild, Agent, Home
  <2>3. paused'[b].ask = k
    <3>1. \A s \in Child : s.ask = k /\ s.pending => DecidedIn(s, k, TRUE).ask = k
      BY DecidedNow
    <3>2. paused'[b] = DecidedIn(paused[b], k, TRUE)
      BY <1>4, <1>8
    <3> QED BY <1>4, <1>6, <3>1, <3>2
  <2>4. Home(k)' = b /\ Recorded(b)' = Recorded(b)
    BY <1>2, <1>4, <2>1 DEF Home, Recorded
  <2> QED BY <1>2, <1>3, <2>2, <2>3, <2>4 DEF Kept
<1> SUFFICES ASSUME NEW j \in approved', Looked(j)', ran'[j] = 0 PROVE Kept(j)'
  BY DEF KeptInv
<1>9. Looked(j) /\ ran[j] = 0
  BY <1>2 DEF Looked, NewChild, Agent
<1>10. CASE j \in approved
  BY <1>7, <1>9, <1>10 DEF KeptHeld, KeptInv
<1>11. CASE j \notin approved
  BY <1>2, <1>8, <1>9, <1>11
<1> QED BY <1>10, <1>11

-----------------------------------------------------------------------------

LEMMA InitKept == Init => KeptHeld
<1> SUFFICES ASSUME Init PROVE KeptHeld
  OBVIOUS
<1>1. ForkInv
  BY AbsentFields DEF Init, ForkInv, Recorded
<1>2. KeptInv
  BY DEF Init, KeptInv
<1> QED BY <1>1, <1>2, InitHeld DEF KeptHeld, ForkHeld

LEMMA StepKept == KeptHeld /\ [Next]_vars => KeptHeld'
<1> SUFFICES ASSUME KeptHeld, [Next]_vars PROVE KeptHeld'
  OBVIOUS
<1>1. ForkHeld'
  BY StepFork DEF KeptHeld
<1>2. KeptInv'
  <2>1. CASE UNCHANGED vars
    BY <2>1 DEF vars, storeVars, runVars, histVars, KeptHeld, KeptInv, Kept, Looked, NewChild, Agent, Home, Recorded, Unresolved
  <2>2. CASE StartRun \/ ParentStep \/ ParentFails
    BY <2>2, KeptParent, KeptNewCalls, KeptSettle, KeptVisit DEF ParentStep
  <2>3. ASSUME NEW c \in Calls, ChildStep(c) PROVE KeptInv'
    BY <2>3, KeptStart, KeptStillPending, KeptExecutes, KeptAsks, KeptEnds DEF ChildStep
  <2>4. CASE CallerDecides
    BY <2>4, KeptDecide DEF CallerDecides
  <2> QED BY <2>1, <2>2, <2>3, <2>4 DEF Next
<1> QED BY <1>1, <1>2 DEF KeptHeld

\* An approval that was granted is carried out or stays in a state that a later run reads
\* (unless a forking tool had resumed the child by its agent_id), however many runs of the
\* parent and of its children pause, fail or end in between.
THEOREM GrantNotLost == Spec => []ApprovalNotLost
<1>1. KeptHeld => ApprovalNotLost
  <2> SUFFICES ASSUME KeptHeld, NEW k \in approved, Looked(k) PROVE ran[k] > 0 \/ Held(k)
    BY DEF ApprovalNotLost, Looked
  <2>1. HeldInv /\ Home(k) \in Calls /\ ran[k] \in Nat
    BY HomeAgent, SubAgentsAssumption DEF KeptHeld, ForkHeld, HeldInv, GrantInv, StoreType, Asks
  <2>2. CASE ran[k] = 0
    <3>1. Kept(k)
      BY <2>2 DEF KeptHeld, KeptInv
    <3>2. k \in {paused[Home(k)].ask, terminal[Home(k)].state.ask}
      BY <3>1 DEF Kept
    <3> QED BY <2>1, <3>2 DEF Held
  <2> QED BY <2>1, <2>2
<1> QED BY <1>1, InitKept, StepKept, PTL DEF Spec

-----------------------------------------------------------------------------
(* A granted call runs once: while no two calls of a message address one   *)
(* agent and no run of the parent fails, the agent has one run at a time,  *)
(* and its paused state is dropped when that run ends.                     *)

Alone == tool = "specialists" /\ crossed = {} /\ failures = 0

Quiet(a) == \A c \in Calls : target[c] = a => stage[c] = "none"

\* Where the call is still to be executed, it has been no oftener than runs left no record.
Once(k) ==
  /\ ran[k] <= 1 + unrecorded
  /\ \A c \in Calls : local[c].ask = k /\ stage[c] # "done" => ran[k] <= unrecorded
  /\ paused[Home(k)].ask = k /\ Quiet(Home(k)) => ran[k] <= unrecorded
  /\ terminal[Home(k)].state.ask = k /\ paused[Home(k)] = Absent /\ Quiet(Home(k)) => ran[k] <= unrecorded
  /\ \A c \in Calls : stage[c] = "done" /\ target[c] = Home(k) /\ terminal[Home(k)].state.ask = k => ran[k] <= unrecorded

OnceInv ==
  Alone =>
    /\ \A k \in 1..asked : Once(k)
    /\ \A c, d \in batch : target[c] = target[d] => c = d
    /\ \A a \in Calls : paused[a] # Absent => \E c \in entries : target[c] = a

OnceHeld == HeldInv /\ OnceInv

LEMMA HomeOf ==
  ASSUME HeldInv, NEW k \in 1..asked
  PROVE  k # 0 /\ k \in Asks /\ ran[k] \in Nat /\ asker[k] \in 1..issued /\ Home(k) \in 1..issued /\ Home(k) \in Calls
<1>1. k # 0 /\ k \in Asks /\ ran[k] \in Nat
  BY SubAgentsAssumption DEF HeldInv, GrantInv, StoreType, Asks
<1>2. asker[k] \in 1..issued /\ 1..issued \subseteq Calls
  BY SubAgentsAssumption DEF HeldInv, CallsInv, Calls
<1> QED BY <1>1, <1>2 DEF Home, HeldInv, CallsInv

LEMMA OneRun ==
  ASSUME OnceHeld, Alone, NEW c \in Calls, NEW d \in Calls, stage[c] # "none", stage[d] # "none", target[c] = target[d]
  PROVE  c = d
<1>1. c \in batch /\ d \in batch
  BY DEF OnceHeld, HeldInv, GrantInv, StoreType
<1> QED BY <1>1 DEF OnceHeld, OnceInv

LEMMA OnceParent ==
  ASSUME OnceHeld, StartRun \/ ModelAnswers \/ ParentFails \/ PreambleEnds
  PROVE  OnceInv'
<1> USE DEF Finish, storeVars, histVars
<1>1. CASE ParentFails
  <2>1. failures' # 0
    BY <1>1 DEF ParentFails, OnceHeld, HeldInv, CallsInv
  <2> QED BY <2>1 DEF OnceInv, Alone
<1>2. CASE ~ParentFails
  <2>1. \A c \in Calls : stage[c] = "none" /\ local[c] = Absent
    BY <1>2 DEF StartRun, ModelAnswers, PreambleEnds, OnceHeld, HeldInv, GrantInv, StoreType, AsksInv
  <2>2. /\ UNCHANGED <<tool, target, paused, terminal, asker, asked, ran, unrecorded, crossed, failures>> /\ batch' \in {batch, {}}
        /\ \A c \in Calls : stage'[c] = "none" /\ local'[c] = Absent
    BY <1>2, <2>1 DEF StartRun, ModelAnswers, PreambleEnds
  <2>3. entries' = entries
    BY <1>2 DEF StartRun, ModelAnswers, PreambleEnds, OnceHeld, HeldInv, CallsInv
  <2>4. Alone' = Alone /\ \A a : Quiet(a)' = Quiet(a)
    BY <2>1, <2>2 DEF Alone, Quiet
  <2>5. \A k \in 1..asked : Once(k) => Once(k)'
    BY <2>1, <2>2 DEF Once, Home, Quiet
  <2> QED BY <2>2, <2>3, <2>4, <2>5 DEF OnceHeld, OnceInv
<1> QED BY <1>1, <1>2

LEMMA OnceNewCalls == ASSUME OnceHeld, NEW n \in 1..MaxCalls, ModelCallsTool(n) PROVE OnceInv'
<1>1. HeldInv /\ GrantInv /\ CallsInv
  BY DEF OnceHeld, HeldInv
<1>2. UNCHANGED <<tool, paused, terminal, asker, asked, ran, unrecorded, failures, entries, stage, local>> /\ entries = {}
  BY <1>1 DEF ModelCallsTool, CallsInv
<1>3. \A c \in Calls : stage[c] = "none"
  BY <1>1, NewCalls
<1>4. Alone' => Alone /\ \A c, d \in batch' : target'[c] = target'[d] => c = d
  <2>1. PICK t \in [batch' -> 1..issued'] :
          /\ target' = [c \in Calls |-> IF c \in batch' THEN t[c] ELSE target[c]]
          /\ crossed' = crossed \cup {a \in Calls : \E c, d \in batch' : c # d /\ t[c] = a /\ t[d] = a}
    BY DEF ModelCallsTool
  <2>2. 1..issued' \subseteq Calls /\ batch' \subseteq 1..issued'
    <3>1. issued' \in 0..MaxCalls /\ batch' \subseteq 1..issued'
      BY <1>1, NewCalls
    <3> QED BY <3>1, SubAgentsAssumption DEF Calls
  <2>3. ASSUME crossed' = {}, NEW c \in batch', NEW d \in batch', target'[c] = target'[d] PROVE c = d
    <3>1. t[c] = t[d] /\ t[c] \in Calls
      BY <2>1, <2>2, <2>3
    <3> QED BY <2>1, <2>3, <3>1
  <2> QED BY <1>2, <2>1, <2>3 DEF Alone
<1>5. \A k \in 1..asked : Home(k)' = Home(k)
  <2> TAKE k \in 1..asked
  <2>1. asker[k] \in 1..issued
    BY <1>1, HomeOf
  <2>2. target'[asker[k]] = target[asker[k]]
    BY <1>1, <2>1, NewCalls
  <2> QED BY <1>2, <2>2 DEF Home
<1>6. \A a : Quiet(a) /\ Quiet(a)'
  BY <1>2, <1>3 DEF Quiet
<1>7. \A k \in 1..asked : Once(k) => Once(k)'
  BY <1>2, <1>3, <1>5, <1>6 DEF Once
<1> QED BY <1>2, <1>4, <1>7 DEF OnceHeld, OnceInv

LEMMA OnceSettle == ASSUME OnceHeld, ToolsSettle PROVE OnceInv'
<1> SUFFICES ASSUME Alone PROVE OnceInv'
  BY SettleFacts DEF OnceHeld, OnceInv, Alone
<1>1. HeldInv /\ OnceInv
  BY DEF OnceHeld
<1>2. /\ UNCHANGED <<tool, target, batch, terminal, asker, asked, ran, crossed, failures, unrecorded>> /\ entries = {} /\ entries' = Paused
      /\ \A c \in Calls : stage'[c] = "none" /\ local'[c] = Absent
      /\ \A c \in batch : stage[c] \in {"paused", "done"}
  BY <1>1, SettleFacts
<1>3. \A a \in Calls : paused[a] = Absent
  BY <1>1, <1>2 DEF OnceInv
<1>4. \A a \in Calls : \/ paused'[a] = Absent /\ \A c \in Paused : target[c] # a
                       \/ \E c \in Paused : target[c] = a /\ paused'[a] = local[c] /\ local[c].heard # <<>>
  <2>1. \A c \in Paused : c \in Calls /\ local[c].heard # <<>>
    BY <1>1 DEF Paused, HeldInv, GrantInv, StoreType, AsksInv
  <2> QED BY <1>1, <1>3, <2>1, SettleFacts
<1>5. ASSUME NEW k \in 1..asked, Once(k) PROVE Once(k)'
  <2>1. Home(k)' = Home(k) /\ Home(k) \in Calls /\ k # 0
    BY <1>1, <1>2, HomeOf DEF Home
  <2>2. ran[k] <= 1 + unrecorded
    BY <1>5 DEF Once
  <2>3. paused'[Home(k)].ask = k => ran[k] <= unrecorded
    <3>1. \A c \in Paused : c \in Calls /\ stage[c] # "done"
      BY <1>1 DEF Paused, HeldInv, GrantInv, StoreType
    <3> QED BY <1>4, <1>5, <2>1, <3>1, AbsentFields DEF Once
  <2>4. terminal[Home(k)].state.ask = k /\ paused'[Home(k)] = Absent => ran[k] <= unrecorded
    <3> HAVE terminal[Home(k)].state.ask = k /\ paused'[Home(k)] = Absent
    <3>1. \A c \in Paused : target[c] # Home(k)
      BY <1>4, <2>1, AbsentFields
    <3>2. CASE Quiet(Home(k))
      BY <1>3, <1>5, <2>1, <3>2 DEF Once
    <3>3. CASE ~Quiet(Home(k))
      <4>1. PICK c \in Calls : target[c] = Home(k) /\ stage[c] # "none"
        BY <3>3 DEF Quiet
      <4>2. c \in batch
        BY <1>1, <4>1 DEF HeldInv, GrantInv, StoreType
      <4>3. stage[c] = "done"
        BY <1>2, <3>1, <4>1, <4>2 DEF Paused
      <4> QED BY <1>5, <4>1, <4>3 DEF Once
    <3> QED BY <3>2, <3>3
  <2> QED BY <1>2, <2>1, <2>2, <2>3, <2>4, AbsentFields DEF Once
<1>6. \A a \in Calls : paused'[a] # Absent => \E c \in entries' : target'[c] = a
  BY <1>2, <1>4
<1>7. \A k \in 1..asked : Once(k)
  BY <1>1 DEF OnceInv
<1> QED BY <1>1, <1>2, <1>5, <1>6, <1>7 DEF OnceInv, Alone

LEMMA OnceVisit == ASSUME OnceHeld, NEW c \in Calls, PreambleVisits(c) PROVE OnceInv'
<1> SUFFICES ASSUME Alone PROVE OnceInv'
  BY VisitFacts DEF OnceHeld, OnceInv, Alone
<1>1. HeldInv /\ OnceInv
  BY DEF OnceHeld
<1>2. /\ UNCHANGED <<tool, target, batch, terminal, asker, asked, ran, crossed, failures, unrecorded>> /\ ~plain
      /\ c \in batch /\ c \in Unresolved /\ target[c] \in Calls /\ phase = "preamble"
  BY <1>1, VisitFacts DEF HeldInv, CallsInv, Alone
<1>3. \A d \in Calls : (d = c /\ stage'[d] = "none" /\ local'[d] = Absent) \/ (d # c /\ stage'[d] = stage[d] /\ local'[d] = local[d])
  BY <1>1, VisitFacts
<1>4. \A d \in Calls \ {c} : target[d] = target[c] => stage[d] = "none"
  BY <1>1, OneRun, VisitFacts
<1>5. \/ stage[c] = "paused" /\ paused'[target[c]] = local[c] /\ local[c].heard # <<>> /\ entries' = entries /\ c \in entries
      \/ stage[c] = "done" /\ paused'[target[c]] = Absent /\ entries' = entries \ {c}
  <2>1. c \in entries
    BY <1>1, <1>2 DEF HeldInv, CallsInv
  <2> QED BY <1>1, <1>2, <2>1, VisitFacts DEF HeldInv, AsksInv
<1>6. \A a \in Calls \ {target[c]} : paused'[a] = paused[a]
  BY <1>1, VisitFacts
<1>7. ASSUME NEW k \in 1..asked, Once(k) PROVE Once(k)'
  <2>1. Home(k)' = Home(k) /\ Home(k) \in Calls /\ k # 0
    BY <1>1, <1>2, HomeOf DEF Home
  <2>2. CASE Home(k) # target[c]
    <3>1. Quiet(Home(k))' <=> Quiet(Home(k))
      BY <1>2, <1>3, <2>1, <2>2 DEF Quiet
    <3>2. paused'[Home(k)] = paused[Home(k)]
      BY <1>6, <2>1, <2>2
    <3> QED BY <1>2, <1>3, <1>7, <2>1, <2>2, <3>1, <3>2, AbsentFields DEF Once
  <2>3. CASE Home(k) = target[c]
    <3>1. paused'[Home(k)].ask = k => ran[k] <= unrecorded
      <4>1. CASE stage[c] = "paused" /\ paused'[Home(k)] = local[c]
        BY <1>7, <4>1 DEF Once
      <4>2. CASE paused'[Home(k)] = Absent
        BY <2>1, <4>2, AbsentFields
      <4> QED BY <1>5, <2>3, <4>1, <4>2
    <3>2. terminal[Home(k)].state.ask = k /\ paused'[Home(k)] = Absent => ran[k] <= unrecorded
      <4>1. CASE stage[c] = "done"
        BY <1>7, <2>3, <4>1 DEF Once
      <4>2. CASE paused'[Home(k)] = local[c] /\ local[c].heard # <<>>
        BY <4>2, AbsentFields
      <4> QED BY <1>5, <2>3, <4>1, <4>2
    <3>3. \A d \in Calls : local'[d].ask = k /\ stage'[d] # "done" => ran[k] <= unrecorded
      BY <1>3, <1>7, <2>1, AbsentFields DEF Once
    <3>4. \A d \in Calls : stage'[d] = "done" /\ target'[d] = Home(k) /\ terminal'[Home(k)].state.ask = k => ran[k] <= unrecorded
      BY <1>2, <1>3, <1>7 DEF Once
    <3>5. ran[k] <= 1 + unrecorded
      BY <1>7 DEF Once
    <3> QED BY <1>2, <2>1, <3>1, <3>2, <3>3, <3>4, <3>5 DEF Once
  <2> QED BY <2>2, <2>3
<1>8. \A a \in Calls : paused'[a] # Absent => \E d \in entries' : target'[d] = a
  <2> TAKE a \in Calls
  <2> HAVE paused'[a] # Absent
  <2>1. CASE a = target[c]
    BY <1>2, <1>5, <2>1
  <2>2. CASE a # target[c]
    <3>1. PICK d \in entries : target[d] = a
      BY <1>1, <1>6, <2>2 DEF OnceInv
    <3>2. d \in entries'
      BY <1>5, <2>2, <3>1
    <3> QED BY <1>2, <3>1, <3>2
  <2> QED BY <2>1, <2>2
<1>9. \A k \in 1..asked : Once(k)
  BY <1>1 DEF OnceInv
<1> QED BY <1>1, <1>2, <1>7, <1>8, <1>9 DEF OnceInv, Alone

\* A run starts where its agent has no other.
LEMMA OnceStart == ASSUME OnceHeld, NEW c \in Calls, Start(c) PROVE OnceInv'
<1> SUFFICES ASSUME Alone PROVE OnceInv'
  BY DEF Start, storeVars, histVars, OnceHeld, OnceInv, Alone
<1>1. HeldInv /\ OnceInv /\ GrantInv
  BY DEF OnceHeld, HeldInv
<1>2. /\ UNCHANGED <<tool, target, batch, terminal, paused, asker, asked, ran, crossed, failures, unrecorded, entries>>
      /\ stage[c] = "none"
  BY DEF Start, storeVars, histVars
<1>3. c \in batch /\ Agent(c) = target[c] /\ target[c] \in Calls
  BY <1>1, InHandIsCall DEF Start, Agent
<1>4. \A d \in Calls \ {c} : local'[d] = local[d] /\ stage'[d] = stage[d]
  BY <1>1, StartCopies
<1>5. Quiet(target[c])
  <2> SUFFICES ASSUME NEW d \in Calls, target[d] = target[c], stage[d] # "none" PROVE FALSE
    BY DEF Quiet
  <2>1. d \in batch
    BY <1>1 DEF GrantInv, StoreType
  <2> QED BY <1>1, <1>2, <1>3, <2>1 DEF OnceInv
<1>6. \/ local'[c] = paused[target[c]] /\ stage'[c] = "running"
      \/ local'[c].ask = 0 /\ stage'[c] = "running"
      \/ local'[c].ask = terminal[target[c]].state.ask /\ paused[target[c]] = Absent /\ stage'[c] = "running"
      \/ terminal[target[c]].state = Absent /\ local'[c] = local[c] /\ stage'[c] = "done"
  <2>1. CASE FromPaused(c)
    BY <1>1, <1>3, <2>1, StartCopies
  <2>2. CASE ~FromPaused(c) /\ NewChild(c)
    BY <1>1, <2>2, StartCopies, FreshFields
  <2>3. CASE ~FromPaused(c) /\ ~NewChild(c) /\ Resumable(c)
    <3>1. local'[c] = Continued(c) /\ stage'[c] = "running" /\ paused[target[c]] = Absent
      BY <1>1, <1>3, <2>3, StartCopies DEF FromPaused, Alone
    <3>2. terminal[target[c]].state \in Child
      BY <1>1, <1>3 DEF GrantInv, ChildrenInv
    <3> QED BY <1>3, <3>1, <3>2, PromptedFields DEF Continued
  <2>4. CASE ~FromPaused(c) /\ ~NewChild(c) /\ ~Resumable(c)
    BY <1>1, <1>3, <2>4, StartCopies DEF Resumable
  <2> QED BY <2>1, <2>2, <2>3, <2>4
<1>7. local[c] = Absent
  BY <1>1, <1>2 DEF HeldInv, AsksInv
<1>8. ASSUME NEW k \in 1..asked, Once(k) PROVE Once(k)'
  <2>1. Home(k)' = Home(k) /\ Home(k) \in Calls /\ k # 0
    BY <1>1, <1>2, HomeOf DEF Home
  <2>2. Quiet(Home(k))' => Quiet(Home(k))
    BY <1>2, <1>4, <2>1 DEF Quiet
  <2>3. local'[c].ask = k /\ stage'[c] # "done" => ran[k] <= unrecorded
    <3> HAVE local'[c].ask = k /\ stage'[c] # "done"
    <3>1. paused[target[c]].ask = k \/ (terminal[target[c]].state.ask = k /\ paused[target[c]] = Absent)
      BY <1>6, <2>1
    <3>2. target[c] = Home(k)
      BY <1>1, <1>3, <2>1, <3>1 DEF HeldInv, AsksInv, Owned, Home
    <3> QED BY <1>5, <1>8, <3>1, <3>2 DEF Once
  <2>4. stage'[c] = "done" /\ target[c] = Home(k) => terminal[Home(k)].state.ask # k
    BY <1>6, <2>1, AbsentFields
  <2>5. \A d \in Calls : local'[d].ask = k /\ stage'[d] # "done" => ran[k] <= unrecorded
    BY <1>4, <1>8, <2>3 DEF Once
  <2>6. \A d \in Calls : stage'[d] = "done" /\ target[d] = Home(k) /\ terminal[Home(k)].state.ask = k => ran[k] <= unrecorded
    BY <1>4, <1>8, <2>4 DEF Once
  <2> QED BY <1>2, <1>8, <2>1, <2>2, <2>5, <2>6 DEF Once
<1>9. \A k \in 1..asked : Once(k)
  BY <1>1 DEF OnceInv
<1> QED BY <1>1, <1>2, <1>8, <1>9 DEF OnceInv, Alone

LEMMA OnceExecutes == ASSUME OnceHeld, NEW c \in Calls, ChildExecutes(c) PROVE OnceInv'
<1> SUFFICES ASSUME Alone PROVE OnceInv'
  BY DEF ChildExecutes, OnceHeld, OnceInv, Alone, storeVars
<1>1. HeldInv /\ OnceInv
  BY DEF OnceHeld
<1>2. /\ UNCHANGED <<tool, target, batch, terminal, paused, asker, asked, crossed, failures, unrecorded, entries, stage>>
      /\ stage[c] = "running" /\ ran' = [ran EXCEPT ![local[c].ask] = @ + 1] /\ local[c].ask # 0
  BY DEF ChildExecutes, storeVars
<1>3. local'[c].ask = 0 /\ \A d \in Calls \ {c} : local'[d] = local[d]
  BY <1>1, ExecutesCopies
<1>4. target[c] \in Calls
  BY <1>1, <1>2, ActiveOpen DEF HeldInv, Agent
<1>5. ASSUME NEW k \in 1..asked, Once(k) PROVE Once(k)'
  <2>1. Home(k)' = Home(k) /\ Home(k) \in Calls /\ k # 0 /\ k \in Asks /\ ran[k] \in Nat /\ unrecorded \in Nat
    BY <1>1, <1>2, HomeOf DEF Home, HeldInv, CallsInv
  <2>2. Quiet(Home(k))' = Quiet(Home(k))
    BY <1>2, <2>1 DEF Quiet
  <2>3. CASE k = local[c].ask
    <3>1. target[c] = Home(k) /\ ran[k] <= unrecorded /\ ran'[k] = ran[k] + 1
      BY <1>1, <1>2, <1>5, <2>1, <2>3 DEF HeldInv, AsksInv, Owned, Home, Once, GrantInv, StoreType
    <3>2. ~Quiet(Home(k))
      BY <1>2, <3>1 DEF Quiet
    <3>3. \A d \in Calls : stage[d] = "done" => target[d] # Home(k)
      BY <1>1, <1>2, <3>1, OneRun
    <3>4. \A d \in Calls : local'[d].ask = k => stage[d] \notin {"running", "paused"}
      <4> TAKE d \in Calls
      <4> HAVE local'[d].ask = k
      <4>1. d # c /\ local[d].ask = k
        BY <1>3, <2>1
      <4>2. target[d] = Home(k)
        BY <1>1, <2>1, <4>1 DEF HeldInv, AsksInv, Owned, Home
      <4> QED BY <1>1, <1>2, <3>1, <4>1, <4>2, OneRun
    <3>5. \A d \in Calls : local'[d].ask = k => stage[d] # "none"
      BY <1>1, <1>2, <1>3, <2>1, AbsentFields DEF HeldInv, AsksInv
    <3>6. \A d \in Calls : stage[d] \in {"none", "running", "paused", "done"}
      BY <1>1 DEF HeldInv, CallsInv
    <3> QED BY <1>2, <2>1, <2>2, <3>1, <3>2, <3>3, <3>4, <3>5, <3>6 DEF Once
  <2>4. CASE k # local[c].ask
    <3>1. ran'[k] = ran[k]
      BY <1>1, <1>2, <2>1, <2>4 DEF HeldInv, GrantInv, StoreType
    <3> QED BY <1>2, <1>3, <1>5, <2>1, <2>2, <3>1 DEF Once
  <2> QED BY <2>3, <2>4
<1>6. \A k \in 1..asked : Once(k)
  BY <1>1 DEF OnceInv
<1> QED BY <1>1, <1>2, <1>5, <1>6 DEF OnceInv, Alone

LEMMA OnceAsks == ASSUME OnceHeld, NEW c \in Calls, ChildAsks(c) PROVE OnceInv'
<1> SUFFICES ASSUME Alone PROVE OnceInv'
  BY DEF ChildAsks, OnceHeld, OnceInv, Alone, storeVars
<1>1. HeldInv /\ OnceInv
  BY DEF OnceHeld
<1>2. /\ UNCHANGED <<tool, target, batch, terminal, paused, crossed, failures, unrecorded, entries, ran>>
      /\ stage[c] = "running" /\ stage'[c] = "paused"
  BY DEF ChildAsks, storeVars, OnceHeld, HeldInv, GrantInv, StoreType
<1>3. \A d \in Calls \ {c} : local'[d] = local[d] /\ stage'[d] = stage[d]
  BY <1>1, AsksCopies
<1>4. asked \in Nat /\ asked' = asked + 1 /\ asked' \in Asks /\ local'[c].ask = asked' /\ \A k \in 1..asked : asker'[k] = asker[k]
  <2>1. asked \in Nat
    BY <1>1 DEF HeldInv, GrantInv, StoreType
  <2>2. asked' = asked + 1 /\ asked' \in Asks /\ local'[c].ask = asked' /\ \A k \in 1..asked : asker'[k] = asker[k]
    BY <1>1, AsksCopies
  <2> QED BY <2>1, <2>2
<1>5. \A a : Quiet(a)' => Quiet(a)
  BY <1>2, <1>3 DEF Quiet
<1>6. ASSUME NEW k \in 1..asked, Once(k) PROVE Once(k)'
  <2>1. Home(k)' = Home(k) /\ k # asked'
    BY <1>2, <1>4 DEF Home
  <2>2. \A d \in Calls : local'[d].ask = k /\ stage'[d] # "done" => ran[k] <= unrecorded
    BY <1>3, <1>4, <1>6, <2>1 DEF Once
  <2>3. \A d \in Calls : stage'[d] = "done" => stage[d] = "done"
    BY <1>2, <1>3
  <2> QED BY <1>2, <1>5, <1>6, <2>1, <2>2, <2>3 DEF Once
<1>7. ASSUME NEW k, k = asked' PROVE Once(k)'
  <2>1. k \notin approved /\ unrecorded \in Nat /\ k \in Asks
    BY <1>1, <1>4, <1>7 DEF HeldInv, CallsInv
  <2>2. ran'[k] = 0
    <3>1. ran \in [Asks -> Nat] /\ OnlyGrantedRuns
      BY <1>1 DEF HeldInv, GrantInv, StoreType
    <3>2. ran[k] \in Nat /\ ~(ran[k] > 0)
      BY <2>1, <3>1 DEF OnlyGrantedRuns
    <3> QED BY <1>2, <3>2
  <2>3. unrecorded' = unrecorded /\ ran'[k] <= 1 + unrecorded /\ ran'[k] <= unrecorded
    BY <1>2, <2>1, <2>2
  <2> QED BY <2>3 DEF Once
<1>8. \A k \in 1..asked' : k \in 1..asked \/ k = asked'
  BY <1>4
<1>9. \A k \in 1..asked : Once(k)
  BY <1>1 DEF OnceInv
<1> QED BY <1>1, <1>2, <1>6, <1>7, <1>8, <1>9 DEF OnceInv, Alone

LEMMA OnceStillPending == ASSUME OnceHeld, NEW c \in Calls, ChildStillPending(c) PROVE OnceInv'
<1>1. /\ UNCHANGED <<tool, target, batch, terminal, paused, crossed, failures, unrecorded, entries, ran, local, asked, asker>>
      /\ stage[c] = "running" /\ stage'[c] = "paused" /\ \A d \in Calls \ {c} : stage'[d] = stage[d]
  BY DEF ChildStillPending, storeVars, histVars, OnceHeld, HeldInv, GrantInv, StoreType
<1>2. \A a : Quiet(a)' => Quiet(a)
  BY <1>1 DEF Quiet
<1>3. \A d \in Calls : (stage'[d] = "done" <=> stage[d] = "done")
  BY <1>1
<1>4. \A k \in 1..asked : Once(k) => Once(k)'
  BY <1>1, <1>2, <1>3 DEF Once, Home
<1> QED BY <1>1, <1>4 DEF OnceHeld, OnceInv, Alone

LEMMA OnceEnds == ASSUME OnceHeld, NEW c \in Calls, ChildEnds(c) PROVE OnceInv'
<1> SUFFICES ASSUME Alone PROVE OnceInv'
  BY EndsFacts DEF OnceHeld, OnceInv, Alone
<1>1. HeldInv /\ OnceInv
  BY DEF OnceHeld
<1>2. /\ UNCHANGED <<tool, target, batch, paused, crossed, failures, entries, ran, local, asked, asker>>
      /\ stage[c] = "running" /\ stage'[c] = "done" /\ \A d \in Calls \ {c} : stage'[d] = stage[d]
  BY <1>1, EndsFacts
<1>3. \A a \in Calls \ {target[c]} : terminal'[a].state = terminal[a].state
  BY <1>1, EndsFacts
<1>4. \/ terminal'[target[c]].state = local[c] /\ unrecorded' = unrecorded
      \/ terminal'[target[c]].state = terminal[target[c]].state /\ unrecorded' = unrecorded + 1
  BY <1>1, EndsFacts
<1>5. \A a : Quiet(a)' => Quiet(a) /\ a # target[c]
  BY <1>2 DEF Quiet
<1>6. unrecorded \in Nat /\ target[c] \in Calls
  BY <1>1, EndsFacts DEF HeldInv, CallsInv
<1>7. ASSUME NEW k \in 1..asked, Once(k) PROVE Once(k)'
  <2>1. Home(k)' = Home(k) /\ Home(k) \in Calls /\ ran[k] \in Nat
    BY <1>1, <1>2, HomeOf DEF Home
  <2>2. CASE unrecorded' = unrecorded + 1
    <3>1. ran[k] <= unrecorded'
      BY <1>6, <1>7, <2>1, <2>2 DEF Once
    <3>2. ran[k] <= 1 + unrecorded'
      BY <1>6, <2>1, <2>2, <3>1
    <3> QED BY <1>2, <2>1, <3>1, <3>2 DEF Once
  <2>3. CASE terminal'[target[c]].state = local[c] /\ unrecorded' = unrecorded
    <3>1. \A d \in Calls : local'[d].ask = k /\ stage'[d] # "done" => ran[k] <= unrecorded
      BY <1>2, <1>7 DEF Once
    <3>2. paused'[Home(k)].ask = k /\ Quiet(Home(k))' => ran[k] <= unrecorded
      BY <1>2, <1>5, <1>7, <2>1 DEF Once
    <3>3. terminal'[Home(k)].state.ask = k /\ paused'[Home(k)] = Absent /\ Quiet(Home(k))' => ran[k] <= unrecorded
      BY <1>2, <1>3, <1>5, <1>7, <2>1 DEF Once
    <3>4. \A d \in Calls : stage'[d] = "done" /\ target[d] = Home(k) /\ terminal'[Home(k)].state.ask = k => ran[k] <= unrecorded
      <4>1. CASE Home(k) = target[c]
        BY <1>2, <1>7, <2>3, <4>1 DEF Once
      <4>2. CASE Home(k) # target[c]
        BY <1>2, <1>3, <1>7, <2>1, <4>2 DEF Once
      <4> QED BY <4>1, <4>2
    <3> QED BY <1>2, <1>7, <2>1, <2>3, <3>1, <3>2, <3>3, <3>4 DEF Once
  <2> QED BY <1>4, <2>2, <2>3
<1>8. \A k \in 1..asked : Once(k)
  BY <1>1 DEF OnceInv
<1> QED BY <1>1, <1>2, <1>7, <1>8 DEF OnceInv, Alone

LEMMA OnceDecide == ASSUME OnceHeld, NEW k \in Asks, NEW ok \in BOOLEAN, Decide(k, ok) PROVE OnceInv'
<1>1. HeldInv
  BY DEF OnceHeld
<1>2. UNCHANGED <<tool, target, batch, crossed, failures, unrecorded, entries, ran, local, stage, asked, asker>>
  BY DEF Decide, runVars
<1>3. \A a \in Calls : /\ terminal'[a].state = terminal[a].state
                       /\ (paused'[a] = Absent <=> paused[a] = Absent)
                       /\ paused'[a] = DecidedIn(paused[a], k, ok) /\ paused[a] \in Child
  BY <1>1, DecideCopies DEF HeldInv, GrantInv, ChildrenInv
<1>4. \A a \in Calls : paused'[a].ask \in {paused[a].ask, 0}
  <2>1. \A s \in Child : DecidedIn(s, k, ok).ask \in {s.ask, 0}
    <3> TAKE s \in Child
    <3>1. CASE s.ask = k /\ s.pending
      BY <3>1, DecidedNow
    <3>2. CASE ~(s.ask = k /\ s.pending)
      BY <3>2, DecidedElse
    <3> QED BY <3>1, <3>2
  <2> QED BY <1>3, <2>1
<1>5. ASSUME NEW j \in 1..asked, Once(j) PROVE Once(j)'
  <2>1. Home(j)' = Home(j) /\ Home(j) \in Calls /\ j # 0 /\ Quiet(Home(j))' = Quiet(Home(j))
    BY <1>1, <1>2, HomeOf DEF Home, Quiet
  <2>2. paused'[Home(j)].ask = j => paused[Home(j)].ask = j
    BY <1>4, <2>1
  <2> QED BY <1>2, <1>3, <1>5, <2>1, <2>2 DEF Once
<1> QED BY <1>2, <1>3, <1>5 DEF OnceHeld, OnceInv, Alone

-----------------------------------------------------------------------------

LEMMA StepOnce == OnceHeld /\ [Next]_vars => OnceHeld'
<1> SUFFICES ASSUME OnceHeld, [Next]_vars PROVE OnceHeld'
  OBVIOUS
<1>1. HeldInv'
  BY StepHeld DEF OnceHeld
<1>2. OnceInv'
  <2>1. CASE UNCHANGED vars
    BY <2>1 DEF vars, storeVars, runVars, histVars, OnceHeld, OnceInv, Once, Alone, Quiet, Home
  <2>2. CASE StartRun \/ ParentStep \/ ParentFails
    BY <2>2, OnceParent, OnceNewCalls, OnceSettle, OnceVisit DEF ParentStep
  <2>3. ASSUME NEW c \in Calls, ChildStep(c) PROVE OnceInv'
    BY <2>3, OnceStart, OnceStillPending, OnceExecutes, OnceAsks, OnceEnds DEF ChildStep
  <2>4. CASE CallerDecides
    BY <2>4, OnceDecide DEF CallerDecides
  <2> QED BY <2>1, <2>2, <2>3, <2>4 DEF Next
<1> QED BY <1>1, <1>2 DEF OnceHeld

\* A call of a sub-agent that waited for an approval runs only when it was granted and, in a
\* conversation none of whose runs failed, once plus once for every run of a child that
\* left no record, for any number of calls, approvals and runs.
THEOREM GrantedOnce == Spec => []GrantedRunsOnce
<1>1. Init => OnceHeld
  <2> SUFFICES ASSUME Init PROVE OnceHeld
    OBVIOUS
  <2>1. OnceInv
    BY DEF Init, OnceInv
  <2> QED BY <2>1, InitHeld DEF OnceHeld
<1>2. OnceHeld => GrantedRunsOnce
  <2> SUFFICES ASSUME OnceHeld PROVE GrantedRunsOnce
    OBVIOUS
  <2>1. OnlyGrantedRuns /\ unrecorded \in Nat
    BY DEF OnceHeld, HeldInv, GrantInv, CallsInv
  <2>2. ASSUME Alone, NEW k \in Asks PROVE ran[k] <= 1 + unrecorded
    <3>1. CASE k \in 1..asked
      BY <2>2, <3>1 DEF OnceHeld, OnceInv, Once
    <3>2. CASE k \notin 1..asked
      <4>1. ran[k] \in Nat /\ k \notin approved
        BY <3>2 DEF OnceHeld, HeldInv, GrantInv, StoreType, CallsInv
      <4>2. ran[k] = 0
        BY <2>1, <4>1 DEF OnlyGrantedRuns
      <4> QED BY <2>1, <4>2
    <3> QED BY <3>1, <3>2
  <2> QED BY <2>1, <2>2 DEF GrantedRunsOnce, Alone
<1> QED BY <1>1, <1>2, StepOnce, PTL DEF Spec
=============================================================================
