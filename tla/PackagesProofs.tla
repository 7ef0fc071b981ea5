------------------------- MODULE PackagesProofs -------------------------
(***************************************************************************)
(* Theorems about four packages that have little to do with each other:    *)
(* TokenUsage, for every tree of runs, every choice of models and every    *)
(* report; Release, for every list of packages and what their manifests    *)
(* say; StopConditions, for every list of conditions and any steps; and the*)
(* React view of Documents, for any two replicas and any comments, texts   *)
(* and operations on them.                                                 *)
(***************************************************************************)
EXTENDS TokenUsage, Release, StopConditions, Documents, SequenceTheorems, FiniteSetTheorems, WellFoundedInduction, TLAPS

-----------------------------------------------------------------------------
(* TokenUsage: bills add up.                                               *)

\* A usage whose figures do not exceed its prompt: what reconcile returns, and
\* what adding such usages returns. It needs no further reconciling.
Settled(u) ==
  /\ u \in [input : Nat, read : Nat, write : Nat, noCache : Nat \cup {Unknown}]
  /\ IF u.noCache = Unknown THEN u.read + u.write =< u.input
     ELSE u.read + u.write + u.noCache = u.input

Sum == [input : Nat, read : Nat, write : Nat, priced : Nat]
SumOf(u) == [input |-> u.input, read |-> u.read, write |-> u.write, priced |-> pricedUncached(u)]
Usage == [input : Nat, read : Int, write : Int, noCache : Nat \cup {Unknown}]

-----------------------------------------------------------------------------
(* The arithmetic of one usage.                                            *)

\* A cap is a natural number within its limit.
LEMMA CappedBounds ==
  ASSUME NEW n \in Int, NEW limit \in Nat
  PROVE  Capped(n, limit) \in Nat /\ Capped(n, limit) =< limit
BY DEF Capped, AtMost, AtLeast0

\* A cap of what is below it changes nothing.
LEMMA CappedWithin ==
  ASSUME NEW n \in Nat, NEW limit \in Nat, n =< limit
  PROVE  Capped(n, limit) = n
BY DEF Capped, AtMost, AtLeast0

\* The figures of a snapshot partition the prompt.
LEMMA ReconcileSettles == ASSUME NEW u \in Usage PROVE Settled(reconcile(u)) /\ reconcile(u).input = u.input
<1> DEFINE uncached == IF Covers(u) THEN AtMost(u.noCache, u.input) ELSE Unknown
           rest == u.input - AtLeast0(uncached)
           read == Capped(u.read, rest)
           write == Capped(u.write, rest - read)
<1>0. u.input \in Nat /\ u.read \in Int /\ u.write \in Int /\ u.noCache \in Nat \cup {Unknown}
  BY DEF Usage
<1>1. reconcile(u) = [input |-> u.input, read |-> read, write |-> write, noCache |-> uncached]
  BY DEF reconcile
<1>2. uncached \in Nat \cup {Unknown} /\ rest \in Nat /\ rest =< u.input
  BY <1>0 DEF Covers, AtMost, AtLeast0, Unknown
<1> HIDE DEF read, write
<1>3. read \in Nat /\ read =< rest
  BY <1>0, <1>2, CappedBounds DEF read
<1>4. write \in Nat /\ write =< rest - read
  <2>1. rest - read \in Nat
    BY <1>2, <1>3
  <2> QED BY <1>0, <2>1, CappedBounds DEF write
<1>5. CASE uncached = Unknown
  <2>1. read + write =< u.input
    BY <1>0, <1>2, <1>3, <1>4
  <2> QED BY <1>0, <1>1, <1>3, <1>4, <1>5, <2>1 DEF Settled
<1>6. CASE uncached # Unknown
  <2>1. /\ Covers(u) /\ uncached \in Nat /\ rest = u.input - uncached
        /\ uncached = AtMost(u.noCache, u.input)
    BY <1>2, <1>6 DEF AtLeast0, Unknown
  <2>2. read + write = rest
    BY <1>0, <2>1 DEF read, write, Covers, Capped, AtMost, AtLeast0, Unknown
  <2>3. read + write + uncached = u.input
    BY <1>0, <1>3, <1>4, <2>1, <2>2
  <2> QED BY <1>0, <1>1, <1>3, <1>4, <1>6, <2>1, <2>3 DEF Settled
<1> QED BY <1>1, <1>5, <1>6

\* A settled usage is published as it is.
LEMMA SettledStays == ASSUME NEW u, Settled(u) PROVE reconcile(u) = u
<1>0. /\ u.input \in Nat /\ u.read \in Nat /\ u.write \in Nat /\ u.noCache \in Nat \cup {Unknown}
      /\ u = [input |-> u.input, read |-> u.read, write |-> u.write, noCache |-> u.noCache]
  BY DEF Settled
<1> DEFINE uncached == IF Covers(u) THEN AtMost(u.noCache, u.input) ELSE Unknown
           rest == u.input - AtLeast0(uncached)
<1>1. uncached = u.noCache
  BY <1>0 DEF Settled, Covers, AtMost, AtLeast0, Unknown
<1>2. rest \in Nat /\ u.read =< rest /\ rest - u.read \in Nat /\ u.write =< rest - u.read
  BY <1>0, <1>1 DEF Settled, AtLeast0, Unknown
<1>3. Capped(u.read, rest) = u.read /\ Capped(u.write, rest - u.read) = u.write
  BY <1>0, <1>2, CappedWithin
<1>4. reconcile(u) = [input |-> u.input, read |-> Capped(u.read, rest), write |-> Capped(u.write, rest - Capped(u.read, rest)),
                      noCache |-> uncached]
  BY DEF reconcile
<1> QED BY <1>0, <1>1, <1>3, <1>4

\* The sum of settled usages is settled, and priced as the two are.
LEMMA SettledAdds ==
  ASSUME NEW u, NEW v, Settled(u), Settled(v)
  PROVE  Settled(add(u, v)) /\ SumOf(add(u, v)) = PassedOn(SumOf(u), v)
<1>0. /\ u.input \in Nat /\ u.read \in Nat /\ u.write \in Nat /\ u.noCache \in Nat \cup {Unknown}
      /\ v.input \in Nat /\ v.read \in Nat /\ v.write \in Nat /\ v.noCache \in Nat \cup {Unknown}
  BY DEF Settled
<1>1. add(u, v) = [input |-> u.input + v.input, read |-> u.read + v.read, write |-> u.write + v.write,
                   noCache |-> sumOrPoison(u.noCache, v.noCache)]
  BY DEF add
<1>2. sumOrPoison(u.noCache, v.noCache) \in Nat \cup {Unknown}
  BY <1>0 DEF sumOrPoison, Unknown
<1>3. Settled(add(u, v))
  BY <1>0, <1>1, <1>2 DEF Settled, sumOrPoison, Unknown
<1>4. pricedUncached(add(u, v)) = pricedUncached(u) + pricedUncached(v)
  BY <1>0, <1>1 DEF Settled, pricedUncached, sumOrPoison, Unknown
<1> QED BY <1>1, <1>3, <1>4 DEF SumOf, PassedOn

\* Adding usages keeps their type.
LEMMA AddType == ASSUME NEW u \in Usage, NEW v \in Usage PROVE add(u, v) \in Usage
BY DEF Usage, add, sumOrPoison, Unknown

LEMMA ExtractType == ASSUME NEW u \in ModelTokenUsage PROVE extractUsage(u) \in Usage
BY DEF ModelTokenUsage, Usage, extractUsage, Unknown

LEMMA SettledType == ASSUME NEW u, Settled(u) PROVE u \in Usage
BY DEF Settled, Usage

\* Every settled usage is partitioned by its prices.
LEMMA SettledPartition == ASSUME NEW u, Settled(u) PROVE Partition(u)
BY DEF Settled, Partition, pricedUncached, Unknown

-----------------------------------------------------------------------------
(* The invariant: an accumulator holds, of the models its run does not call *)
(* itself, the settled sum of what was passed on to it.                     *)

Family == running \cup over \subseteq Runs /\ running \cap over = {}
          /\ \A r \in running : parentOf[r] \in running \cup over \cup {None}
UsageTyped == byModel \in [Runs -> [Models -> Usage]] /\ bill \in [Runs -> [Models -> Usage]]
         /\ passedOn \in [Runs -> [Models -> Sum]]
Accumulated ==
  \A r \in Runs \ over : \A m \in Models \ {modelOf[r]} :
    Settled(byModel[r][m]) /\ passedOn[r][m] = SumOf(byModel[r][m])
Published ==
  \A r \in over : \A m \in Models :
    Settled(bill[r][m]) /\ (m # modelOf[r] => passedOn[r][m] = SumOf(bill[r][m]))
UInv == Family /\ UsageTyped /\ Accumulated /\ Published

LEMMA UsageInvInit == UsageInit => UInv
<1> SUFFICES ASSUME UsageInit PROVE UInv
  OBVIOUS
<1>1. NoUsage \in Usage /\ Settled(NoUsage)
  BY DEF NoUsage, Usage, Settled, Unknown
<1>2. SumOf(NoUsage) = [input |-> 0, read |-> 0, write |-> 0, priced |-> 0] /\ SumOf(NoUsage) \in Sum
  BY DEF SumOf, Sum, NoUsage, pricedUncached, Unknown
<1>3. UsageTyped
  BY <1>1, <1>2 DEF UsageInit, UsageTyped
<1>4. Accumulated
  BY <1>1, <1>2 DEF UsageInit, Accumulated
<1> QED BY <1>3, <1>4 DEF UsageInit, UInv, Family, Published

LEMMA UsageInvStart == ASSUME UInv, NEW r \in Runs, Start(r) PROVE UInv'
<1>1. Family'
  BY DEF UInv, Family, Start
<1>2. UsageTyped' /\ Accumulated' /\ Published'
  BY DEF UInv, UsageTyped, Accumulated, Published, Start
<1> QED BY <1>1, <1>2 DEF UInv

LEMMA UsageInvCallModel == ASSUME UInv, NEW r \in Runs, CallModel(r) PROVE UInv'
<1> PICK report \in Reports : byModel' = [byModel EXCEPT ![r][modelOf[r]] = add(@, extractUsage(report))]
  BY DEF CallModel
<1>1. modelOf[r] \in Models /\ extractUsage(report) \in Usage
  BY UsageAssumption, ExtractType
<1>2. add(byModel[r][modelOf[r]], extractUsage(report)) \in Usage
  BY <1>1, AddType DEF UInv, UsageTyped
<1>3. UsageTyped'
  BY <1>1, <1>2 DEF UInv, UsageTyped, CallModel
<1>4. \A q \in Runs : \A m \in Models \ {modelOf[q]} : byModel'[q][m] = byModel[q][m]
  BY <1>1 DEF UInv, UsageTyped
<1>5. Accumulated'
  BY <1>4 DEF UInv, Accumulated, CallModel
<1>6. Family' /\ Published'
  BY DEF UInv, Family, Published, CallModel
<1> QED BY <1>3, <1>5, <1>6 DEF UInv

LEMMA UsageInvFinish == ASSUME UInv, NEW r \in Runs, Finish(r) PROVE UInv'
<1> DEFINE usage == [m \in Models |-> reconcile(byModel[r][m])]
           p == parentOf[r]
<1>1. \A m \in Models : Settled(usage[m]) /\ usage[m] \in Usage
  BY ReconcileSettles, SettledType DEF UInv, UsageTyped
<1>2. r \in running /\ r \notin over /\ p # r
  BY UsageAssumption DEF UInv, Family, Finish
<1>3. bill' = [bill EXCEPT ![r] = usage] /\ over' = over \cup {r} /\ running' = running \ {r}
  BY DEF Finish
<1>4. \A q \in Runs : byModel'[q] = IF q = p THEN [m \in Models |-> add(byModel[q][m], usage[m])] ELSE byModel[q]
  BY DEF Finish
<1>5. \A q \in Runs : passedOn'[q] = IF q = p /\ q \in running THEN [m \in Models |-> PassedOn(passedOn[q][m], usage[m])]
                                     ELSE passedOn[q]
  BY DEF Finish
<1>6. Family'
  BY <1>3 DEF UInv, Family
<1> HIDE DEF usage
<1>7. UsageTyped'
  <2>1. \A q \in Runs : byModel'[q] \in [Models -> Usage]
    <3> SUFFICES ASSUME NEW q \in Runs PROVE byModel'[q] \in [Models -> Usage]
      OBVIOUS
    <3>1. \A m \in Models : add(byModel[q][m], usage[m]) \in Usage
      BY <1>1, AddType DEF UInv, UsageTyped
    <3>2. [m \in Models |-> add(byModel[q][m], usage[m])] \in [Models -> Usage]
      BY <3>1
    <3>3. byModel[q] \in [Models -> Usage]
      BY DEF UInv, UsageTyped
    <3> QED BY <1>4, <3>2, <3>3
  <2>2. \A m \in Models : usage[m].input \in Nat /\ usage[m].read \in Nat /\ usage[m].write \in Nat /\ pricedUncached(usage[m]) \in Nat
    BY <1>1 DEF Settled, pricedUncached, Unknown
  <2>3. \A q \in Runs, m \in Models : PassedOn(passedOn[q][m], usage[m]) \in Sum
    BY <2>2 DEF UInv, UsageTyped, Sum, PassedOn
  <2>4. \A q \in Runs : passedOn'[q] \in [Models -> Sum]
    <3> SUFFICES ASSUME NEW q \in Runs PROVE passedOn'[q] \in [Models -> Sum]
      OBVIOUS
    <3>1. [m \in Models |-> PassedOn(passedOn[q][m], usage[m])] \in [Models -> Sum]
      BY <2>3
    <3>2. passedOn[q] \in [Models -> Sum]
      BY DEF UInv, UsageTyped
    <3> QED BY <1>5, <3>1, <3>2
  <2>5. usage \in [Models -> Usage]
    BY <1>1 DEF usage
  <2>6. bill' \in [Runs -> [Models -> Usage]]
    BY <1>3, <2>5 DEF UInv, UsageTyped
  <2>7. byModel' = [q \in Runs |-> byModel'[q]] /\ passedOn' = [q \in Runs |-> passedOn'[q]]
    BY DEF Finish
  <2> QED BY <2>1, <2>4, <2>6, <2>7 DEF UsageTyped
<1>8. Accumulated'
  <2> SUFFICES ASSUME NEW q \in Runs \ over', NEW m \in Models \ {modelOf[q]}
               PROVE  Settled(byModel'[q][m]) /\ passedOn'[q][m] = SumOf(byModel'[q][m])
    BY DEF Accumulated
  <2>1. q \notin over /\ Settled(byModel[q][m]) /\ passedOn[q][m] = SumOf(byModel[q][m])
    BY <1>3 DEF UInv, Accumulated
  <2>2. CASE q # p
    BY <1>4, <1>5, <2>1, <2>2
  <2>3. CASE q = p
    <3>1. q \in running
      BY <1>2, <2>1, <2>3, UsageAssumption DEF UInv, Family
    <3>2. byModel'[q][m] = add(byModel[q][m], usage[m]) /\ passedOn'[q][m] = PassedOn(passedOn[q][m], usage[m])
      BY <1>4, <1>5, <2>3, <3>1, ZenonT(40)
    <3> QED BY <1>1, <2>1, <3>2, SettledAdds
  <2> QED BY <2>2, <2>3
<1>9. Published'
  <2> SUFFICES ASSUME NEW q \in over', NEW m \in Models
               PROVE  Settled(bill'[q][m]) /\ (m # modelOf[q] => passedOn'[q][m] = SumOf(bill'[q][m]))
    BY DEF Published
  <2>0. q \in Runs
    BY <1>2, <1>3 DEF UInv, Family
  <2>1. CASE q = r
    <3>1. bill'[q] = usage
      BY <1>3, <2>0, <2>1 DEF UInv, UsageTyped
    <3>2. passedOn'[q][m] = passedOn[q][m]
      BY <1>2, <1>5, <2>1
    <3>3. m # modelOf[q] => Settled(byModel[q][m]) /\ passedOn[q][m] = SumOf(byModel[q][m])
      BY <1>2, <2>0, <2>1 DEF UInv, Accumulated
    <3>4. m # modelOf[q] => usage[m] = byModel[q][m]
      BY <2>1, <3>3, SettledStays DEF usage
    <3> QED BY <1>1, <3>1, <3>2, <3>3, <3>4
  <2>2. CASE q # r
    <3>1. q \in over /\ q \notin running
      BY <1>3, <2>2 DEF UInv, Family
    <3>2. bill'[q] = bill[q] /\ passedOn'[q] = passedOn[q]
      BY <1>3, <1>5, <2>0, <2>2, <3>1 DEF UInv, UsageTyped
    <3> QED BY <3>1, <3>2 DEF UInv, Published
  <2> QED BY <2>1, <2>2
<1> QED BY <1>6, <1>7, <1>8, <1>9 DEF UInv

LEMMA UsageInvImplies == UInv => BilledOnce
<1> SUFFICES ASSUME UInv, NEW r \in over, NEW m \in Models
             PROVE  /\ Partition(bill[r][m])
                    /\ m # modelOf[r] => passedOn[r][m] = SumOf(bill[r][m])
  BY DEF BilledOnce, SumOf
<1> QED BY SettledPartition DEF UInv, Published

\* In every tree of runs, whatever providers report and in whatever order runs
\* end, what a run publishes is priced whole and once, and of the models only
\* its sub-agents called it publishes their sum (TokenUsageAccumulator.snapshot,
\* onChildTokenUsage).
THEOREM BillsAddUp == UsageSpec => []BilledOnce
<1>1. UInv /\ [UsageNext]_usageVars => UInv'
  <2> SUFFICES ASSUME UInv, [UsageNext]_usageVars PROVE UInv'
    OBVIOUS
  <2>1. ASSUME NEW r \in Runs, Start(r) \/ CallModel(r) \/ Finish(r) PROVE UInv'
    BY <2>1, UsageInvStart, UsageInvCallModel, UsageInvFinish
  <2>2. CASE UNCHANGED usageVars
    BY <2>2 DEF usageVars, UInv, Family, UsageTyped, Accumulated, Published
  <2> QED BY <2>1, <2>2 DEF UsageNext
<1> QED BY UsageInvInit, <1>1, UsageInvImplies, PTL DEF UsageSpec

-----------------------------------------------------------------------------
(* Release: what is released can be installed.                             *)

\* What a dependency becomes in the manifest that is staged.
StagedRange(range, v) == IF range = "workspace" THEN v ELSE IF range = "catalog" THEN "some" ELSE range
Staged(e, v) == Dependency(e.field, e.name, StagedRange(e.range, v))
Kept(e) == e.field # "devDependencies" /\ ~(e.range = "workspace" /\ e.name \in Internal)
StagedManifests == {stageManifest(deps, v) : deps \in SUBSET Dependencies, v \in Versions}

\* Staging turns the dependencies that are kept into what they become, one by one.
LEMMA StageIs ==
  ASSUME NEW deps \in SUBSET Dependencies, NEW v \in Versions
  PROVE  stageManifest(deps, v) = {Staged(e, v) : e \in {x \in deps : Kept(x)}}
<1> DEFINE W(e) == IF e.range = "workspace" THEN [e EXCEPT !.range = v] ELSE e
           C(d) == IF d.range = "catalog" THEN [d EXCEPT !.range = "some"] ELSE d
           kept == {e \in Shipped(deps) : ~(e.range = "workspace" /\ e.name \in Internal)}
<1>1. v # "workspace" /\ v # "catalog"
  BY ReleaseAssumption
<1>2. ASSUME NEW e \in Dependencies PROVE C(W(e)) = Staged(e, v)
  <2>1. e.field \in STRING /\ e.name \in STRING /\ e.range \in STRING
        /\ e = [field |-> e.field, name |-> e.name, range |-> e.range]
    BY DEF Dependencies
  <2>2. W(e) = [field |-> e.field, name |-> e.name, range |-> IF e.range = "workspace" THEN v ELSE e.range]
    BY <2>1
  <2> QED BY <1>1, <2>1, <2>2 DEF Staged, StagedRange, Dependency
<1>3. kept = {x \in deps : Kept(x)} /\ kept \subseteq Dependencies
  BY DEF Shipped, Kept
<1>4. rewriteWorkspaceDeps(Shipped(deps), v) = {W(e) : e \in kept}
  BY DEF rewriteWorkspaceDeps
<1>5. stageManifest(deps, v) = {C(d) : d \in {W(e) : e \in kept}}
  BY <1>4 DEF stageManifest, rewriteCatalogDeps
<1> HIDE DEF W, C, kept
<1>6. stageManifest(deps, v) = {C(W(e)) : e \in kept}
  BY <1>5
<1>7. \A e \in kept : C(W(e)) = Staged(e, v)
  BY <1>2, <1>3
<1> QED BY <1>3, <1>6, <1>7

-----------------------------------------------------------------------------
(* The invariant.                                                          *)

Phases == {"prepare", "publish", "release", "done", "failed"}
Jobs == [phase : Phases, staged : Seq(StagedManifests), at : Nat, attempt : Nat]
Count == Len(Publishable)
Complete(v) == \A name \in Packages : Exists(name, v)

ReleaseTyped ==
  /\ DOMAIN tags \subseteq Versions /\ DOMAIN jobs = DOMAIN tags
  /\ \A v \in DOMAIN tags : tags[v] \in Manifests
  /\ \A v \in DOMAIN jobs :
       jobs[v] \in Jobs
\* What a job has staged is what its tag says, and what it has passed is published.
Staging ==
  \A v \in DOMAIN jobs : LET j == jobs[v] IN
    /\ \A i \in 1..Len(j.staged) : i \in 1..Count /\ j.staged[i] = stageManifest(tags[v][Publishable[i]], v)
    /\ j.phase = "prepare" => j.at = 1 /\ Len(j.staged) < Count
    /\ j.phase = "publish" =>
         /\ Len(j.staged) = Count /\ j.at \in 1..Count
         /\ \A i \in 1..(j.at - 1) : Exists(Publishable[i], v)
    /\ j.phase = "release" => Complete(v)
Stored ==
  \A e \in registry : /\ e.version \in DOMAIN tags /\ e.name \in Packages
                      /\ e.deps = stageManifest(tags[e.version][e.name], e.version)
Whole == \A v \in released : v \in DOMAIN tags /\ Complete(v)
RInv == ReleaseTyped /\ Staging /\ Stored /\ Whole

\* The fields of a job, and of one of which two are set.
LEMMA JobIs ==
  ASSUME NEW j \in Jobs
  PROVE  j.phase \in Phases /\ j.staged \in Seq(StagedManifests) /\ j.at \in Nat /\ j.attempt \in Nat
BY DEF Jobs

Ended(j, p) == [j EXCEPT !.phase = p, !.staged = <<>>]
Further(j, s, p) == [j EXCEPT !.staged = s, !.phase = p]
Past(j, n, p) == [j EXCEPT !.at = n, !.phase = p]

LEMMA EndedIs ==
  ASSUME NEW j \in Jobs, NEW p \in Phases
  PROVE  Ended(j, p) \in Jobs /\ Ended(j, p).phase = p /\ Ended(j, p).staged = <<>>
<1>1. \A s \in Seq(StagedManifests) : LET x == [j EXCEPT !.phase = p, !.staged = s] IN
        x \in Jobs /\ x.phase = p /\ x.staged = s
  BY DEF Jobs
<1>2. <<>> \in Seq(StagedManifests)
  OBVIOUS
<1> QED BY <1>1, <1>2 DEF Ended

LEMMA FurtherIs ==
  ASSUME NEW j \in Jobs, NEW s \in Seq(StagedManifests), NEW p \in Phases
  PROVE  /\ Further(j, s, p) \in Jobs /\ Further(j, s, p).phase = p
         /\ Further(j, s, p).staged = s /\ Further(j, s, p).at = j.at
BY DEF Jobs, Further

LEMMA PastIs ==
  ASSUME NEW j \in Jobs, NEW n \in Nat, NEW p \in Phases
  PROVE  /\ Past(j, n, p) \in Jobs /\ Past(j, n, p).phase = p
         /\ Past(j, n, p).staged = j.staged /\ Past(j, n, p).at = n
BY DEF Jobs, Past

LEMMA PackagesAre ==
  /\ Count \in Nat /\ Count > 0
  /\ \A i \in 1..Count : Publishable[i] \in Packages
  /\ \A name \in Packages : \E i \in 1..Count : name = Publishable[i]
BY ReleaseAssumption DEF Count, Packages, ToSet

\* The manifest of a package at a tag.
LEMMA ManifestType ==
  ASSUME RInv, NEW v \in DOMAIN tags, NEW p \in Packages
  PROVE  /\ v \in Versions /\ tags[v][p] \in SUBSET Dependencies
         /\ \A d \in tags[v][p] : d.name \in Workspace => d.range = "workspace"
<1>1. tags[v] \in Manifests
  BY DEF RInv, ReleaseTyped
<1>2. tags[v] \in [Packages -> SUBSET Dependencies]
  BY <1>1, ReleaseAssumption DEF Packages
<1> QED BY <1>1, <1>2, ReleaseAssumption DEF RInv, ReleaseTyped, Packages, Workspace

LEMMA ReleaseInvInit == ReleaseInit => RInv
BY DEF ReleaseInit, RInv, ReleaseTyped, Staging, Stored, Whole

LEMMA ReleaseInvPushTag == ASSUME RInv, NEW v \in Versions, PushTag(v) PROVE RInv'
<1> PICK m \in Manifests : tags' = Put(tags, v, m)
  BY DEF PushTag
<1>1. /\ v \notin DOMAIN tags /\ v \notin DOMAIN jobs
      /\ jobs' = Put(jobs, v, Job(1)) /\ registry' = registry /\ released' = released
  BY DEF PushTag, RInv, ReleaseTyped
<1>2. DOMAIN tags' = DOMAIN tags \cup {v} /\ tags'[v] = m /\ \A w \in DOMAIN tags : tags'[w] = tags[w]
  BY <1>1 DEF Put
<1>3. DOMAIN jobs' = DOMAIN jobs \cup {v} /\ jobs'[v] = Job(1) /\ \A w \in DOMAIN jobs : jobs'[w] = jobs[w]
  BY <1>1 DEF Put
<1>4. Job(1) \in Jobs
  BY DEF Jobs, Job, Phases
<1>5. ReleaseTyped'
  BY <1>2, <1>3, <1>4 DEF RInv, ReleaseTyped
<1>6. \A n, w : Exists(n, w)' <=> Exists(n, w)
  BY <1>1 DEF Exists
<1>7. Staging'
  <2> SUFFICES ASSUME NEW w \in DOMAIN jobs' PROVE
        LET j == jobs'[w] IN
        /\ \A i \in 1..Len(j.staged) : i \in 1..Count /\ j.staged[i] = stageManifest(tags'[w][Publishable[i]], w)
        /\ j.phase = "prepare" => j.at = 1 /\ Len(j.staged) < Count
        /\ j.phase = "publish" =>
             /\ Len(j.staged) = Count /\ j.at \in 1..Count
             /\ \A i \in 1..(j.at - 1) : Exists(Publishable[i], w)
        /\ j.phase = "release" => Complete(w)
    BY <1>6 DEF Staging, Complete, Count, Packages
  <2>1. CASE w = v
    BY <1>3, <2>1, PackagesAre DEF Job
  <2>2. CASE w # v
    <3>1. w \in DOMAIN jobs /\ w \in DOMAIN tags
      BY <1>3, <2>2 DEF RInv, ReleaseTyped
    <3>2. jobs'[w] = jobs[w] /\ tags'[w] = tags[w]
      BY <1>2, <1>3, <3>1
    <3> QED BY <3>1, <3>2 DEF RInv, Staging
  <2> QED BY <2>1, <2>2
<1>8. Stored'
  BY <1>1, <1>2 DEF RInv, Stored, Packages
<1>9. Whole'
  BY <1>1, <1>2, <1>6 DEF RInv, Whole, Complete, Packages
<1> QED BY <1>5, <1>7, <1>8, <1>9 DEF RInv

\* A step that leaves tags and takes nothing out of the registry keeps the
\* invariant if the job it changes is in order.
InOrder(v, j) ==
  /\ j \in Jobs
  /\ \A i \in 1..Len(j.staged) : i \in 1..Count /\ j.staged[i] = stageManifest(tags[v][Publishable[i]], v)
  /\ j.phase = "prepare" => j.at = 1 /\ Len(j.staged) < Count
  /\ j.phase = "publish" =>
       /\ Len(j.staged) = Count /\ j.at \in 1..Count
       /\ \A i \in 1..(j.at - 1) : Exists(Publishable[i], v)'
  /\ j.phase = "release" => Complete(v)'

LEMMA JobKeeps ==
  ASSUME RInv, NEW v \in DOMAIN jobs, NEW j, jobs' = [jobs EXCEPT ![v] = j], InOrder(v, j),
         UNCHANGED tags, registry \subseteq registry', Stored', Whole'
  PROVE  RInv'
<1>1. DOMAIN jobs' = DOMAIN jobs /\ jobs'[v] = j /\ \A w \in DOMAIN jobs \ {v} : jobs'[w] = jobs[w]
  OBVIOUS
<1>2. \A n, w : Exists(n, w) => Exists(n, w)'
  BY DEF Exists
<1>3. ReleaseTyped'
  BY <1>1 DEF RInv, ReleaseTyped, InOrder
<1>4. Staging'
  <2> SUFFICES ASSUME NEW w \in DOMAIN jobs PROVE
        /\ \A i \in 1..Len(jobs'[w].staged) : i \in 1..Count /\ jobs'[w].staged[i] = stageManifest(tags[w][Publishable[i]], w)
        /\ jobs'[w].phase = "prepare" => jobs'[w].at = 1 /\ Len(jobs'[w].staged) < Count
        /\ jobs'[w].phase = "publish" =>
             /\ Len(jobs'[w].staged) = Count /\ jobs'[w].at \in 1..Count
             /\ \A i \in 1..(jobs'[w].at - 1) : Exists(Publishable[i], w)'
        /\ jobs'[w].phase = "release" => Complete(w)'
    BY <1>1 DEF Staging, Count
  <2>1. CASE w = v
    BY <1>1, <2>1 DEF InOrder
  <2>2. CASE w # v
    <3>1. Complete(w) => Complete(w)'
      BY <1>2 DEF Complete, Packages
    <3>2. jobs'[w] = jobs[w]
      BY <1>1, <2>2
    <3> QED BY <1>2, <3>1, <3>2 DEF RInv, Staging
  <2> QED BY <2>1, <2>2
<1> QED BY <1>3, <1>4 DEF RInv

LEMMA ReleaseInvFail ==
  ASSUME RInv, NEW v \in DOMAIN jobs, Fail(v), UNCHANGED <<tags, released>>, registry \subseteq registry', Stored'
  PROVE  RInv'
<1> DEFINE j == Ended(jobs[v], "failed")
<1>1. jobs' = [jobs EXCEPT ![v] = j]
  BY DEF Fail, Ended
<1>2. jobs[v] \in Jobs
  BY DEF RInv, ReleaseTyped
<1>3. /\ j \in Jobs
      /\ j.phase = "failed" /\ j.staged = <<>>
  <2>1. "failed" \in Phases
    BY DEF Phases
  <2> QED BY <1>2, <2>1, EndedIs
<1> HIDE DEF j
<1>4. InOrder(v, j)
  BY <1>3 DEF InOrder
<1>5. Whole'
  BY DEF RInv, Whole, Complete, Exists, Packages
<1> QED BY <1>1, <1>4, <1>5, JobKeeps

\* What nothing of the registry or the releases changes.
LEMMA SameStore ==
  ASSUME RInv, UNCHANGED <<tags, registry, released>>
  PROVE  Stored' /\ Whole' /\ \A n, w : Exists(n, w)' <=> Exists(n, w)
BY DEF RInv, Stored, Whole, Complete, Exists, Packages

LEMMA ReleaseInvRerun == ASSUME RInv, NEW v \in Versions, Rerun(v) PROVE RInv'
<1> DEFINE j == Job(jobs[v].attempt + 1)
<1>1. v \in DOMAIN jobs /\ jobs' = [jobs EXCEPT ![v] = j] /\ UNCHANGED <<tags, registry, released>>
  BY DEF Rerun
<1>2. jobs[v].attempt \in Nat
  BY <1>1, JobIs DEF RInv, ReleaseTyped
<1>3. InOrder(v, j)
  BY <1>2, PackagesAre DEF InOrder, Jobs, Job, Phases
<1> QED BY <1>1, <1>3, SameStore, JobKeeps

LEMMA ReleaseInvBreaks == ASSUME RInv, NEW v \in Versions, Breaks(v) PROVE RInv'
BY ReleaseInvFail, SameStore DEF Breaks, Running

LEMMA ReleaseInvPrepare == ASSUME RInv, NEW v \in Versions, preparePackage(v) PROVE RInv'
<1>0. PICK job : job = jobs[v]
  OBVIOUS
<1> DEFINE k == Len(job.staged) + 1
           deps == tags[v][Publishable[k]]
           phase == IF k = Count THEN "publish" ELSE "prepare"
           more == Append(job.staged, stageManifest(deps, v))
           j == Further(job, more, phase)
<1>1. v \in DOMAIN jobs /\ v \in DOMAIN tags /\ job.phase = "prepare" /\ UNCHANGED <<tags, registry, released>>
  BY <1>0 DEF preparePackage, Running, RInv, ReleaseTyped
<1>2. CASE Fail(v)
  BY <1>1, <1>2, ReleaseInvFail, SameStore
<1>3. CASE jobs' = [jobs EXCEPT ![v].staged = Append(@, stageManifest(deps, v)), ![v].phase = IF k = Count THEN "publish" ELSE @]
  <2>1. jobs' = [jobs EXCEPT ![v] = j]
    BY <1>0, <1>1, <1>3 DEF Further
  <2>2. job \in Jobs /\ job.staged \in Seq(StagedManifests) /\ job.at \in Nat
    BY <1>0, <1>1, JobIs DEF RInv, ReleaseTyped
  <2>3. /\ job.at = 1 /\ Len(job.staged) < Count
        /\ \A i \in 1..Len(job.staged) : i \in 1..Count /\ job.staged[i] = stageManifest(tags[v][Publishable[i]], v)
    BY <1>0, <1>1 DEF RInv, Staging
  <2>4. k \in 1..Count /\ Publishable[k] \in Packages
    BY <2>2, <2>3, PackagesAre
  <2>5. v \in Versions /\ deps \in SUBSET Dependencies
    BY <1>1, <2>4, ManifestType
  <2>6. stageManifest(deps, v) \in StagedManifests
    BY <2>5 DEF StagedManifests
  <2>7. /\ more \in Seq(StagedManifests) /\ Len(more) = k
        /\ \A i \in 1..k : more[i] = IF i = k THEN stageManifest(deps, v) ELSE job.staged[i]
    BY <2>2, <2>6
  <2> HIDE DEF more
  <2>8. phase \in Phases
    BY DEF Phases
  <2> HIDE DEF phase
  <2>9. j \in Jobs /\ j.phase = phase /\ j.staged = more /\ j.at = job.at
    BY <2>2, <2>7, <2>8, FurtherIs
  <2>10. \A i \in 1..k : i \in 1..Count /\ more[i] = stageManifest(tags[v][Publishable[i]], v)
    BY <2>2, <2>3, <2>4, <2>7, PackagesAre
  <2>11. Len(job.staged) \in Nat
    BY <2>2
  <2>12. (k # Count => k < Count) /\ Count > 0 /\ Count \in Nat
    BY <2>4, PackagesAre
  <2> HIDE DEF k
  <2> HIDE DEF j
  <2>13. InOrder(v, j)
    BY <2>3, <2>7, <2>9, <2>10, <2>12 DEF InOrder, phase
  <2> QED BY <1>1, <2>1, <2>13, SameStore, JobKeeps
<1> QED BY <1>0, <1>2, <1>3 DEF preparePackage, Count

LEMMA ReleaseInvPublish == ASSUME RInv, NEW v \in Versions, publishPackage(v) PROVE RInv'
<1>0. PICK job : job = jobs[v]
  OBVIOUS
<1> DEFINE name == Publishable[job.at]
           entry == [name |-> name, version |-> v, deps |-> job.staged[job.at]]
           j == Past(job, job.at + 1, IF job.at = Count THEN "release" ELSE "publish")
<1>1. v \in DOMAIN jobs /\ v \in DOMAIN tags /\ job.phase = "publish" /\ UNCHANGED <<tags, released>>
  BY <1>0 DEF publishPackage, Running, RInv, ReleaseTyped
<1>2. job \in Jobs /\ job.staged \in Seq(StagedManifests) /\ job.at \in Nat
  BY <1>0, <1>1, JobIs DEF RInv, ReleaseTyped
<1>3. /\ Len(job.staged) = Count /\ job.at \in 1..Count
      /\ \A i \in 1..(job.at - 1) : Exists(Publishable[i], v)
      /\ \A i \in 1..Count : job.staged[i] = stageManifest(tags[v][Publishable[i]], v)
  BY <1>0, <1>1 DEF RInv, Staging
<1>4. CASE Fail(v) /\ UNCHANGED registry
  BY <1>1, <1>4, ReleaseInvFail, SameStore
<1>5. CASE registry' = registry \cup {entry}
  <2>1. Stored'
    <3>1. entry.version \in DOMAIN tags /\ entry.name \in Packages
          /\ entry.deps = stageManifest(tags[entry.version][entry.name], entry.version)
      BY <1>1, <1>3, PackagesAre
    <3> QED BY <1>1, <1>5, <3>1 DEF RInv, Stored, Packages
  <2>2. \A n, w : Exists(n, w) => Exists(n, w)'
    BY <1>5 DEF Exists
  <2>3. Exists(name, v)'
    <3>1. entry \in registry' /\ entry.name = name /\ entry.version = v
      BY <1>5
    <3> QED BY <3>1 DEF Exists
  <2>4. Whole'
    BY <1>1, <2>2 DEF RInv, Whole, Complete, Packages
  <2>5. CASE Fail(v)
    BY <1>1, <1>5, <2>1, <2>5, ReleaseInvFail
  <2>6. CASE jobs' = [jobs EXCEPT ![v].at = @ + 1, ![v].phase = IF job.at = Count THEN "release" ELSE @]
    <3>1. jobs' = [jobs EXCEPT ![v] = j]
      BY <1>0, <1>1, <2>6 DEF Past
    <3>2. (IF job.at = Count THEN "release" ELSE "publish") \in Phases /\ job.at + 1 \in Nat
      BY <1>2 DEF Phases
    <3>7. /\ j \in Jobs /\ j.phase = (IF job.at = Count THEN "release" ELSE "publish")
          /\ j.staged = job.staged /\ j.at = job.at + 1
      BY <1>2, <3>2, PastIs
    <3>3. \A i \in 1..job.at : Exists(Publishable[i], v)'
      <4> SUFFICES ASSUME NEW i \in 1..job.at PROVE Exists(Publishable[i], v)'
        OBVIOUS
      <4>1. i = job.at \/ i \in 1..(job.at - 1)
        BY <1>3
      <4> QED BY <1>3, <2>2, <2>3, <4>1
    <3>4. job.at = Count => Complete(v)'
      BY <3>3, PackagesAre DEF Complete, Packages
    <3>5. job.at # Count => job.at + 1 \in 1..Count
      BY <1>3, PackagesAre
    <3>6. job.at \in Nat /\ job.at + 1 - 1 = job.at
      BY <1>2
    <3> HIDE DEF j
    <3>8. InOrder(v, j)
      BY <1>3, <3>3, <3>4, <3>5, <3>6, <3>7 DEF InOrder
    <3> QED BY <1>1, <1>5, <2>1, <2>4, <3>1, <3>8, JobKeeps
  <2> QED BY <1>0, <1>4, <1>5, <2>5, <2>6 DEF publishPackage, Count
<1> QED BY <1>0, <1>4, <1>5 DEF publishPackage

LEMMA ReleaseInvCreateRelease == ASSUME RInv, NEW v \in Versions, CreateRelease(v) PROVE RInv'
<1> DEFINE j == Ended(jobs[v], "done")
<1>1. /\ v \in DOMAIN jobs /\ v \in DOMAIN tags /\ jobs[v].phase = "release" /\ UNCHANGED <<tags, registry>>
      /\ jobs' = [jobs EXCEPT ![v] = j] /\ released' = released \cup {v}
  BY DEF CreateRelease, Running, RInv, ReleaseTyped, Ended
<1>2. Complete(v)
  BY <1>1 DEF RInv, Staging
<1>3. jobs[v] \in Jobs
  BY <1>1 DEF RInv, ReleaseTyped
<1>4. /\ j \in Jobs /\ j.phase = "done" /\ j.staged = <<>>
  <2>1. "done" \in Phases
    BY DEF Phases
  <2> QED BY <1>3, <2>1, EndedIs
<1>5. Stored' /\ Whole'
  BY <1>1, <1>2 DEF RInv, Stored, Whole, Complete, Exists, Packages
<1> HIDE DEF j
<1>6. InOrder(v, j)
  BY <1>4 DEF InOrder
<1> QED BY <1>1, <1>5, <1>6, JobKeeps

-----------------------------------------------------------------------------

\* What a staged manifest asks for can be had once all packages of its version are there.
LEMMA StagedResolves ==
  ASSUME RInv, NEW v \in DOMAIN tags, NEW p \in Packages, NEW d \in stageManifest(tags[v][p], v)
  PROVE  /\ d.name \notin Internal /\ d.range \notin {"workspace", "catalog"} /\ d.field # "devDependencies"
         /\ d.name \in Packages => d.range = v
<1>1. v \in Versions /\ tags[v][p] \in SUBSET Dependencies
      /\ \A x \in tags[v][p] : x.name \in Workspace => x.range = "workspace"
  BY ManifestType
<1>2. PICK e \in tags[v][p] : Kept(e) /\ d = Staged(e, v)
  BY <1>1, StageIs
<1>3. d.field = e.field /\ d.name = e.name /\ d.range = StagedRange(e.range, v)
  BY <1>2 DEF Staged, Dependency
<1>4. e.name \in Packages \cup Internal => e.range = "workspace"
  BY <1>1 DEF Workspace
<1>5. v # "workspace" /\ v # "catalog"
  BY <1>1, ReleaseAssumption
<1> QED BY <1>2, <1>3, <1>4, <1>5 DEF Kept, StagedRange

\* A manifest that validates keeps its dependencies.
LEMMA StagedKeepsAll ==
  ASSUME NEW all \in SUBSET Dependencies, NEW v \in Versions,
         validateManifest({d \in all : d.field \in Validated}) = {}
  PROVE  {d.name : d \in {x \in all : x.field \in Validated}}
           = {d.name : d \in {x \in stageManifest(all, v) : x.field \in Validated}}
<1>1. \A e \in all : Staged(e, v).field = e.field /\ Staged(e, v).name = e.name
  BY DEF Staged, Dependency
<1>2. ASSUME NEW e \in all, e.field \in Validated PROVE Kept(e)
  <2>1. ~(e.range = "workspace" /\ e.name \notin Packages)
    BY <1>2 DEF validateManifest
  <2> QED BY <1>2, <2>1, ReleaseAssumption DEF Kept, Validated, Packages
<1>3. stageManifest(all, v) = {Staged(e, v) : e \in {x \in all : Kept(x)}}
  BY StageIs
<1> HIDE DEF Staged, Kept
<1>4. ASSUME NEW e \in all, e.field \in Validated
      PROVE  \E d \in stageManifest(all, v) : d.field \in Validated /\ d.name = e.name
  BY <1>1, <1>2, <1>3, <1>4
<1>5. ASSUME NEW d \in stageManifest(all, v), d.field \in Validated
      PROVE  \E e \in all : e.field \in Validated /\ e.name = d.name
  BY <1>1, <1>3, <1>5
<1> QED BY <1>4, <1>5

LEMMA ReleaseInvImplies == RInv => ReleaseInstalls
<1> SUFFICES ASSUME RInv PROVE ReleaseInstalls
  OBVIOUS
<1>1. ASSUME NEW e \in registry
      PROVE  /\ e.version \in DOMAIN tags /\ e.version \in Versions /\ e.name \in Packages
             /\ tags[e.version][e.name] \in SUBSET Dependencies
             /\ e.deps = stageManifest(tags[e.version][e.name], e.version)
  BY ManifestType DEF RInv, Stored
<1>2. ASSUME NEW e \in registry, NEW d \in e.deps
      PROVE  d.name \notin Internal /\ d.range \notin {"workspace", "catalog"} /\ d.field # "devDependencies"
  BY <1>1, <1>2, StagedResolves
<1>3. ASSUME NEW v \in released PROVE \A name \in Packages : Exists(name, v)
  BY DEF RInv, Whole, Complete
<1>4. ASSUME NEW v \in released, NEW e \in registry, e.version = v, NEW d \in e.deps PROVE Resolves(d)
  <2>1. d.name \in Packages => d.range = v
    BY <1>1, <1>4, StagedResolves
  <2> QED BY <1>3, <2>1 DEF Resolves
<1>5. ASSUME NEW e \in registry,
             validateManifest({d \in tags[e.version][e.name] : d.field \in Validated}) = {}
      PROVE  {d.name : d \in {x \in tags[e.version][e.name] : x.field \in Validated}}
               = {d.name : d \in {x \in e.deps : x.field \in Validated}}
  <2> DEFINE all == tags[e.version][e.name]
  <2>1. all \in SUBSET Dependencies /\ e.version \in Versions /\ e.deps = stageManifest(all, e.version)
    BY <1>1
  <2> HIDE DEF all
  <2>2. validateManifest({d \in all : d.field \in Validated}) = {}
    BY <1>5 DEF all
  <2>3. {d.name : d \in {x \in all : x.field \in Validated}}
          = {d.name : d \in {x \in stageManifest(all, e.version) : x.field \in Validated}}
    BY <2>1, <2>2, StagedKeepsAll
  <2> QED BY <2>1, <2>3 DEF all
<1> QED BY <1>2, <1>3, <1>4, <1>5 DEF ReleaseInstalls

\* Whatever the manifests say, however many jobs of however many tags run at once
\* and wherever they break and are run again, what is in the registry asks for
\* nothing of the workspace alone, and a version with its release can be installed
\* (scripts/release, release.yml).
THEOREM ReleasesInstall == ReleaseSpec => []ReleaseInstalls
<1>1. RInv /\ [ReleaseNext]_releaseVars => RInv'
  <2> SUFFICES ASSUME RInv, [ReleaseNext]_releaseVars PROVE RInv'
    OBVIOUS
  <2>1. ASSUME NEW v \in Versions,
               \/ PushTag(v) \/ Rerun(v) \/ preparePackage(v) \/ Breaks(v) \/ publishPackage(v) \/ CreateRelease(v)
        PROVE  RInv'
    BY <2>1, ReleaseInvPushTag, ReleaseInvRerun, ReleaseInvPrepare, ReleaseInvBreaks, ReleaseInvPublish, ReleaseInvCreateRelease
  <2>2. CASE UNCHANGED releaseVars
    BY <2>2 DEF releaseVars, RInv, ReleaseTyped, Staging, Stored, Whole, Complete, Exists
  <2> QED BY <2>1, <2>2 DEF ReleaseNext
<1> QED BY ReleaseInvInit, <1>1, ReleaseInvImplies, PTL DEF ReleaseSpec

-----------------------------------------------------------------------------
(* StopConditions: a run stops when it should.                             *)

StopTools == {c.tool : c \in Listed(CallLists)}
StopOutcomes == [tool : StopTools, output : Fates, isError : BOOLEAN]
StopResults == {f \in UNION {[ran -> StopOutcomes] : ran \in SUBSET (Nat \X {1, 2})} : IsFiniteSet(DOMAIN f)}
StopStep == [toolCalls : CallLists, toolResults : StopResults]
StopSteps == Seq(StopStep)

\* The results of failures in the steps after one and up to another, as the conditions count
\* them: each as often as it was pushed.
EntriesIn(def, so, from, to) == UNION {{k} \X Failures(def, so[k]) : k \in (from + 1)..to}
KeepsOn(def, so) ==
  CASE def.name = "totalToolFailures" -> Cardinality(EntriesIn(def, so, 0, Len(so))) < def.n
    [] def.name = "consecutiveToolFailures" ->
         Cardinality(EntriesIn(def, so, LastGood(def, so, Len(so)), Len(so))) < def.n
    [] OTHER -> GoesOn(def, so)

\* A condition that neither says stop nor has fired.
Quiet(def, so) == KeepsOn(def, so) /\ (def.name = "consecutiveToolFailures" => ~check(def, so))

StopInv ==
  /\ stopWhen \in Stops /\ steps \in StopSteps /\ stage \in {"model", "executing", "stopped"}
  /\ stage = "model" => \A def \in ToSet(stopWhen) : Quiet(def, steps)
  /\ stage = "executing" =>
       /\ steps # <<>> /\ Last(steps).toolResults = <<>>
       /\ \A def \in ToSet(stopWhen) :
            Quiet(def, Front(steps)) /\ (timing(def) = "beforeExecution" => KeepsOn(def, steps))
  /\ stage # "stopped" => fired = Nothing
  /\ fired # Nothing => fired \in Listed(Stops) /\ ~KeepsOn(fired, steps)

-----------------------------------------------------------------------------

LEMMA Smallest ==
  ASSUME NEW S \in SUBSET Nat, S # {}
  PROVE  \E x \in S : \A y \in S : x <= y
<1>1. PICK x \in S : \A y \in S : ~(<<y, x>> \in OpToRel(<, Nat))
  BY NatLessThanWellFounded, WFMin
<1>2. S \subseteq Nat
  OBVIOUS
<1>3. \A y \in S : ~(y < x)
  BY <1>1, <1>2 DEF OpToRel
<1>4. \A y \in S : x <= y
  BY <1>2, <1>3
<1> QED BY <1>4

LEMMA Upto ==
  ASSUME NEW n \in Nat, NEW S, 0 \in S, \A k \in 1..n : k - 1 \in S => k \in S
  PROVE  \A k \in 0..n : k \in S
<1> DEFINE Bad == {k \in 0..n : k \notin S}
<1>1. SUFFICES ASSUME Bad # {} PROVE FALSE OBVIOUS
<1>2. Bad \in SUBSET Nat OBVIOUS
<1>3. PICK x \in Bad : \A y \in Bad : x <= y
  <2> HIDE DEF Bad
  <2> QED BY <1>1, <1>2, Smallest
<1>4. x \in 1..n /\ x - 1 \in 0..n /\ x \notin S BY <1>3
<1>5. x - 1 \notin Bad
  <2>1. ~(x <= x - 1) BY <1>4
  <2> HIDE DEF Bad
  <2> QED BY <1>3, <2>1
<1> QED BY <1>4, <1>5

-----------------------------------------------------------------------------
(* The loops of the two conditions that count.                             *)

\* Any function that meets the equations of the loop is what it counts.
LEMMA CountIs ==
  ASSUME NEW def, NEW so, Len(so) \in Nat, NEW g, DOMAIN g = 0..Len(so), g[0] = 0,
         \A k \in 1..Len(so) : g[k] = g[k - 1] + Cardinality(Failures(def, so[k]))
  PROVE  totalToolFailures(def, so) <=> g[Len(so)] >= def.n
<1> DEFINE n == Len(so)
           Next1(f, k) == IF k = 0 THEN 0 ELSE f[k - 1] + Cardinality(Failures(def, so[k]))
           Solves(f) == f = [k \in 0..n |-> Next1(f, k)]
           count == CHOOSE f : Solves(f)
<1>1. n \in Nat OBVIOUS
<1>2. totalToolFailures(def, so) <=> count[n] >= def.n BY DEF totalToolFailures
<1>3. Solves([k \in 0..n |-> g[k]])
  <2> DEFINE h == [k \in 0..n |-> g[k]]
  <2>1. \A k \in 0..n : h[k] = g[k] OBVIOUS
  <2>2. \A k \in 0..n : h[k] = Next1(h, k)
    <3> TAKE k \in 0..n
    <3>1. CASE k = 0 BY <2>1, <3>1
    <3>2. CASE k # 0
      <4>1. k \in 1..n /\ k - 1 \in 0..n BY <1>1, <3>2
      <4>2. h[k] = g[k] /\ h[k - 1] = g[k - 1] BY <4>1
      <4> HIDE DEF h
      <4> QED BY <3>2, <4>1, <4>2
    <3> QED BY <3>1, <3>2
  <2>3. h = [k \in 0..n |-> h[k]] OBVIOUS
  <2> HIDE DEF h, Next1
  <2>4. h = [k \in 0..n |-> Next1(h, k)] BY <2>2, <2>3
  <2> QED BY <2>4 DEF h
<1>4. Solves(count) BY <1>3
<1>5. \A k \in 0..n : count[k] = Next1(count, k)
  <2> HIDE DEF count, Next1
  <2> QED BY <1>4
<1> HIDE DEF count
<1> DEFINE Same == {k \in 0..n : count[k] = g[k]}
<1>6. 0 \in Same BY <1>1, <1>5
<1>7. ASSUME NEW k \in 1..n, k - 1 \in Same PROVE k \in Same
  <2>1. k \in 0..n /\ k # 0 BY <1>1
  <2>2. count[k - 1] = g[k - 1] BY <1>7
  <2>3. count[k] = Next1(count, k) BY <1>5, <2>1
  <2>4. count[k] = g[k] BY <2>1, <2>2, <2>3
  <2> QED BY <2>1, <2>4
<1>8. n \in Same
  <2> HIDE DEF Same
  <2>1. \A k \in 0..n : k \in Same BY <1>1, <1>6, <1>7, Upto
  <2> QED BY <1>1, <2>1
<1> QED BY <1>2, <1>8

LEMMA StreakIs ==
  ASSUME NEW def, NEW so, Len(so) \in Nat, DOMAIN so = 1..Len(so), NEW g, DOMAIN g = 0..Len(so), g[0] = 0,
         \A k \in 1..Len(so) :
           g[k] = IF Relevant(def, so[k]) = {} THEN g[k - 1]
                  ELSE IF AllFailed(def, so[k]) THEN g[k - 1] + Cardinality(Relevant(def, so[k])) ELSE 0
  PROVE  consecutiveToolFailures(def, so) <=> \E k \in DOMAIN so : Relevant(def, so[k]) # {} /\ g[k] >= def.n
<1> DEFINE n == Len(so)
           Next1(f, k) == IF k = 0 THEN 0
                          ELSE IF Relevant(def, so[k]) = {} THEN f[k - 1]
                          ELSE IF AllFailed(def, so[k]) THEN f[k - 1] + Cardinality(Relevant(def, so[k])) ELSE 0
           Solves(f) == f = [k \in 0..n |-> Next1(f, k)]
           streak == CHOOSE f : Solves(f)
<1>1. n \in Nat OBVIOUS
<1>2. consecutiveToolFailures(def, so) <=> \E k \in DOMAIN so : Relevant(def, so[k]) # {} /\ streak[k] >= def.n
  BY DEF consecutiveToolFailures
<1>3. Solves([k \in 0..n |-> g[k]])
  <2> DEFINE h == [k \in 0..n |-> g[k]]
  <2>1. \A k \in 0..n : h[k] = g[k] OBVIOUS
  <2>2. \A k \in 0..n : h[k] = Next1(h, k)
    <3> TAKE k \in 0..n
    <3>1. CASE k = 0 BY <2>1, <3>1
    <3>2. CASE k # 0
      <4>1. k \in 1..n /\ k - 1 \in 0..n BY <1>1, <3>2
      <4>2. h[k] = g[k] /\ h[k - 1] = g[k - 1] BY <4>1
      <4> HIDE DEF h
      <4> QED BY <3>2, <4>1, <4>2
    <3> QED BY <3>1, <3>2
  <2>3. h = [k \in 0..n |-> h[k]] OBVIOUS
  <2> HIDE DEF h, Next1
  <2>4. h = [k \in 0..n |-> Next1(h, k)] BY <2>2, <2>3
  <2> QED BY <2>4 DEF h
<1>4. Solves(streak) BY <1>3
<1>5. \A k \in 0..n : streak[k] = Next1(streak, k)
  <2> HIDE DEF streak, Next1
  <2> QED BY <1>4
<1> HIDE DEF streak
<1> DEFINE Same == {k \in 0..n : streak[k] = g[k]}
<1>6. 0 \in Same BY <1>1, <1>5
<1>7. ASSUME NEW k \in 1..n, k - 1 \in Same PROVE k \in Same
  <2>1. k \in 0..n /\ k # 0 BY <1>1
  <2>2. streak[k - 1] = g[k - 1] BY <1>7
  <2>3. streak[k] = Next1(streak, k) BY <1>5, <2>1
  <2>4. streak[k] = g[k] BY <2>1, <2>2, <2>3
  <2> QED BY <2>1, <2>4
<1>8. \A k \in 0..n : k \in Same
  <2> HIDE DEF Same
  <2> QED BY <1>1, <1>6, <1>7, Upto
<1>9. \A k \in DOMAIN so : streak[k] = g[k] BY <1>8
<1> QED BY <1>2, <1>9

-----------------------------------------------------------------------------
(* What they count.                                                        *)

Succeeded(def, step) == \E i \in Relevant(def, step) : ~step.toolResults[i].isError

LEMMA StepFacts ==
  ASSUME NEW def, NEW s \in StopStep
  PROVE  /\ IsFiniteSet(Failures(def, s)) /\ Cardinality(Failures(def, s)) \in Nat
         /\ AllFailed(def, s) <=> ~Succeeded(def, s)
         /\ Relevant(def, s) = {} => ~Succeeded(def, s) /\ Cardinality(Failures(def, s)) = 0
<1>1. IsFiniteSet(DOMAIN s.toolResults) /\ \A i \in DOMAIN s.toolResults : s.toolResults[i].isError \in BOOLEAN
  BY DEF StopStep, StopResults, StopOutcomes
<1>2. Failures(def, s) \in SUBSET DOMAIN s.toolResults
  BY DEF Failures, Relevant
<1>3. IsFiniteSet(Failures(def, s)) /\ Cardinality(Failures(def, s)) \in Nat
  BY <1>1, <1>2, FS_Subset, FS_CardinalityType
<1>4. AllFailed(def, s) <=> ~Succeeded(def, s)
  BY <1>1 DEF AllFailed, Failures, Relevant, Succeeded
<1>5. Relevant(def, s) = {} => ~Succeeded(def, s) /\ Failures(def, s) = {}
  BY DEF Succeeded, Failures
<1> QED BY <1>3, <1>4, <1>5, FS_EmptySet

LEMMA NoneIn ==
  ASSUME NEW def, NEW so, NEW a \in Nat
  PROVE  Cardinality(EntriesIn(def, so, a, a)) = 0
<1>1. (a + 1)..a = {}
  OBVIOUS
<1>2. EntriesIn(def, so, a, a) = {}
  BY <1>1 DEF EntriesIn
<1> QED BY <1>2, FS_EmptySet

LEMMA FiniteIn ==
  ASSUME NEW def, NEW so \in StopSteps, NEW a \in 0..Len(so), NEW b \in 0..Len(so)
  PROVE  IsFiniteSet(EntriesIn(def, so, a, b)) /\ Cardinality(EntriesIn(def, so, a, b)) \in Nat
<1> DEFINE At(k) == {k} \X Failures(def, so[k])
           All == {At(k) : k \in (a + 1)..b}
           f == [k \in (a + 1)..b |-> At(k)]
<1>1. a \in Int /\ b \in Int /\ a + 1 \in Int
  BY DEF StopSteps
<1>2. IsFiniteSet((a + 1)..b)
  BY <1>1, FS_Interval
<1>3. \A k \in (a + 1)..b : IsFiniteSet(At(k))
  <2> TAKE k \in (a + 1)..b
  <2>1. so[k] \in StopStep
    BY DEF StopSteps
  <2>2. IsFiniteSet(Failures(def, so[k])) /\ IsFiniteSet({k})
    BY <2>1, StepFacts, FS_Singleton
  <2> QED BY <2>2, FS_Product
<1> HIDE DEF At
<1>4. f \in Surjection((a + 1)..b, All)
  BY DEF Surjection
<1>5. IsFiniteSet(All)
  <2> HIDE DEF f, All
  <2> QED BY <1>2, <1>4, FS_Surjection
<1>6. IsFiniteSet(UNION All)
  <2>1. \A T \in All : IsFiniteSet(T)
    BY <1>3
  <2> HIDE DEF All
  <2> QED BY <1>5, <2>1, FS_UNION
<1>7. EntriesIn(def, so, a, b) = UNION All
  BY DEF EntriesIn, At
<1> QED BY <1>6, <1>7, FS_CardinalityType

LEMMA OneMore ==
  ASSUME NEW def, NEW so \in StopSteps, NEW b \in 1..Len(so), NEW a \in 0..(b - 1)
  PROVE  Cardinality(EntriesIn(def, so, a, b)) = Cardinality(EntriesIn(def, so, a, b - 1)) + Cardinality(Failures(def, so[b]))
<1> DEFINE Old == EntriesIn(def, so, a, b - 1)
           Added == {b} \X Failures(def, so[b])
<1>1. so[b] \in StopStep /\ a \in 0..Len(so) /\ b - 1 \in 0..Len(so)
  BY DEF StopSteps
<1>2. (a + 1)..b = ((a + 1)..(b - 1)) \cup {b}
  OBVIOUS
<1>3. EntriesIn(def, so, a, b) = Old \cup Added
  BY <1>2 DEF EntriesIn
<1>4. Old \cap Added = {}
  <2>1. b \notin (a + 1)..(b - 1)
    OBVIOUS
  <2> QED BY <2>1 DEF EntriesIn
<1>5. IsFiniteSet(Old) /\ Cardinality(Old) \in Nat
  BY <1>1, FiniteIn
<1>6. /\ IsFiniteSet(Added) /\ Cardinality(Added) = 1 * Cardinality(Failures(def, so[b]))
      /\ Cardinality(Failures(def, so[b])) \in Nat
  <2>1. IsFiniteSet({b}) /\ Cardinality({b}) = 1
    BY FS_Singleton
  <2> QED BY <1>1, <2>1, StepFacts, FS_Product
<1> HIDE DEF Old, Added
<1>7. Cardinality(Old \cup Added) = Cardinality(Old) + Cardinality(Added) - 0
  BY <1>4, <1>5, <1>6, FS_Union, FS_EmptySet
<1>8. Cardinality(Added) = Cardinality(Failures(def, so[b]))
  BY <1>6
<1> QED BY <1>3, <1>5, <1>6, <1>7, <1>8 DEF Old

LEMMA LastGoodIs ==
  ASSUME NEW def, NEW so, NEW n \in Nat
  PROVE  /\ LastGood(def, so, 0) = 0
         /\ \A k \in 1..n : LastGood(def, so, k) = IF Succeeded(def, so[k]) THEN k ELSE LastGood(def, so, k - 1)
         /\ \A k \in 0..n : LastGood(def, so, k) \in 0..k
<1> DEFINE Good(m) == {k \in 1..m : Succeeded(def, so[k])}
           Latest(S) == IF S = {} THEN 0 ELSE CHOOSE k \in S : \A j \in S : j =< k
<1>1. \A m \in Nat : LastGood(def, so, m) = Latest(Good(m))
  BY DEF LastGood, Succeeded
<1>2. LastGood(def, so, 0) = 0
  <2>1. Good(0) = {}
    OBVIOUS
  <2> QED BY <1>1, <2>1
<1>3. ASSUME NEW k \in 1..n
      PROVE  LastGood(def, so, k) = IF Succeeded(def, so[k]) THEN k ELSE LastGood(def, so, k - 1)
  <2>1. k \in Nat /\ k - 1 \in Nat
    OBVIOUS
  <2>2. CASE Succeeded(def, so[k])
    <3>1. k \in Good(k) /\ \A j \in Good(k) : j =< k /\ j \in Nat
      BY <2>1, <2>2
    <3> HIDE DEF Good
    <3>2. Latest(Good(k)) \in Good(k) /\ k =< Latest(Good(k))
      BY <3>1
    <3>3. Latest(Good(k)) = k
      <4> HIDE DEF Latest
      <4> QED BY <2>1, <3>1, <3>2
    <3> QED BY <1>1, <2>1, <2>2, <3>3
  <2>3. CASE ~Succeeded(def, so[k])
    <3>1. Good(k) = Good(k - 1)
      <4>1. \A j \in Nat : j \in 1..k <=> j \in 1..(k - 1) \/ j = k
        BY <2>1
      <4> QED BY <2>3, <4>1
    <3> HIDE DEF Good, Latest
    <3> QED BY <1>1, <2>1, <2>3, <3>1
  <2> QED BY <2>2, <2>3
<1>4. \A k \in 0..n : LastGood(def, so, k) \in 0..k
  <2> DEFINE S == {k \in 0..n : LastGood(def, so, k) \in 0..k}
  <2>1. 0 \in S
    BY <1>2
  <2>2. ASSUME NEW k \in 1..n, k - 1 \in S PROVE k \in S
    BY <1>3, <2>2
  <2> HIDE DEF S
  <2>3. \A k \in 0..n : k \in S
    BY <2>1, <2>2, Upto
  <2> QED BY <2>3 DEF S
<1> QED BY <1>2, <1>3, <1>4

Streak(def, so, k) == Cardinality(EntriesIn(def, so, LastGood(def, so, k), k))

LEMMA StreakSteps ==
  ASSUME NEW def, NEW so \in StopSteps
  PROVE  /\ Streak(def, so, 0) = 0
         /\ \A k \in 1..Len(so) :
              /\ Streak(def, so, k) = IF Relevant(def, so[k]) = {} THEN Streak(def, so, k - 1)
                      ELSE IF AllFailed(def, so[k]) THEN Streak(def, so, k - 1) + Cardinality(Relevant(def, so[k])) ELSE 0
<1>1. Len(so) \in Nat /\ \A k \in 1..Len(so) : so[k] \in StopStep
  BY DEF StopSteps
<1>2. Streak(def, so, 0) = 0
  BY <1>1, LastGoodIs, NoneIn DEF Streak
<1>3. ASSUME NEW k \in 1..Len(so)
      PROVE  Streak(def, so, k) = IF Relevant(def, so[k]) = {} THEN Streak(def, so, k - 1)
                      ELSE IF AllFailed(def, so[k]) THEN Streak(def, so, k - 1) + Cardinality(Relevant(def, so[k])) ELSE 0
  <2>1. k \in Nat /\ k - 1 \in 0..Len(so) /\ so[k] \in StopStep
    BY <1>1
  <2>2. LastGood(def, so, k - 1) \in 0..(k - 1)
    BY <1>1, <2>1, LastGoodIs
  <2>3. CASE Succeeded(def, so[k])
    <3>1. LastGood(def, so, k) = k
      BY <1>1, <2>3, LastGoodIs
    <3>2. Streak(def, so, k) = 0
      BY <2>1, <3>1, NoneIn DEF Streak
    <3> QED BY <2>1, <2>3, <3>2, StepFacts
  <2>4. CASE ~Succeeded(def, so[k])
    <3>1. LastGood(def, so, k) = LastGood(def, so, k - 1)
      BY <1>1, <2>4, LastGoodIs
    <3>2. Streak(def, so, k) = Streak(def, so, k - 1) + Cardinality(Failures(def, so[k]))
      BY <2>2, <3>1, OneMore DEF Streak
    <3>3. Streak(def, so, k - 1) \in Nat
      <4>1. LastGood(def, so, k - 1) \in 0..Len(so)
        BY <1>1, <2>1, <2>2
      <4> QED BY <2>1, <4>1, FiniteIn DEF Streak
    <3>4. CASE Relevant(def, so[k]) = {}
      BY <2>1, <3>2, <3>3, <3>4, StepFacts
    <3>5. CASE Relevant(def, so[k]) # {}
      <4>1. AllFailed(def, so[k])
        BY <2>1, <2>4, StepFacts
      <4> QED BY <3>2, <3>5, <4>1 DEF AllFailed
    <3> QED BY <3>4, <3>5
  <2> QED BY <2>3, <2>4
<1> QED BY <1>2, <1>3

LEMMA SamePrefix ==
  ASSUME NEW def, NEW so, NEW b, NEW n \in Nat, \A k \in 1..n : b[k] = so[k]
  PROVE  \A k \in 0..n : Streak(def, b, k) = Streak(def, so, k)
<1> TAKE m \in 0..n
<1>1. LastGood(def, b, m) = LastGood(def, so, m)
  <2> DEFINE Good(q) == {k \in 1..m : Succeeded(def, q[k])}
             Latest(S) == IF S = {} THEN 0 ELSE CHOOSE k \in S : \A j \in S : j =< k
  <2>1. LastGood(def, b, m) = Latest(Good(b)) /\ LastGood(def, so, m) = Latest(Good(so))
    BY DEF LastGood, Succeeded
  <2>2. Good(b) = Good(so)
    OBVIOUS
  <2> HIDE DEF Good, Latest
  <2> QED BY <2>1, <2>2
<1>2. LastGood(def, so, m) \in 0..m
  BY LastGoodIs
<1>3. ASSUME NEW a \in 0..m PROVE EntriesIn(def, b, a, m) = EntriesIn(def, so, a, m)
  <2>1. \A k \in (a + 1)..m : Failures(def, b[k]) = Failures(def, so[k])
    OBVIOUS
  <2> QED BY <2>1 DEF EntriesIn
<1> QED BY <1>1, <1>2, <1>3 DEF Streak

-----------------------------------------------------------------------------
(* A step of the run.                                                      *)

LEMMA FrontIs ==
  ASSUME NEW so \in StopSteps, so # <<>>
  PROVE  /\ Len(so) \in Nat \ {0} /\ Front(so) \in StopSteps /\ Len(Front(so)) = Len(so) - 1
         /\ DOMAIN so = 1..Len(so) /\ DOMAIN Front(so) = 1..(Len(so) - 1)
         /\ \A k \in 1..(Len(so) - 1) : Front(so)[k] = so[k]
         /\ Last(so) = so[Len(so)] /\ Last(so) \in StopStep
<1> DEFINE n == Len(so)
<1>1. n \in Nat /\ n # 0 /\ DOMAIN so = 1..n /\ \A k \in 1..n : so[k] \in StopStep
  BY EmptySeq, LenProperties DEF StopSteps
<1> DEFINE m == n - 1
<1>2. /\ Front(so) \in Seq(StopStep) /\ Len(Front(so)) = (IF 1 <= m THEN m - 1 + 1 ELSE 0)
      /\ \A k \in 1..(m - 1 + 1) : Front(so)[k] = so[1 + k - 1]
  <2>1. 1 \in Int /\ m \in Int /\ \A k \in 1..m : so[k] \in StopStep
    BY <1>1
  <2>2. Front(so) = SubSeq(so, 1, m)
    BY DEF Front
  <2> HIDE DEF m
  <2> QED BY <2>1, <2>2, SubSeqProperties
<1>3. Len(Front(so)) = n - 1 /\ \A k \in 1..(n - 1) : Front(so)[k] = so[k]
  <2>1. m \in Nat /\ m - 1 + 1 = m /\ \A k \in 1..m : 1 + k - 1 = k
    BY <1>1
  <2>2. Len(Front(so)) = m
    <3> HIDE DEF m
    <3>1. m \in Nat /\ m - 1 + 1 = m
      BY <2>1
    <3>2. ~(1 <= m) => m = 0
      BY <3>1
    <3> QED BY <1>2, <3>1, <3>2
  <2>3. \A k \in 1..m : Front(so)[k] = so[k]
    <3> HIDE DEF m
    <3> QED BY <1>2, <2>1
  <2> QED BY <2>2, <2>3
<1>4. DOMAIN Front(so) = 1..(n - 1)
  BY <1>2, <1>3, LenProperties
<1>5. Last(so) = so[n] /\ n \in 1..n
  BY <1>1 DEF Last
<1> QED BY <1>1, <1>2, <1>3, <1>4, <1>5 DEF StopSteps

LEMMA ConsecutiveIs ==
  ASSUME NEW def, NEW so \in StopSteps
  PROVE  consecutiveToolFailures(def, so) <=> \E k \in 1..Len(so) : Relevant(def, so[k]) # {} /\ Streak(def, so, k) >= def.n
<1> DEFINE g == [k \in 0..Len(so) |-> Streak(def, so, k)]
<1>1. Len(so) \in Nat /\ DOMAIN so = 1..Len(so)
  BY DEF StopSteps
<1>2. DOMAIN g = 0..Len(so) /\ \A k \in 0..Len(so) : g[k] = Streak(def, so, k)
  OBVIOUS
<1> HIDE DEF g
<1>3. g[0] = 0
  BY <1>1, <1>2, StreakSteps
<1>4. \A k \in 1..Len(so) :
           g[k] = IF Relevant(def, so[k]) = {} THEN g[k - 1]
                  ELSE IF AllFailed(def, so[k]) THEN g[k - 1] + Cardinality(Relevant(def, so[k])) ELSE 0
  <2> TAKE k \in 1..Len(so)
  <2>1. k - 1 \in 0..Len(so) /\ k \in 0..Len(so)
    BY <1>1
  <2> QED BY <1>2, <2>1, StreakSteps
<1>5. consecutiveToolFailures(def, so) <=> \E k \in DOMAIN so : Relevant(def, so[k]) # {} /\ g[k] >= def.n
  BY <1>1, <1>2, <1>3, <1>4, StreakIs
<1>6. \A k \in 1..Len(so) : k \in DOMAIN so /\ g[k] = Streak(def, so, k)
  BY <1>1, <1>2
<1>7. \A k \in DOMAIN so : k \in 1..Len(so)
  BY <1>1
<1> QED BY <1>5, <1>6, <1>7

LEMMA StreakInNat ==
  ASSUME NEW def, NEW so \in StopSteps, NEW k \in 0..Len(so)
  PROVE  Streak(def, so, k) \in Nat
<1>1. Len(so) \in Nat
  BY DEF StopSteps
<1>2. LastGood(def, so, k) \in 0..k
  BY <1>1, LastGoodIs
<1>3. LastGood(def, so, k) \in 0..Len(so)
  BY <1>1, <1>2
<1> QED BY <1>3, FiniteIn DEF Streak

LEMMA TotalIs ==
  ASSUME NEW def, NEW so \in StopSteps
  PROVE  totalToolFailures(def, so) <=> Cardinality(EntriesIn(def, so, 0, Len(so))) >= def.n
<1> DEFINE g == [k \in 0..Len(so) |-> Cardinality(EntriesIn(def, so, 0, k))]
<1>1. Len(so) \in Nat
  BY DEF StopSteps
<1>2. DOMAIN g = 0..Len(so) /\ \A k \in 0..Len(so) : g[k] = Cardinality(EntriesIn(def, so, 0, k))
  OBVIOUS
<1> HIDE DEF g
<1>3. g[0] = 0
  BY <1>1, <1>2, NoneIn
<1>4. \A k \in 1..Len(so) : g[k] = g[k - 1] + Cardinality(Failures(def, so[k]))
  <2> TAKE k \in 1..Len(so)
  <2>1. k - 1 \in 0..Len(so) /\ k \in 0..Len(so) /\ 0 \in 0..(k - 1)
    BY <1>1
  <2> QED BY <1>2, <2>1, OneMore
<1>5. totalToolFailures(def, so) <=> g[Len(so)] >= def.n
  BY <1>1, <1>2, <1>3, <1>4, CountIs
<1> QED BY <1>1, <1>2, <1>5

LEMMA ConsecutiveDue ==
  ASSUME NEW so \in StopSteps, so # <<>>, NEW def \in Listed(Stops), def.name = "consecutiveToolFailures", Quiet(def, Front(so))
  PROVE  check(def, so) <=> ~KeepsOn(def, so)
<1> DEFINE b == Front(so)
           n == Len(so)
<1>1. /\ n \in Nat \ {0} /\ b \in StopSteps /\ Len(b) = n - 1 /\ n - 1 \in Nat
      /\ \A k \in 1..(n - 1) : b[k] = so[k]
  BY FrontIs
<1>2. def.n \in Nat \ {0}
  BY StopAssumption
<1>3. \A q : check(def, q) <=> consecutiveToolFailures(def, q)
  BY DEF check
<1>4. \A q : KeepsOn(def, q) <=> Streak(def, q, Len(q)) < def.n
  BY DEF KeepsOn, Streak
<1>5. \A k \in 0..(n - 1) : Streak(def, b, k) = Streak(def, so, k)
  <2> HIDE DEF b, n
  <2> QED BY <1>1, SamePrefix
<1>6. ~consecutiveToolFailures(def, b) /\ Streak(def, b, n - 1) < def.n
  BY <1>1, <1>3, <1>4 DEF Quiet
<1> HIDE DEF b
<1>7. \A k \in 1..(n - 1) : ~(Relevant(def, so[k]) # {} /\ Streak(def, so, k) >= def.n)
  <2>1. \A k \in 1..Len(b) : ~(Relevant(def, b[k]) # {} /\ Streak(def, b, k) >= def.n)
    BY <1>1, <1>6, ConsecutiveIs
  <2>2. \A k \in 1..(n - 1) : k \in 1..Len(b) /\ b[k] = so[k] /\ Streak(def, b, k) = Streak(def, so, k)
    BY <1>1, <1>5
  <2> HIDE DEF n
  <2> QED BY <2>1, <2>2
<1>8. Streak(def, so, n - 1) < def.n
  BY <1>1, <1>5, <1>6
<1>9. Streak(def, so, n) \in Nat
  BY <1>1, StreakInNat
<1>10. Relevant(def, so[n]) = {} => Streak(def, so, n) = Streak(def, so, n - 1)
  <2>1. n \in 1..Len(so)
    BY <1>1
  <2> HIDE DEF n
  <2> QED BY <2>1, StreakSteps
<1>11. consecutiveToolFailures(def, so) <=> (Relevant(def, so[n]) # {} /\ Streak(def, so, n) >= def.n)
  <2>1. consecutiveToolFailures(def, so) <=> \E k \in 1..n : Relevant(def, so[k]) # {} /\ Streak(def, so, k) >= def.n
    BY ConsecutiveIs
  <2>2. \A k \in 1..n : k = n \/ k \in 1..(n - 1)
    BY <1>1
  <2>3. n \in 1..n
    BY <1>1
  <2> HIDE DEF n
  <2> QED BY <1>7, <2>1, <2>2, <2>3
<1>12. ~(Streak(def, so, n) < def.n) <=> Streak(def, so, n) >= def.n
  BY <1>2, <1>9
<1>13. check(def, so) <=> Streak(def, so, n) >= def.n
  BY <1>2, <1>3, <1>8, <1>9, <1>10, <1>11, <1>12
<1> QED BY <1>4, <1>12, <1>13

LEMMA DoomDue ==
  ASSUME NEW so \in StopSteps, so # <<>>, NEW def \in Listed(Stops), def.name = "doomLoop", KeepsOn(def, Front(so))
  PROVE  check(def, so) <=> ~KeepsOn(def, so)
<1> DEFINE b == Front(so)
           n == Len(so)
           recent == SubSeq(so, n - def.n + 1, n)
           Run(q, from, call) == \A k \in 1..def.n : q[from + k].toolCalls = <<call>>
<1>1. /\ n \in Nat \ {0} /\ b \in StopSteps /\ Len(b) = n - 1 /\ n - 1 \in Nat
      /\ \A k \in 1..(n - 1) : b[k] = so[k]
      /\ \A k \in 1..n : so[k] \in StopStep
  BY FrontIs DEF StopSteps
<1>2. def.n \in Nat \ {0}
  BY StopAssumption
<1>3. check(def, so) <=> /\ n >= def.n
                         /\ \A k \in DOMAIN recent : Len(recent[k].toolCalls) = 1 /\ recent[k].toolCalls = recent[1].toolCalls
  BY DEF check, doomLoop
<1>4. \A q : KeepsOn(def, q) <=> ~\E from \in 0..(Len(q) - def.n) : \E call \in Listed(CallLists) : Run(q, from, call)
  BY DEF KeepsOn, GoesOn
<1>5. \A from \in 0..(n - 1 - def.n) : \A call \in Listed(CallLists) : ~Run(so, from, call)
  <2> TAKE from \in 0..(n - 1 - def.n)
  <2> TAKE call \in Listed(CallLists)
  <2>1. ~Run(b, from, call)
    <3> HIDE DEF Run
    <3> QED BY <1>1, <1>4
  <2>2. \A k \in 1..def.n : b[from + k] = so[from + k]
    BY <1>1, <1>2
  <2> QED BY <2>1, <2>2
<1>6. KeepsOn(def, so) <=> ~(n >= def.n /\ \E call \in Listed(CallLists) : Run(so, n - def.n, call))
  <2>1. \A from \in 0..(n - def.n) : from = n - def.n \/ from \in 0..(n - 1 - def.n)
    BY <1>1, <1>2
  <2>2. n >= def.n <=> n - def.n \in 0..(n - def.n)
    BY <1>1, <1>2
  <2>3. (n - def.n) \in 0..(n - def.n) \/ 0..(n - def.n) = {}
    BY <1>1, <1>2
  <2> HIDE DEF n, Run
  <2> QED BY <1>4, <1>5, <2>1, <2>2, <2>3 DEF n
<1>7. ASSUME n >= def.n
      PROVE  (\A k \in DOMAIN recent : Len(recent[k].toolCalls) = 1 /\ recent[k].toolCalls = recent[1].toolCalls)
               <=> \E call \in Listed(CallLists) : Run(so, n - def.n, call)
  <2>1. DOMAIN recent = 1..def.n /\ \A k \in 1..def.n : recent[k] = so[n - def.n + k] /\ n - def.n + k \in 1..n
    <3> DEFINE m == n - def.n + 1
    <3>1. m \in 1..n /\ n \in Int /\ n - m + 1 = def.n /\ m <= n /\ \A i \in m..n : so[i] \in StopStep
      BY <1>1, <1>2, <1>7
    <3>2. recent = SubSeq(so, m, n)
      OBVIOUS
    <3> HIDE DEF m, recent
    <3>3. recent \in Seq(StopStep) /\ Len(recent) = n - m + 1 /\ \A i \in 1..(n - m + 1) : recent[i] = so[m + i - 1]
      BY <1>1, <3>1, <3>2, SubSeqProperties
    <3>4. DOMAIN recent = 1..def.n
      BY <3>1, <3>3, LenProperties
    <3>5. \A k \in 1..def.n : m + k - 1 = n - def.n + k /\ n - def.n + k \in 1..n
      BY <1>1, <1>2, <1>7 DEF m
    <3> QED BY <3>1, <3>3, <3>4, <3>5
  <2>2. \A k \in 1..def.n : recent[k].toolCalls \in CallLists
    BY <1>1, <2>1 DEF StopStep
  <2>3. 1 \in 1..def.n
    BY <1>2
  <2> HIDE DEF recent
  <2>4. ASSUME NEW call \in Listed(CallLists), Run(so, n - def.n, call), NEW k \in DOMAIN recent
        PROVE  Len(recent[k].toolCalls) = 1 /\ recent[k].toolCalls = recent[1].toolCalls
    <3>1. \A j \in 1..def.n : recent[j].toolCalls = <<call>>
      BY <2>1, <2>4
    <3>2. k \in 1..def.n /\ Len(<<call>>) = 1
      BY <2>1, <2>4
    <3> HIDE DEF Run
    <3> QED BY <2>3, <3>1, <3>2
  <2>5. ASSUME \A k \in DOMAIN recent : Len(recent[k].toolCalls) = 1 /\ recent[k].toolCalls = recent[1].toolCalls
        PROVE  \E call \in Listed(CallLists) : Run(so, n - def.n, call)
    <3> DEFINE first == recent[1].toolCalls
    <3>1. Len(first) = 1 /\ first \in CallLists /\ first \in Seq(Listed(CallLists))
      BY <2>1, <2>2, <2>3, <2>5, StopAssumption
    <3>2. first = <<first[1]>> /\ first[1] \in Listed(CallLists)
      <4> HIDE DEF first
      <4>1. first[1] \in Listed(CallLists)
        <5>1. 1 \in 1..Len(first)
          BY <3>1
        <5> QED BY <3>1, <5>1, ElementOfSeq
      <4>2. <<first[1]>> \in Seq(Listed(CallLists)) /\ Len(<<first[1]>>) = 1 /\ <<first[1]>>[1] = first[1]
        BY <4>1
      <4>3. \A i \in 1..Len(first) : first[i] = <<first[1]>>[i]
        BY <3>1, <4>2
      <4> QED BY <3>1, <4>1, <4>2, <4>3, SeqEqual
    <3>3. \A k \in 1..def.n : so[n - def.n + k].toolCalls = first
      BY <2>1, <2>5
    <3> HIDE DEF first
    <3>4. Run(so, n - def.n, first[1])
      BY <3>2, <3>3
    <3> HIDE DEF Run
    <3> QED BY <3>2, <3>4
  <2> QED BY <2>4, <2>5
<1> HIDE DEF recent, Run
<1> QED BY <1>3, <1>6, <1>7

\* After a step that nothing before has stopped, a condition fires exactly if it says stop.
LEMMA Due ==
  ASSUME NEW so \in StopSteps, so # <<>>, NEW def \in Listed(Stops), Quiet(def, Front(so))
  PROVE  check(def, so) <=> ~KeepsOn(def, so)
<1> DEFINE n == Len(so)
<1>1. /\ n \in Nat \ {0} /\ DOMAIN so = 1..n /\ DOMAIN Front(so) = 1..(n - 1)
      /\ \A k \in 1..(n - 1) : Front(so)[k] = so[k]
      /\ Last(so) = so[n] /\ \A k \in 1..n : k = n \/ k \in 1..(n - 1)
  BY FrontIs
<1>2. def.n \in Nat \ {0} /\ def.name \in StopNames
  BY StopAssumption
<1>3. KeepsOn(def, Front(so))
  BY DEF Quiet
<1>4. CASE def.name = "maxSteps"
  BY <1>1, <1>2, <1>4 DEF check, KeepsOn, GoesOn, maxSteps
<1>5. CASE def.name = "toolCalled"
  <2>1. check(def, so) <=> \E c \in ToSet(so[n].toolCalls) : c.tool = def.tool
    BY <1>1, <1>5 DEF check, toolCalled
  <2>2. \A q : KeepsOn(def, q) <=> \A k \in DOMAIN q : \A c \in ToSet(q[k].toolCalls) : c.tool # def.tool
    BY <1>5 DEF KeepsOn, GoesOn
  <2> HIDE DEF n
  <2> QED BY <1>1, <1>3, <2>1, <2>2
<1>6. CASE def.name = "toolCompleted"
  <2> DEFINE Ran(k, q) == \E i \in DOMAIN q[k].toolResults : q[k].toolResults[i].tool = def.tool /\ ~q[k].toolResults[i].isError
  <2>1. check(def, so) <=> Ran(n, so)
    BY <1>1, <1>6 DEF check, toolCompleted
  <2>2. \A q : KeepsOn(def, q) <=> \A k \in DOMAIN q : ~Ran(k, q)
    BY <1>6 DEF KeepsOn, GoesOn
  <2>3. \A k \in 1..(n - 1) : Ran(k, so) <=> Ran(k, Front(so))
    BY <1>1
  <2> HIDE DEF n, Ran
  <2> QED BY <1>1, <1>3, <2>1, <2>2, <2>3
<1>7. CASE def.name = "totalToolFailures"
  <2>1. Cardinality(EntriesIn(def, so, 0, n)) \in Nat
    <3>1. 0 \in 0..Len(so) /\ n \in 0..Len(so)
      BY DEF StopSteps
    <3> HIDE DEF n
    <3> QED BY <3>1, FiniteIn
  <2>2. check(def, so) <=> Cardinality(EntriesIn(def, so, 0, n)) >= def.n
    BY <1>7, TotalIs DEF check
  <2>3. KeepsOn(def, so) <=> Cardinality(EntriesIn(def, so, 0, n)) < def.n
    BY <1>7 DEF KeepsOn
  <2> QED BY <1>2, <2>1, <2>2, <2>3
<1>8. CASE def.name = "consecutiveToolFailures"
  BY <1>8, ConsecutiveDue
<1>9. CASE def.name = "doomLoop"
  BY <1>3, <1>9, DoomDue
<1> QED BY <1>2, <1>4, <1>5, <1>6, <1>7, <1>8, <1>9 DEF StopNames

\* The condition that fires is one of the list, of the timing, that says stop; where
\* none fires, none of the timing says so.
LEMMA FirstFires ==
  ASSUME NEW defs \in Stops, NEW so, NEW when
  PROVE  LET d == shouldStop(defs, so, when)
         IN /\ d # Nothing => d \in ToSet(defs) /\ timing(d) = when /\ check(d, so)
            /\ d = Nothing => \A e \in ToSet(defs) : timing(e) = when => ~check(e, so)
<1> DEFINE hits == {i \in DOMAIN defs : timing(defs[i]) = when /\ check(defs[i], so)}
           first == CHOOSE i \in hits : \A j \in hits : i =< j
<1>1. shouldStop(defs, so, when) = IF hits = {} THEN Nothing ELSE defs[first]
  BY DEF shouldStop
<1>2. hits \in SUBSET Nat /\ \A i \in DOMAIN defs : defs[i] # Nothing
  <2>1. defs \in Seq(Listed(Stops)) /\ \A i \in DOMAIN defs : defs[i] \in Listed(Stops)
    BY StopAssumption
  <2> QED BY <2>1, StopAssumption
<1>3. hits # {} => first \in hits
  <2> HIDE DEF hits
  <2> QED BY <1>2, Smallest
<1>4. CASE hits = {}
  BY <1>1, <1>4 DEF ToSet
<1>5. CASE hits # {}
  <2> HIDE DEF first
  <2>1. first \in DOMAIN defs /\ timing(defs[first]) = when /\ check(defs[first], so)
    BY <1>3, <1>5
  <2> QED BY <1>1, <1>2, <1>5, <2>1 DEF ToSet
<1> QED BY <1>4, <1>5

LEMMA StopStart == StopInit => StopInv
<1> SUFFICES ASSUME StopInit PROVE StopInv
  OBVIOUS
<1>1. steps = <<>> /\ steps \in StopSteps /\ Len(steps) = 0 /\ DOMAIN steps = {}
  BY DEF StopInit, StopSteps
<1>2. ASSUME NEW def \in ToSet(stopWhen) PROVE Quiet(def, steps)
  <2>1. def \in Listed(Stops)
    BY DEF StopInit, Listed, ToSet
  <2>2. def.n \in Nat \ {0} /\ def.name \in StopNames
    BY <2>1, StopAssumption
  <2>3. EntriesIn(def, steps, 0, 0) = {} /\ Cardinality(EntriesIn(def, steps, 0, 0)) = 0
    BY NoneIn DEF EntriesIn
  <2>4. LastGood(def, steps, 0) = 0
    BY LastGoodIs
  <2>5. ~consecutiveToolFailures(def, steps)
    BY <1>1, ConsecutiveIs
  <2>6. def.name = "doomLoop" => KeepsOn(def, steps)
    <3>1. 0..(0 - def.n) = {}
      BY <2>2
    <3> QED BY <1>1, <3>1 DEF KeepsOn, GoesOn
  <2>7. def.name # "doomLoop" => KeepsOn(def, steps)
    <3>1. def.name = "maxSteps" => KeepsOn(def, steps)
      BY <1>1, <2>2 DEF KeepsOn, GoesOn
    <3>2. def.name \in {"toolCalled", "toolCompleted"} => KeepsOn(def, steps)
      BY <1>1 DEF KeepsOn, GoesOn
    <3>3. def.name = "totalToolFailures" => KeepsOn(def, steps)
      <4>1. 0 < def.n BY <2>2
      <4> QED BY <1>1, <2>3, <4>1 DEF KeepsOn
    <3>4. def.name = "consecutiveToolFailures" => KeepsOn(def, steps)
      <4>1. 0 < def.n BY <2>2
      <4> QED BY <1>1, <2>3, <2>4, <4>1 DEF KeepsOn
    <3> QED BY <2>2, <3>1, <3>2, <3>3, <3>4 DEF StopNames
  <2> QED BY <2>5, <2>6, <2>7 DEF Quiet, check
<1> QED BY <1>1, <1>2 DEF StopInit, StopInv

LEMMA StopGenerates ==
  ASSUME StopInv, Generate
  PROVE  StopInv'
<1> PICK answer \in CallLists : steps' = Append(steps, [toolCalls |-> answer, toolResults |-> <<>>])
  BY DEF Generate
<1>1. <<>> \in StopResults /\ DOMAIN <<>> = {}
  <2>1. DOMAIN <<>> = {} /\ <<>> \in [{} -> StopOutcomes]
    OBVIOUS
  <2> QED BY <2>1, FS_EmptySet DEF StopResults
<1>2. [toolCalls |-> answer, toolResults |-> <<>>] \in StopStep
  BY <1>1 DEF StopStep
<1>3. /\ steps' \in StopSteps /\ steps' # <<>> /\ Front(steps') = steps /\ Last(steps').toolResults = <<>>
      /\ stopWhen \in Stops /\ stopWhen' = stopWhen /\ stage = "model" /\ stage' # "model"
  <2> DEFINE new == [toolCalls |-> answer, toolResults |-> <<>>]
  <2>1. new.toolResults = <<>>
    OBVIOUS
  <2> HIDE DEF new
  <2>2. steps \in Seq(StopStep) /\ new \in StopStep /\ steps' = Append(steps, new)
    BY <1>2 DEF StopInv, StopSteps, new
  <2>3. /\ steps' \in Seq(StopStep) /\ Len(steps') = Len(steps) + 1 /\ steps'[Len(steps) + 1] = new
        /\ Len(steps) \in Nat /\ \A k \in 1..Len(steps) : steps'[k] = steps[k]
    BY <2>2
  <2>4. steps' # <<>>
    BY <2>3
  <2>5. Len(Front(steps')) = Len(steps) /\ Front(steps') \in Seq(StopStep) /\ \A k \in 1..Len(steps) : Front(steps')[k] = steps[k]
    <3>1. steps' \in StopSteps
      BY <2>3 DEF StopSteps
    <3>2. /\ Front(steps') \in StopSteps /\ Len(Front(steps')) = Len(steps') - 1
          /\ \A k \in 1..(Len(steps') - 1) : Front(steps')[k] = steps'[k]
      BY <2>4, <3>1, FrontIs
    <3>3. Len(steps') - 1 = Len(steps)
      BY <2>3
    <3> QED BY <2>3, <3>2, <3>3 DEF StopSteps
  <2>6. Front(steps') = steps
    BY <2>2, <2>5, SeqEqual
  <2>7. Last(steps').toolResults = <<>>
    BY <2>1, <2>3, <2>4, FrontIs DEF StopSteps
  <2>8. stage' # "model" /\ stage = "model" /\ stopWhen' = stopWhen /\ stopWhen \in Stops
    BY DEF Generate, checkStopConditions, StopInv
  <2> QED BY <2>3, <2>4, <2>6, <2>7, <2>8 DEF StopSteps
<1>4. \A def \in ToSet(stopWhen) : Quiet(def, steps) /\ def \in Listed(Stops)
  BY <1>3 DEF StopInv, Listed, ToSet
<1>5. \A def \in ToSet(stopWhen) : check(def, steps') <=> ~KeepsOn(def, steps')
  BY <1>3, <1>4, Due
<1>6. /\ fired' = shouldStop(stopWhen, steps', "beforeExecution")
      /\ stage' = IF fired' = Nothing THEN "executing" ELSE "stopped"
  BY DEF Generate, checkStopConditions
<1>7. fired' # Nothing => fired' \in ToSet(stopWhen) /\ check(fired', steps')
  BY <1>3, <1>6, FirstFires
<1>8. fired' = Nothing => \A e \in ToSet(stopWhen) : timing(e) = "beforeExecution" => ~check(e, steps')
  BY <1>3, <1>6, FirstFires
<1> QED BY <1>3, <1>4, <1>5, <1>6, <1>7, <1>8 DEF StopInv

LEMMA PushedIn ==
  ASSUME NEW asked, NEW fate, NEW live \in SUBSET DOMAIN asked, DOMAIN asked \in SUBSET Nat, IsFiniteSet(DOMAIN asked)
  PROVE  /\ \A r \in Pushed(asked, fate, live) : r[1] \in DOMAIN asked
         /\ Pushed(asked, fate, live) \in SUBSET (Nat \X {1, 2}) /\ IsFiniteSet(Pushed(asked, fate, live))
<1> DEFINE D == DOMAIN asked
           R == Pushed(asked, fate, live)
<1>1. ASSUME NEW r \in R PROVE \E i \in D, j \in {1, 2} : r = <<i, j>>
  <2>1. r \in (D \ live) \X (IF live = {} THEN {1} ELSE {1, 2}) \/ r \in {i \in live : fate[i] # "unrun"} \X {1}
    BY <1>1 DEF Pushed
  <2> HIDE DEF R
  <2> QED BY <2>1
<1> HIDE DEF D, R
<1>2. \A r \in R : r[1] \in D
  BY <1>1
<1>3. R \in SUBSET (D \X {1, 2})
  BY <1>1
<1>4. IsFiniteSet(R)
  <2>1. IsFiniteSet({1}) /\ {1, 2} = {1} \cup {2}
    BY FS_Singleton
  <2>2. IsFiniteSet({1, 2})
    BY <2>1, FS_AddElement
  <2>3. IsFiniteSet(D \X {1, 2})
    BY <2>2, FS_Product DEF D
  <2> QED BY <1>3, <2>3, FS_Subset
<1>5. R \in SUBSET (Nat \X {1, 2})
  <2>1. \A i \in D : i \in Nat
    BY DEF D
  <2>2. \A r \in R : \E i \in Nat, j \in {1, 2} : r = <<i, j>>
    BY <1>1, <2>1
  <2> QED BY <2>2
<1> QED BY <1>2, <1>4, <1>5 DEF D, R

LEMMA StopExecutes ==
  ASSUME StopInv, Execute
  PROVE  StopInv'
<1> DEFINE asked == Last(steps).toolCalls
           n == Len(steps)
<1>1. /\ stage = "executing" /\ steps \in StopSteps /\ steps # <<>> /\ stopWhen \in Stops /\ stopWhen' = stopWhen
  BY DEF StopInv, Execute, checkStopConditions
<1>2. n \in Nat \ {0} /\ asked \in CallLists /\ Last(steps) = steps[n] /\ steps[n] \in StopStep
  BY <1>1, FrontIs DEF StopStep
<1> PICK fate \in [DOMAIN asked -> Fates], live \in SUBSET DOMAIN asked :
         steps' = [steps EXCEPT ![n].toolResults =
                     [r \in Pushed(asked, fate, live) |->
                        [tool |-> asked[r[1]].tool, output |-> fate[r[1]], isError |-> fate[r[1]] = "failed"]]]
  BY DEF Execute
<1> DEFINE ran == Pushed(asked, fate, live)
           results == [r \in ran |-> [tool |-> asked[r[1]].tool, output |-> fate[r[1]], isError |-> fate[r[1]] = "failed"]]
<1>3. results \in StopResults
  <2>1. asked \in Seq(Listed(CallLists))
    BY <1>2, StopAssumption
  <2>2. DOMAIN asked \in SUBSET Nat /\ IsFiniteSet(DOMAIN asked)
    <3>1. DOMAIN asked = 1..Len(asked) /\ Len(asked) \in Nat
      BY <2>1
    <3>2. IsFiniteSet(1..Len(asked))
      <4>1. 1 \in Int /\ Len(asked) \in Int
        BY <3>1
      <4> HIDE DEF asked
      <4> QED BY <4>1, FS_Interval
    <3> QED BY <3>1, <3>2
  <2>3. ran \in SUBSET (Nat \X {1, 2}) /\ IsFiniteSet(ran) /\ \A r \in ran : r[1] \in DOMAIN asked
    <3> HIDE DEF asked
    <3> QED BY <2>2, PushedIn
  <2>4. \A i \in DOMAIN asked : asked[i] \in Listed(CallLists)
    BY <2>1
  <2>5. \A r \in ran : r[1] \in DOMAIN asked /\ asked[r[1]] \in Listed(CallLists)
    <3> HIDE DEF ran, asked
    <3> QED BY <2>3, <2>4
  <2>6. \A r \in ran : results[r] \in StopOutcomes
    <3> TAKE r \in ran
    <3>1. asked[r[1]].tool \in StopTools
      BY <2>5 DEF StopTools
    <3>2. fate[r[1]] \in Fates
      BY <2>5
    <3> HIDE DEF ran, asked
    <3> QED BY <3>1, <3>2 DEF StopOutcomes
  <2>7. results \in [ran -> StopOutcomes]
    <3> HIDE DEF ran, asked
    <3> QED BY <2>6
  <2> HIDE DEF ran, asked
  <2>8. results \in UNION {[S -> StopOutcomes] : S \in SUBSET (Nat \X {1, 2})} /\ DOMAIN results = ran
    <3> HIDE DEF results
    <3> QED BY <2>3, <2>7
  <2> HIDE DEF results
  <2> QED BY <2>3, <2>8 DEF StopResults
<1> HIDE DEF results
<1>4. steps' = [steps EXCEPT ![n] = [steps[n] EXCEPT !.toolResults = results]]
  BY DEF results
<1>5. [steps[n] EXCEPT !.toolResults = results] \in StopStep
  BY <1>2, <1>3 DEF StopStep
<1>6. steps' \in StopSteps /\ Len(steps') = n /\ steps' # <<>> /\ DOMAIN steps' = 1..n /\ DOMAIN steps = 1..n
  BY <1>1, <1>2, <1>4, <1>5 DEF StopSteps
<1>7. Front(steps') = Front(steps)
  <2>1. \A k \in 1..(n - 1) : steps'[k] = steps[k]
    BY <1>1, <1>2, <1>4 DEF StopSteps
  <2>2. \A k \in 1..(n - 1) : Front(steps')[k] = Front(steps)[k]
    BY <1>1, <1>6, <2>1, FrontIs
  <2>3. Len(Front(steps')) = Len(Front(steps)) /\ Front(steps) \in StopSteps /\ Front(steps') \in StopSteps /\ Len(Front(steps)) = n - 1
    BY <1>1, <1>6, FrontIs
  <2>4. \A k \in 1..Len(Front(steps')) : Front(steps')[k] = Front(steps)[k]
    BY <2>2, <2>3
  <2> QED BY <2>3, <2>4, SeqEqual DEF StopSteps
<1>8. \A k \in 1..n : steps'[k].toolCalls = steps[k].toolCalls
  BY <1>1, <1>2, <1>4 DEF StopSteps, StopStep
<1>9. \A def \in ToSet(stopWhen) : Quiet(def, Front(steps)) /\ def \in Listed(Stops) /\ (timing(def) = "beforeExecution" => KeepsOn(def, steps))
  BY <1>1 DEF StopInv, Listed, ToSet
<1>10. \A def \in ToSet(stopWhen) : check(def, steps') <=> ~KeepsOn(def, steps')
  BY <1>6, <1>7, <1>9, Due
<1>11. \A def \in ToSet(stopWhen) : timing(def) = "beforeExecution" => KeepsOn(def, steps')
  <2> SUFFICES ASSUME NEW def \in ToSet(stopWhen), timing(def) = "beforeExecution" PROVE KeepsOn(def, steps')
    OBVIOUS
  <2>1. def.name = "toolCalled" /\ KeepsOn(def, steps)
    BY <1>9 DEF timing
  <2>2. \A q : KeepsOn(def, q) <=> \A k \in DOMAIN q : \A c \in ToSet(q[k].toolCalls) : c.tool # def.tool
    BY <2>1 DEF KeepsOn, GoesOn
  <2>3. \A k \in 1..n : k \in DOMAIN steps
    BY <1>6
  <2>4. \A k \in DOMAIN steps' : k \in 1..n
    BY <1>6
  <2> HIDE DEF n, asked
  <2>5. \A k \in DOMAIN steps' : k \in DOMAIN steps /\ ToSet(steps'[k].toolCalls) = ToSet(steps[k].toolCalls)
    BY <1>8, <2>3, <2>4
  <2>6. KeepsOn(def, steps') <=> \A k \in DOMAIN steps' : \A c \in ToSet(steps'[k].toolCalls) : c.tool # def.tool
    BY <2>2
  <2>7. \A k \in DOMAIN steps : \A c \in ToSet(steps[k].toolCalls) : c.tool # def.tool
    BY <2>1, <2>2
  <2>8. \A k \in DOMAIN steps' : \A c \in ToSet(steps'[k].toolCalls) : c.tool # def.tool
    BY <2>5, <2>7
  <2> QED BY <2>6, <2>8
<1>12. /\ fired' = shouldStop(stopWhen, steps', "afterExecution")
       /\ stage' = IF fired' = Nothing THEN "model" ELSE "stopped"
  BY DEF Execute, checkStopConditions
<1>13. fired' # Nothing => fired' \in ToSet(stopWhen) /\ check(fired', steps')
  BY <1>1, <1>12, FirstFires
<1>14. fired' = Nothing => \A e \in ToSet(stopWhen) : timing(e) = "afterExecution" => ~check(e, steps')
  BY <1>1, <1>12, FirstFires
<1>15. fired' = Nothing => \A def \in ToSet(stopWhen) : Quiet(def, steps')
  <2> SUFFICES ASSUME fired' = Nothing, NEW def \in ToSet(stopWhen) PROVE Quiet(def, steps')
    OBVIOUS
  <2>1. KeepsOn(def, steps')
    BY <1>10, <1>11, <1>14 DEF timing
  <2> QED BY <1>10, <2>1 DEF Quiet
<1>16. fired' # Nothing => fired' \in Listed(Stops) /\ ~KeepsOn(fired', steps')
  BY <1>9, <1>10, <1>13
<1> QED BY <1>1, <1>6, <1>12, <1>15, <1>16 DEF StopInv

\* A failed call has at least one result that failed, and one only where none was pushed again.
LEMMA CallsOfEntries ==
  ASSUME NEW def, NEW so \in StopSteps, NEW a \in 0..Len(so), NEW b \in 0..Len(so)
  PROVE  /\ Cardinality(FailuresIn(def, so, a, b)) \in Nat
         /\ Cardinality(FailuresIn(def, so, a, b)) =< Cardinality(EntriesIn(def, so, a, b))
         /\ ~PushedAgain(def, so) =>
              Cardinality(FailuresIn(def, so, a, b)) = Cardinality(EntriesIn(def, so, a, b))
<1> DEFINE S == EntriesIn(def, so, a, b)
           T == FailuresIn(def, so, a, b)
           call(e) == <<e[1], e[2][1]>>
           f == [e \in S |-> call(e)]
<1>1. IsFiniteSet(S) /\ Cardinality(S) \in Nat
  BY FiniteIn
<1>2. \A e : e \in S <=> \E k \in (a + 1)..b : \E r \in Failures(def, so[k]) : e = <<k, r>>
  BY DEF EntriesIn
<1>3. \A c : c \in T <=> \E k \in (a + 1)..b : \E r \in Failures(def, so[k]) : c = <<k, r[1]>>
  BY DEF FailuresIn, FailedCalls
<1>4. \A e \in S : call(e) \in T
  <2> TAKE e \in S
  <2> PICK k \in (a + 1)..b : \E r \in Failures(def, so[k]) : e = <<k, r>>
    BY <1>2
  <2> PICK r \in Failures(def, so[k]) : e = <<k, r>>
    OBVIOUS
  <2>1. call(e) = <<k, r[1]>>
    OBVIOUS
  <2> HIDE DEF S, T
  <2> QED BY <1>3, <2>1
<1>5. \A c \in T : \E e \in S : call(e) = c
  <2> TAKE c \in T
  <2> PICK k \in (a + 1)..b : \E r \in Failures(def, so[k]) : c = <<k, r[1]>>
    BY <1>3
  <2> PICK r \in Failures(def, so[k]) : c = <<k, r[1]>>
    OBVIOUS
  <2>1. <<k, r>> \in S
    <3> HIDE DEF S
    <3> QED BY <1>2
  <2>2. call(<<k, r>>) = c
    OBVIOUS
  <2> HIDE DEF S
  <2> QED BY <2>1, <2>2
<1>6. f \in Surjection(S, T)
  <2>1. f \in [S -> T]
    <3> HIDE DEF S, T, call
    <3> QED BY <1>4
  <2>2. \A c \in T : \E e \in S : f[e] = c
    <3> HIDE DEF S, T, call
    <3> QED BY <1>5
  <2> HIDE DEF f, S, T
  <2> QED BY <2>1, <2>2 DEF Surjection
<1>7. ASSUME ~PushedAgain(def, so) PROVE f \in Injection(S, T)
  <2>1. \A x, y \in S : call(x) = call(y) => x = y
    <3> TAKE x, y \in S
    <3> HAVE call(x) = call(y)
    <3> PICK k \in (a + 1)..b : \E r \in Failures(def, so[k]) : x = <<k, r>>
      BY <1>2
    <3> PICK r \in Failures(def, so[k]) : x = <<k, r>>
      OBVIOUS
    <3> PICK l \in (a + 1)..b : \E q \in Failures(def, so[l]) : y = <<l, q>>
      BY <1>2
    <3> PICK q \in Failures(def, so[l]) : y = <<l, q>>
      OBVIOUS
    <3>1. k = l /\ r[1] = q[1]
      OBVIOUS
    <3>2. k \in DOMAIN so /\ so[k] \in StopStep
      BY DEF StopSteps
    <3>3. \A t \in Failures(def, so[k]) : t \in Nat \X {1, 2} /\ t[2] # 2
      <4>1. DOMAIN so[k].toolResults \in SUBSET (Nat \X {1, 2})
        BY <3>2 DEF StopStep, StopResults
      <4>2. Failures(def, so[k]) \in SUBSET DOMAIN so[k].toolResults
        BY DEF Failures, Relevant
      <4> QED BY <1>7, <3>2, <4>1, <4>2 DEF PushedAgain
    <3>4. r = <<r[1], 1>> /\ q = <<q[1], 1>>
      BY <3>1, <3>3
    <3> QED BY <3>1, <3>4
  <2>2. f \in [S -> T]
    <3> HIDE DEF S, T, call
    <3> QED BY <1>4
  <2>3. \A x, y \in S : f[x] = f[y] => x = y
    <3> HIDE DEF S, T, call
    <3> QED BY <2>1
  <2> HIDE DEF f, S, T
  <2> QED BY <2>2, <2>3 DEF Injection, IsInjective
<1> HIDE DEF S, T, f
<1>8. IsFiniteSet(T) /\ Cardinality(T) =< Cardinality(S) /\ (Cardinality(T) = Cardinality(S) <=> f \in Injection(S, T))
  BY <1>1, <1>6, FS_Surjection
<1>9. Cardinality(T) \in Nat
  BY <1>8, FS_CardinalityType
<1> QED BY <1>7, <1>8, <1>9 DEF S, T

LEMMA CountedByCalls ==
  ASSUME NEW def \in Listed(Stops), NEW so \in StopSteps
  PROVE  /\ KeepsOn(def, so) => GoesOn(def, so)
         /\ ~KeepsOn(def, so) =>
              \/ ~GoesOn(def, so)
              \/ def.name \in {"totalToolFailures", "consecutiveToolFailures"} /\ PushedAgain(def, so)
<1>1. def.n \in Nat /\ def.name \in StopNames
  BY StopAssumption
<1>2. Len(so) \in Nat /\ 0 \in 0..Len(so) /\ Len(so) \in 0..Len(so)
  BY DEF StopSteps
<1>3. CASE def.name = "totalToolFailures"
  <2>1. KeepsOn(def, so) <=> Cardinality(EntriesIn(def, so, 0, Len(so))) < def.n
    BY <1>3 DEF KeepsOn
  <2>2. GoesOn(def, so) <=> Cardinality(FailuresIn(def, so, 0, Len(so))) < def.n
    BY <1>3 DEF GoesOn
  <2>3. Cardinality(EntriesIn(def, so, 0, Len(so))) \in Nat
    BY <1>2, FiniteIn
  <2> DEFINE failed == Cardinality(FailuresIn(def, so, 0, Len(so)))
             entries == Cardinality(EntriesIn(def, so, 0, Len(so)))
  <2>4. failed \in Nat /\ failed =< entries /\ (~PushedAgain(def, so) => failed = entries)
    BY <1>2, CallsOfEntries
  <2> HIDE DEF failed, entries
  <2> QED BY <1>1, <1>3, <2>1, <2>2, <2>3, <2>4 DEF failed, entries
<1>4. CASE def.name = "consecutiveToolFailures"
  <2> DEFINE from == LastGood(def, so, Len(so))
  <2>1. KeepsOn(def, so) <=> Cardinality(EntriesIn(def, so, from, Len(so))) < def.n
    BY <1>4 DEF KeepsOn
  <2>2. GoesOn(def, so) <=> Cardinality(FailuresIn(def, so, from, Len(so))) < def.n
    BY <1>4 DEF GoesOn
  <2>3. from \in 0..Len(so)
    BY <1>2, LastGoodIs
  <2>4. Cardinality(EntriesIn(def, so, from, Len(so))) \in Nat
    BY <1>2, <2>3, FiniteIn
  <2> HIDE DEF from
  <2> DEFINE failed == Cardinality(FailuresIn(def, so, from, Len(so)))
             entries == Cardinality(EntriesIn(def, so, from, Len(so)))
  <2>5. failed \in Nat /\ failed =< entries /\ (~PushedAgain(def, so) => failed = entries)
    BY <1>2, <2>3, CallsOfEntries
  <2> HIDE DEF failed, entries
  <2> QED BY <1>1, <1>4, <2>1, <2>2, <2>4, <2>5 DEF failed, entries
<1>5. CASE def.name \notin {"totalToolFailures", "consecutiveToolFailures"}
  BY <1>5 DEF KeepsOn
<1> QED BY <1>3, <1>4, <1>5

\* Whatever conditions a run has and whatever its steps call, it goes on only as long as no
\* condition, each as it is described, says that it should stop, and the condition that
\* stopped it says so, but for failures that were counted twice.
THEOREM StopsWhenItShould == StopSpec => []StopsWhenDue
<1>1. StopInv /\ [StopNext]_stopVars => StopInv'
  <2> SUFFICES ASSUME StopInv, [StopNext]_stopVars PROVE StopInv'
    OBVIOUS
  <2>1. CASE UNCHANGED stopVars
    <3>1. stopWhen' = stopWhen /\ steps' = steps /\ stage' = stage /\ fired' = fired
      BY <2>1 DEF stopVars
    <3> QED BY <3>1 DEF StopInv
  <2>2. CASE Leave
    BY <2>2 DEF Leave, StopInv
  <2> QED BY <2>1, <2>2, StopGenerates, StopExecutes DEF StopNext
<1>2. StopInv => StopsWhenDue
  <2> SUFFICES ASSUME StopInv PROVE StopsWhenDue
    OBVIOUS
  <2>1. ASSUME stage = "model", NEW def \in ToSet(stopWhen) PROVE GoesOn(def, steps)
    <3>1. def \in Listed(Stops) /\ KeepsOn(def, steps) /\ steps \in StopSteps
      BY <2>1 DEF StopInv, Listed, ToSet, Quiet
    <3> QED BY <3>1, CountedByCalls
  <2>2. ASSUME fired # Nothing
        PROVE  \/ ~GoesOn(fired, steps)
               \/ fired.name \in {"totalToolFailures", "consecutiveToolFailures"} /\ PushedAgain(fired, steps)
    <3>1. fired \in Listed(Stops) /\ ~KeepsOn(fired, steps) /\ steps \in StopSteps
      BY <2>2 DEF StopInv
    <3> QED BY <3>1, CountedByCalls
  <2> QED BY <2>1, <2>2 DEF StopsWhenDue
<1> QED BY StopStart, <1>1, <1>2, PTL DEF StopSpec

-----------------------------------------------------------------------------
(* Documents: a view catches up.                                           *)

\* A view that was notified has its microtask queued.
Views == [shown : {view.shown}, listening : BOOLEAN, flag : BOOLEAN, queued : BOOLEAN, due : BOOLEAN, slipped : BOOLEAN]
Viewing == view \in Views /\ (view.flag => view.queued)
Files == DOMAIN doc = Replicas /\ \A r \in Replicas : doc[r] # Absent =>
           "comments" \in DOMAIN doc[r] /\ doc[r].comments \subseteq DOMAIN anchors
VInv == Viewing /\ Files /\ ViewCatchesUp

\* What a component makes of a file is not changed by the anchors of a comment that it has not.
LEMMA SnapshotStays ==
  ASSUME NEW d, d # Absent, d.comments \subseteq DOMAIN anchors,
         \A c \in DOMAIN anchors : anchors'[c] = anchors[c]
  PROVE  Snapshot(d)' = Snapshot(d)
<1>1. \A c \in d.comments : Position(d, anchors'[c][1]) = Position(d, anchors[c][1])
  OBVIOUS
<1> QED BY <1>1 DEF Snapshot, getCommentRecords

LEMMA NotifyIs ==
  ASSUME Viewing
  PROVE  LET v == notify(view) IN
           /\ v \in [shown : {view.shown}, listening : BOOLEAN, flag : BOOLEAN, queued : BOOLEAN, due : BOOLEAN, slipped : BOOLEAN]
           /\ v.queued
BY DEF Viewing, Views, notify

\* A view that hears of a change has a notification queued; one that does not has slipped.
LEMMA NoticedKeeps ==
  ASSUME Viewing, NEW d, Noticed(d), doc'[Viewer] = d, UNCHANGED anchors
  PROVE  Viewing' /\ ViewCatchesUp'
<1>1. Snapshot(d)' = Snapshot(d)
  BY DEF Snapshot, getCommentRecords
<1>2. CASE view.listening
  <2>1. view' = notify(view)
    BY <1>2 DEF Noticed
  <2> QED BY <2>1, NotifyIs DEF Viewing, Views, ViewCatchesUp
<1>3. CASE ~view.listening
  <2>1. view' = [view EXCEPT !.slipped = @ \/ Snapshot(d) # view.shown]
    BY <1>3 DEF Noticed
  <2>2. Viewing'
    BY <2>1 DEF Viewing, Views
  <2>3. view'.slipped \/ view'.shown = Snapshot(d)
    BY <2>1 DEF Viewing, Views
  <2>4. ViewCatchesUp'
    BY <1>1, <2>3 DEF ViewCatchesUp
  <2> QED BY <2>2, <2>4
<1> QED BY <1>2, <1>3

\* Where neither the viewer's file nor the view changes.
LEMMA SameView ==
  ASSUME VInv, UNCHANGED view, doc'[Viewer] = doc[Viewer], \A c \in DOMAIN anchors : anchors'[c] = anchors[c]
  PROVE  Viewing' /\ ViewCatchesUp'
<1>1. Viewing'
  BY DEF VInv, Viewing, Views
<1> PICK d : d = doc[Viewer]
  OBVIOUS
<1>2. Snapshot(d)' = Snapshot(d)
  <2>1. CASE d = Absent
    BY <2>1 DEF Snapshot
  <2>2. CASE d # Absent
    BY <2>2, SnapshotStays, DocumentsAssumption DEF VInv, Files
  <2> QED BY <2>1, <2>2
<1>3. ViewCatchesUp'
  BY <1>2 DEF VInv, ViewCatchesUp
<1> QED BY <1>1, <1>3

-----------------------------------------------------------------------------
(* Each action keeps the invariant.                                        *)

\* A file with comments that have been made.
IsFile(d) == d # Absent => "comments" \in DOMAIN d /\ d.comments \subseteq DOMAIN anchors

LEMMA ChangeKeeps ==
  ASSUME VInv, NEW r \in Replicas, NEW d, NEW keys, Change(r, d, keys), IsFile(d), UNCHANGED anchors
  PROVE  VInv'
<1>1. doc' = [doc EXCEPT ![r] = d] /\ DOMAIN doc = Replicas
  BY DEF Change, VInv, Files
<1>2. Files'
  BY <1>1 DEF VInv, Files, IsFile
<1>3. CASE r = Viewer
  BY <1>1, <1>2, <1>3, NoticedKeeps DEF Change, VInv
<1>4. CASE r # Viewer
  BY <1>1, <1>2, <1>4, SameView, DocumentsAssumption DEF Change, VInv
<1> QED BY <1>3, <1>4

LEMMA EditsKeepComments ==
  ASSUME NEW d, "comments" \in DOMAIN d, NEW i, NEW n, NEW new
  PROVE  /\ "comments" \in DOMAIN TextInsert(d, i, new) /\ TextInsert(d, i, new).comments = d.comments
         /\ "comments" \in DOMAIN content_edit(d, i, n, new) /\ content_edit(d, i, n, new).comments = d.comments
<1>1. ASSUME NEW e, "comments" \in DOMAIN e
      PROVE  "comments" \in DOMAIN TextInsert(e, i, new) /\ TextInsert(e, i, new).comments = e.comments
  BY <1>1 DEF TextInsert
<1>2. "comments" \in DOMAIN TextDelete(d, i, n) /\ TextDelete(d, i, n).comments = d.comments
  BY DEF TextDelete
<1> QED BY <1>1, <1>2 DEF content_edit

LEMMA RewriteKeeps ==
  ASSUME VInv, NEW r \in Replicas, NEW i, NEW n, NEW k, Rewrite(r, i, n, k)
  PROVE  VInv'
<1> DEFINE d == content_edit(doc[r], i, n, New(k))
           e == [d EXCEPT !.size = content_size(d, k)]
<1>1. doc[r] # Absent /\ Change(r, e, {<<"size", Text>>}) /\ UNCHANGED anchors
  BY DEF Rewrite, requireFile
<1>2. "comments" \in DOMAIN doc[r] /\ doc[r].comments \subseteq DOMAIN anchors
  BY <1>1 DEF VInv, Files
<1>3. "comments" \in DOMAIN d /\ d.comments = doc[r].comments
  BY <1>2, EditsKeepComments
<1> HIDE DEF d
<1>4. "comments" \in DOMAIN e /\ e.comments = d.comments
  BY <1>3
<1> HIDE DEF e
<1> QED BY <1>1, <1>2, <1>3, <1>4, ChangeKeeps DEF IsFile

LEMMA TextKeeps ==
  ASSUME VInv, NEW r \in Replicas, writeFile(r) \/ editFile(r) \/ typeInto(r)
  PROVE  VInv'
<1>1. CASE writeFile(r)
  BY <1>1, RewriteKeeps DEF writeFile
<1>2. CASE editFile(r)
  BY <1>2, RewriteKeeps DEF editFile
<1>3. CASE typeInto(r)
  <2>1. doc[r] # Absent /\ UNCHANGED anchors
    BY <1>3 DEF typeInto, requireFile
  <2>2. PICK i \in 0..Len(Visible(doc[r])) : Change(r, TextInsert(doc[r], i, New(1)), {})
    BY <1>3 DEF typeInto
  <2>3. IsFile(TextInsert(doc[r], i, New(1)))
    BY <2>1, EditsKeepComments DEF VInv, Files, IsFile
  <2> QED BY <2>1, <2>2, <2>3, ChangeKeeps
<1> QED BY <1>1, <1>2, <1>3

LEMMA AddCommentKeeps == ASSUME VInv, NEW r \in Replicas, addComment(r) PROVE VInv'
<1>1. PICK c \in Comments, i \in 0..1, n \in 1..2 :
        /\ doc[r] # Absent /\ DOMAIN anchors = 1..(c - 1)
        /\ anchors' = [b \in 1..c |-> IF b < c THEN anchors[b] ELSE <<RelativePosition(doc[r], i), AnchorEnd(doc[r], i + n)>>]
        /\ doc' = [doc EXCEPT ![r].comments = @ \cup {c}]
        /\ view' = IF r # Viewer THEN view
                   ELSE IF view.listening THEN notify(view) ELSE [view EXCEPT !.slipped = TRUE]
  BY DEF addComment, requireFile
<1>2. DOMAIN anchors' = DOMAIN anchors \cup {c} /\ \A b \in DOMAIN anchors : anchors'[b] = anchors[b]
  <2>1. c \in Nat /\ c > 0
    BY DEF Comments
  <2> QED BY <1>1, <2>1
<1>3. Files'
  <2> SUFFICES ASSUME NEW q \in Replicas, doc'[q] # Absent
               PROVE  "comments" \in DOMAIN doc'[q] /\ doc'[q].comments \subseteq DOMAIN anchors'
    BY <1>1 DEF VInv, Files
  <2>1. CASE q = r
    <3>1. "comments" \in DOMAIN doc[r] /\ doc[r].comments \subseteq DOMAIN anchors
      BY <1>1 DEF VInv, Files
    <3>2. doc'[r] = [doc[r] EXCEPT !.comments = @ \cup {c}]
      BY <1>1 DEF VInv, Files
    <3> QED BY <1>2, <2>1, <3>1, <3>2
  <2>2. CASE q # r
    BY <1>1, <1>2, <2>2 DEF VInv, Files
  <2> QED BY <2>1, <2>2
<1>4. CASE r # Viewer
  BY <1>1, <1>2, <1>3, <1>4, SameView, DocumentsAssumption DEF VInv, Files
<1>5. CASE r = Viewer /\ view.listening
  <2>1. view' = notify(view)
    BY <1>1, <1>5
  <2> QED BY <1>3, <2>1, NotifyIs DEF VInv, Viewing, Views, ViewCatchesUp
<1>6. CASE r = Viewer /\ ~view.listening
  <2>1. view' = [view EXCEPT !.slipped = TRUE]
    BY <1>1, <1>6
  <2> QED BY <1>3, <2>1 DEF VInv, Viewing, Views, ViewCatchesUp
<1> QED BY <1>4, <1>5, <1>6

LEMMA CommentKeeps ==
  ASSUME VInv, NEW r \in Replicas, NEW c \in Comments, replyToComment(r, c) \/ resolveComment(r, c)
  PROVE  VInv'
<1>1. "comments" \in DOMAIN doc[r] /\ doc[r].comments \subseteq DOMAIN anchors /\ UNCHANGED anchors
  BY DEF VInv, Files, replyToComment, resolveComment, requireCommentRecord, requireFile
<1>2. CASE replyToComment(r, c)
  <2> DEFINE d == [doc[r] EXCEPT !.replies = @ \cup {<<c, replied'>>}]
  <2>1. Change(r, d, {})
    BY <1>2 DEF replyToComment
  <2>2. IsFile(d)
    BY <1>1 DEF IsFile
  <2> HIDE DEF d
  <2> QED BY <1>1, <2>1, <2>2, ChangeKeeps
<1>3. CASE resolveComment(r, c)
  <2> DEFINE d == resolveRecord(doc[r], c, r)
             keys == {<<"resolved", c>>} \cup (IF doc[r].resolved[c] THEN {} ELSE {<<"by", c>>})
  <2>1. Change(r, d, keys)
    BY <1>3 DEF resolveComment
  <2>2. IsFile(d)
    BY <1>1 DEF IsFile, resolveRecord
  <2> HIDE DEF d, keys
  <2> QED BY <1>1, <2>1, <2>2, ChangeKeeps
<1> QED BY <1>2, <1>3

LEMMA UnlinkKeeps == ASSUME VInv, NEW r \in Replicas, unlink(r) PROVE VInv'
BY ChangeKeeps DEF unlink, IsFile

LEMMA SelectionKeeps == ASSUME VInv, readHook \/ editHook \/ fade PROVE VInv'
<1>1. UNCHANGED <<doc, view, anchors>>
  BY DEF readHook, editHook, fade, clearSelection, trySetSelection, shared
<1> QED BY <1>1, SameView DEF VInv, Files

LEMMA ViewKeeps == ASSUME VInv, Subscribe \/ Deliver \/ Render PROVE VInv'
<1>1. UNCHANGED <<doc, anchors>>
  BY DEF Subscribe, Deliver, Render, shared
<1>2. Files'
  BY <1>1 DEF VInv, Files
<1>3. Snapshot(doc[Viewer])' = Snapshot(doc[Viewer])
  BY <1>1 DEF Snapshot, getCommentRecords
<1>4. CASE Subscribe
  <2>1. view' = [view EXCEPT !.listening = TRUE]
    BY <1>4 DEF Subscribe
  <2> QED BY <1>2, <1>3, <2>1 DEF VInv, Viewing, Views, ViewCatchesUp
<1>5. CASE Deliver
  <2>1. view' = [view EXCEPT !.flag = FALSE, !.queued = FALSE, !.due = TRUE]
    BY <1>5 DEF Deliver, Delivered
  <2> QED BY <1>2, <2>1 DEF VInv, Viewing, Views, ViewCatchesUp
<1>6. CASE Render
  <2>1. view' = [view EXCEPT !.due = FALSE, !.shown = Snapshot(doc[Viewer]), !.slipped = FALSE]
    BY <1>6 DEF Render
  <2> QED BY <1>2, <1>3, <2>1 DEF VInv, Viewing, Views, ViewCatchesUp
<1> QED BY <1>4, <1>5, <1>6

LEMMA ExchangeKeeps == ASSUME VInv, Exchange PROVE VInv'
<1> PICK d : d = Merged
  OBVIOUS
<1>1. doc' = [r \in Replicas |-> d] /\ UNCHANGED anchors
  BY DEF Exchange
<1>2. Low \in Replicas /\ High \in Replicas
  <2> PICK low \in Replicas, high \in Replicas : low < high /\ Replicas = {low, high}
    BY DocumentsAssumption
  <2>1. low \in Nat /\ high \in Nat
    BY DocumentsAssumption
  <2>2. \A q \in Replicas : low <= q /\ high >= q
    BY <2>1
  <2> QED BY <2>2 DEF Low, High
<1>3. IsFile(d)
  BY <1>2 DEF Merged, IsFile, VInv, Files
<1>4. Files'
  BY <1>1, <1>3 DEF Files, IsFile
<1>5. CASE doc[Viewer] # d
  BY <1>1, <1>4, <1>5, NoticedKeeps, DocumentsAssumption DEF Exchange, VInv
<1>6. CASE doc[Viewer] = d
  BY <1>1, <1>4, <1>6, SameView, DocumentsAssumption DEF Exchange, VInv
<1> QED BY <1>5, <1>6

LEMMA ViewInit == Init => VInv
<1> SUFFICES ASSUME Init PROVE VInv
  OBVIOUS
<1>1. Viewing
  BY DEF Init, Viewing, Views
<1>2. Files
  BY DEF Init, Files, Fresh
<1>3. ViewCatchesUp
  BY DocumentsAssumption DEF Init, ViewCatchesUp
<1> QED BY <1>1, <1>2, <1>3 DEF VInv

\* A component that shows less than the file of its replica has a notification queued or a
\* render due: useSubscriptionVersion (yjs-fs-react) notifies in a microtask of its own.
THEOREM ViewsCatchUp == Spec => []ViewCatchesUp
<1>1. VInv /\ [Next]_vars => VInv'
  <2> SUFFICES ASSUME VInv, [Next]_vars PROVE VInv'
    OBVIOUS
  <2>1. ASSUME NEW r \in Replicas, writeFile(r) \/ editFile(r) \/ typeInto(r) \/ addComment(r) \/ unlink(r)
        PROVE  VInv'
    BY <2>1, TextKeeps, AddCommentKeeps, UnlinkKeeps
  <2>2. ASSUME NEW r \in Replicas, NEW c \in Comments, replyToComment(r, c) \/ resolveComment(r, c)
        PROVE  VInv'
    BY <2>2, CommentKeeps
  <2>3. CASE UNCHANGED vars
    <3>1. UNCHANGED <<doc, view, anchors>>
      BY <2>3 DEF vars
    <3> QED BY <3>1, SameView DEF VInv, Files
  <2> QED BY <2>1, <2>2, <2>3, SelectionKeeps, ViewKeeps, ExchangeKeeps DEF Next
<1>2. VInv => ViewCatchesUp
  BY DEF VInv
<1> QED BY ViewInit, <1>1, <1>2, PTL DEF Spec
=============================================================================
