--------------------------- MODULE AgentRunProofs ---------------------------
(***************************************************************************)
(* Streams of sub-agents merge in order and completely, and a prompt       *)
(* answer to an approval is in time, in every tree of runs: for any number *)
(* of runs, calls and model calls.                                         *)
(***************************************************************************)
EXTENDS AgentRun, TLAPS, FiniteSetTheorems, SequenceTheorems

-----------------------------------------------------------------------------
(* The tree.                                                               *)

\* A run is in its own line, and the line of a run below the root is the run and the line
\* of its parent.
LEMMA LineUp ==
  ASSUME NEW r \in Runs
  PROVE  /\ r \in Line[r] /\ Line[r] \subseteq Runs
         /\ Line[Parent[r]] \subseteq Line[r]
         /\ Line[r] \subseteq {r} \cup Line[Parent[r]]
<1>0. Parent[r] \in Runs BY AgentRunAssumption
<1>1. r \in Line[r] /\ Line[r] \subseteq Runs BY DEF Line
<1>2. Line[Parent[r]] \subseteq Line[r] BY <1>0 DEF Line, Closed
<1>3. ASSUME NEW a \in Line[r], a # r, NEW S \in SUBSET Runs, Parent[r] \in S, Closed(S)
      PROVE  a \in S
  <2>1. Closed(S \cup {r}) BY <1>3 DEF Closed
  <2>2. a \in S \cup {r} BY <1>3, <2>1 DEF Line
  <2> QED BY <2>2, <1>3
<1>4. Line[r] \subseteq {r} \cup Line[Parent[r]] BY <1>0, <1>1, <1>3 DEF Line
<1> QED BY <1>1, <1>2, <1>4

\* A set of runs that holds a run and with each run its parent holds the whole line.
LEMMA LineWithin ==
  ASSUME NEW r \in Runs, NEW S, r \in S, S \subseteq Runs,
         \A x \in S : Parent[x] \in S
  PROVE  Line[r] \subseteq S
BY DEF Line, Closed

\* Every line ends at the root, and the root's own is only that.
LEMMA LineRoot ==
  /\ Root \in Runs /\ Line[Root] = {Root}
  /\ \A r \in Runs : Root \in Line[r]
<1>1. Root \in Runs /\ Parent[Root] = Root BY AgentRunAssumption
<1>2. Line[Root] \subseteq {Root}
  <2>1. \A x \in {Root} : Parent[x] \in {Root} BY <1>1
  <2> QED BY <1>1, <2>1, LineWithin
<1> QED BY <1>1, <1>2, LineUp, AgentRunAssumption

\* No run below the root is above its own parent.
LEMMA NoCycle ==
  ASSUME NEW c \in Runs \ {Root}
  PROVE  c \notin Line[Parent[c]] /\ Parent[c] # c /\ Parent[c] \in Runs
<1>1. Parent[c] \in Runs BY AgentRunAssumption
<1>2. ASSUME c \in Line[Parent[c]] PROVE FALSE
  <2> DEFINE S == {y \in Line[c] : c \in Line[y]}
  <2>1. c \in S /\ S \subseteq Runs BY LineUp
  <2>2. ASSUME NEW y \in S PROVE Parent[y] \in S
    <3>1. y \in Runs /\ y \in Line[c] /\ c \in Line[y] BY LineUp
    <3>2. c \in Line[Parent[y]] BY <3>1, <1>2, LineUp
    <3>3. Parent[y] \in Line[c]
      <4>1. Parent[y] \in Runs BY <3>1, AgentRunAssumption
      <4>2. ASSUME NEW T \in SUBSET Runs, c \in T, Closed(T) PROVE Parent[y] \in T
        <5>1. y \in T BY <3>1, <4>2 DEF Line
        <5> QED BY <5>1, <4>2 DEF Closed
      <4> QED BY <4>1, <4>2 DEF Line
    <3> QED BY <3>2, <3>3
  <2>3. Line[c] \subseteq S BY <2>1, <2>2, LineWithin
  <2>4. Root \in S BY <2>3, LineRoot
  <2> QED BY <2>4, LineRoot
<1>3. Parent[c] \in Line[Parent[c]] BY <1>1, LineUp
<1> QED BY <1>1, <1>2, <1>3

\* What is below one of two different children of a run is not below the other.
LEMMA Apart ==
  ASSUME NEW c \in Runs \ {Root}, NEW d \in Runs \ {Root}, Parent[c] = Parent[d],
         NEW x \in Runs, c \in Line[x], d \in Line[x]
  PROVE  c = d
<1> DEFINE S == {y \in Line[x] : c \in Line[y] \/ y \in Line[c]}
<1>1. x \in S /\ S \subseteq Runs BY LineUp
<1>2. ASSUME NEW y \in S PROVE Parent[y] \in S
  <2>1. y \in Runs /\ y \in Line[x] BY LineUp
  <2>2. Parent[y] \in Runs BY <2>1, AgentRunAssumption
  <2>3. Parent[y] \in Line[y] BY <2>1, <2>2, LineUp
  <2>4. ASSUME NEW z \in Runs, y \in Line[z] PROVE Parent[y] \in Line[z]
    <3>1. ASSUME NEW T \in SUBSET Runs, z \in T, Closed(T) PROVE Parent[y] \in T
      <4>1. y \in T BY <2>4, <3>1 DEF Line
      <4> QED BY <4>1, <3>1 DEF Closed
    <3> QED BY <3>1, <2>2 DEF Line
  <2>5. CASE y \in Line[c] BY <2>5, <2>4, <2>1
  <2>6. CASE c \in Line[y] BY <2>6, <2>4, <2>1, <2>3, LineUp
  <2> QED BY <2>5, <2>6
<1>3. d \in S BY <1>1, <1>2, LineWithin
<1>4. CASE c \in Line[d]
  <2>1. c \in {d} \cup Line[Parent[c]] BY <1>4, LineUp
  <2> QED BY <2>1, NoCycle
<1>5. CASE d \in Line[c]
  <2>1. d \in {c} \cup Line[Parent[d]] BY <1>5, LineUp
  <2> QED BY <2>1, NoCycle
<1> QED BY <1>3, <1>4, <1>5

-----------------------------------------------------------------------------
(* The streams.                                                            *)

EventRec == [of : Runs, ask : Calls \cup {None}]

Typed ==
  /\ loop \in [Runs -> {"new", "model", "tools", "waiting", "live", "done"}]
  /\ events \in [Runs -> Seq(EventRec)]
  /\ iter \in [Runs -> {"off", "ready", "waiting", "busy", "ended"}]
  /\ pos \in [Runs -> Nat]
  /\ awaiting \in [Runs -> {None, "result", "forward", "over"}]
  /\ resolvers \in SUBSET Calls /\ asked \in SUBSET Calls /\ thrown \in SUBSET Runs
  /\ prompt \in BOOLEAN

\* Nobody has read more than there is.
PosInv == \A r \in Runs : pos[r] <= Len(events[r])
\* A run's stream holds events of runs below it.
OwnInv == \A r \in Runs : \A i \in DOMAIN events[r] : r \in Line[events[r][i].of]
\* The parent's stream holds of a child what the forwarding loop has read, in order.
MergeInv ==
  \A c \in Runs \ {Root} :
    /\ Cardinality(From(c)) = pos[c]
    /\ \A i \in From(c) : events[Parent[c]][i] = events[c][Place(i, From(c))]
CopyInv ==
  \A c \in Runs \ {Root} : \A k \in 1..pos[c] :
    \E i \in DOMAIN events[Parent[c]] : events[Parent[c]][i] = events[c][k]

DataInv == PosInv /\ OwnInv /\ MergeInv /\ CopyInv

\* The place of a number in a set of numbers up to n, and of n + 1 in the set with it.
LEMMA PlaceNext ==
  ASSUME NEW n \in Nat, NEW I \in SUBSET (1..n)
  PROVE  /\ IsFiniteSet(I) /\ Cardinality(I) \in Nat
         /\ \A i \in I : Place(i, I) \in 1..Cardinality(I)
         /\ Cardinality(I \cup {n + 1}) = Cardinality(I) + 1
         /\ Place(n + 1, I \cup {n + 1}) = Cardinality(I) + 1
         /\ \A i \in I : Place(i, I \cup {n + 1}) = Place(i, I)
<1>1. IsFiniteSet(I) /\ Cardinality(I) \in Nat
  <2>1. IsFiniteSet(1..n) BY FS_Interval
  <2>2. IsFiniteSet(I) BY <2>1, FS_Subset
  <2> QED BY <2>2, FS_CardinalityType
<1>2. ASSUME NEW i \in I PROVE Place(i, I) \in 1..Cardinality(I)
  <2> DEFINE J == {j \in I : j <= i}
  <2>1. J \in SUBSET I OBVIOUS
  <2>2. IsFiniteSet(J) /\ Cardinality(J) <= Cardinality(I) BY <2>1, <1>1, FS_Subset
  <2>3. i \in J OBVIOUS
  <2>4. J # {} BY <2>3
  <2>5. Cardinality(J) \in Nat BY <2>2, FS_CardinalityType
  <2>6. Cardinality(J) # 0 BY <2>2, <2>4, FS_EmptySet
  <2>7. Cardinality(J) \in 1..Cardinality(I) BY <2>2, <2>5, <2>6, <1>1
  <2> QED BY <2>7 DEF Place
<1>3. Cardinality(I \cup {n + 1}) = Cardinality(I) + 1
  <2>1. n + 1 \notin I OBVIOUS
  <2> QED BY <2>1, <1>1, FS_AddElement
<1>4. Place(n + 1, I \cup {n + 1}) = Cardinality(I) + 1
  <2>1. \A j \in I \cup {n + 1} : j <= n + 1 OBVIOUS
  <2>2. {j \in I \cup {n + 1} : j <= n + 1} = I \cup {n + 1} BY <2>1
  <2> QED BY <2>2, <1>3 DEF Place
<1>5. ASSUME NEW i \in I PROVE Place(i, I \cup {n + 1}) = Place(i, I)
  <2>1. ~(n + 1 <= i) OBVIOUS
  <2>2. {j \in I \cup {n + 1} : j <= i} = {j \in I : j <= i} BY <2>1
  <2> QED BY <2>2 DEF Place
<1> QED BY <1>1, <1>2, <1>3, <1>4, <1>5

\* What a stream of length n holds keeps its place when the stream grows.
Grown(s, t) ==
  /\ Len(s) <= Len(t) /\ DOMAIN s = 1..Len(s) /\ DOMAIN t = 1..Len(t)
  /\ \A i \in 1..Len(s) : t[i] = s[i]

LEMMA Concats ==
  ASSUME NEW s \in Seq(EventRec), NEW t \in Seq(EventRec)
  PROVE  /\ s \o t \in Seq(EventRec) /\ Grown(s, s \o t)
         /\ Len(s \o t) = Len(s) + Len(t) /\ Len(s) \in Nat /\ Len(t) \in Nat
         /\ \A i \in 1..Len(s) + Len(t) : i > Len(s) => (s \o t)[i] = t[i - Len(s)] /\ i - Len(s) \in 1..Len(t)
         /\ DOMAIN t = 1..Len(t)
<1>1. Len(s) \in Nat /\ DOMAIN s = 1..Len(s) /\ Len(t) \in Nat /\ DOMAIN t = 1..Len(t) OBVIOUS
<1>2. s \o t \in Seq(EventRec) /\ Len(s \o t) = Len(s) + Len(t) BY ConcatProperties
<1>3. DOMAIN (s \o t) = 1..Len(s \o t) BY <1>2, LenProperties
<1>4. \A i \in 1..Len(s) : (s \o t)[i] = s[i] BY <1>1, ConcatProperties
<1>5. \A i \in 1..Len(s) + Len(t) : i > Len(s) => (s \o t)[i] = t[i - Len(s)] /\ i - Len(s) \in 1..Len(t)
  BY <1>1, ConcatProperties
<1>6. Len(s) <= Len(s \o t) BY <1>1, <1>2
<1> QED BY <1>1, <1>2, <1>3, <1>4, <1>5, <1>6 DEF Grown

LEMMA Appends ==
  ASSUME NEW s \in Seq(EventRec), NEW e \in EventRec
  PROVE  /\ Append(s, e) = s \o <<e>> /\ Append(s, e) \in Seq(EventRec) /\ Grown(s, Append(s, e))
         /\ Len(Append(s, e)) = Len(s) + 1 /\ Append(s, e)[Len(s) + 1] = e /\ Len(s) \in Nat
<1>1. Append(s, e) \in Seq(EventRec) /\ Len(Append(s, e)) = Len(s) + 1 /\ Append(s, e)[Len(s) + 1] = e
  BY AppendProperties
<1>2. \A i \in 1..Len(s) : Append(s, e)[i] = s[i] BY AppendProperties
<1>3. Len(s) \in Nat /\ DOMAIN s = 1..Len(s) /\ DOMAIN Append(s, e) = 1..Len(Append(s, e)) BY <1>1, LenProperties
<1>4. Len(s) <= Len(Append(s, e)) BY <1>1, <1>3
<1>5. Append(s, e) = s \o <<e>> BY AppendIsConcat
<1> QED BY <1>1, <1>2, <1>3, <1>4, <1>5 DEF Grown

\* The positions of the stream s that are of c or below.
At(c, s) == {i \in DOMAIN s : c \in Line[s[i].of]}

LEMMA AtKept ==
  ASSUME NEW c \in Runs, NEW s \in Seq(EventRec), NEW t \in Seq(EventRec), Grown(s, t),
         \A i \in 1..Len(t) : i > Len(s) => c \notin Line[t[i].of]
  PROVE  At(c, t) = At(c, s)
<1>1. Len(s) \in Nat /\ Len(t) \in Nat OBVIOUS
<1>2. ASSUME NEW i \in At(c, t) PROVE i \in At(c, s)
  <2>1. i \in 1..Len(t) /\ c \in Line[t[i].of] BY <1>2 DEF At, Grown
  <2>2. i \in 1..Len(s) BY <2>1, <1>1
  <2> QED BY <2>1, <2>2 DEF At, Grown
<1>3. ASSUME NEW i \in At(c, s) PROVE i \in At(c, t)
  <2>1. i \in 1..Len(s) /\ c \in Line[s[i].of] BY <1>3 DEF At, Grown
  <2>2. i \in 1..Len(t) BY <2>1, <1>1 DEF Grown
  <2> QED BY <2>1, <2>2 DEF At, Grown
<1> QED BY <1>2, <1>3

LEMMA AtNext ==
  ASSUME NEW c \in Runs, NEW s \in Seq(EventRec), NEW e \in EventRec, c \in Line[e.of]
  PROVE  At(c, Append(s, e)) = At(c, s) \cup {Len(s) + 1}
<1> DEFINE t == Append(s, e)
<1>1. /\ Len(s) \in Nat /\ Len(t) = Len(s) + 1 /\ t[Len(s) + 1] = e
      /\ DOMAIN s = 1..Len(s) /\ DOMAIN t = 1..Len(t) /\ \A i \in 1..Len(s) : t[i] = s[i]
  BY Appends DEF Grown
<1> HIDE DEF t
<1>2. ASSUME NEW i \in At(c, t) PROVE i \in At(c, s) \cup {Len(s) + 1}
  <2>1. i \in 1..Len(t) /\ c \in Line[t[i].of] BY <1>1 DEF At
  <2>2. CASE i = Len(s) + 1 BY <2>2
  <2>3. CASE i \in 1..Len(s) BY <2>3, <2>1, <1>1 DEF At
  <2> QED BY <2>1, <2>2, <2>3, <1>1
<1>3. ASSUME NEW i \in At(c, s) PROVE i \in At(c, t)
  <2>1. i \in 1..Len(s) /\ c \in Line[s[i].of] BY <1>1 DEF At
  <2>2. i \in 1..Len(t) BY <2>1, <1>1
  <2> QED BY <2>1, <2>2, <1>1 DEF At
<1>4. Len(s) + 1 \in At(c, t) BY <1>1 DEF At
<1> QED BY <1>2, <1>3, <1>4 DEF t

\* The conditions on one child, of its stream, the parent's stream and the index.
Merges(c, own, parents, n) ==
  /\ Cardinality(At(c, parents)) = n
  /\ \A i \in At(c, parents) : parents[i] = own[Place(i, At(c, parents))]

LEMMA MergesKept ==
  ASSUME NEW c \in Runs, NEW s \in Seq(EventRec), NEW u \in Seq(EventRec),
         NEW s2 \in Seq(EventRec), NEW u2 \in Seq(EventRec), NEW n \in Nat, n <= Len(s),
         Grown(s, s2), Grown(u, u2), At(c, u2) = At(c, u), Merges(c, s, u, n)
  PROVE  Merges(c, s2, u2, n)
<1>1. ASSUME NEW i \in At(c, u2) PROVE u2[i] = s2[Place(i, At(c, u2))]
  <2>1. i \in At(c, u) /\ i \in 1..Len(u) BY DEF At, Grown
  <2>2. At(c, u) \in SUBSET (1..Len(u)) /\ Len(u) \in Nat /\ Len(s) \in Nat BY DEF At, Grown
  <2>3. Place(i, At(c, u)) \in 1..Cardinality(At(c, u)) BY <2>1, <2>2, PlaceNext
  <2>4. Place(i, At(c, u)) \in 1..Len(s) BY <2>2, <2>3 DEF Merges
  <2>5. u[i] = s[Place(i, At(c, u))] BY <2>1 DEF Merges
  <2> QED BY <2>1, <2>4, <2>5 DEF Grown
<1> QED BY <1>1 DEF Merges

LEMMA MergesNext ==
  ASSUME NEW c \in Runs, NEW s \in Seq(EventRec), NEW u \in Seq(EventRec), NEW n \in Nat, n < Len(s),
         Merges(c, s, u, n), c \in Line[s[n + 1].of]
  PROVE  Merges(c, s, Append(u, s[n + 1]), n + 1)
<1> DEFINE e == s[n + 1]
           v == Append(u, e)
           I == At(c, u)
<1>1. e \in EventRec
  <2>1. n + 1 \in 1..Len(s) OBVIOUS
  <2> QED BY <2>1, ElementOfSeq
<1>2. At(c, v) = I \cup {Len(u) + 1} BY <1>1, AtNext
<1>3. I \in SUBSET (1..Len(u)) /\ Len(u) \in Nat BY DEF At
<1>4. /\ Cardinality(At(c, v)) = n + 1
      /\ Place(Len(u) + 1, At(c, v)) = n + 1
      /\ \A i \in I : Place(i, At(c, v)) = Place(i, I)
  <2>1. Cardinality(I) = n BY DEF Merges
  <2> HIDE DEF I, v
  <2>2. /\ Cardinality(I \cup {Len(u) + 1}) = Cardinality(I) + 1
        /\ Place(Len(u) + 1, I \cup {Len(u) + 1}) = Cardinality(I) + 1
        /\ \A i \in I : Place(i, I \cup {Len(u) + 1}) = Place(i, I)
    BY <1>3, PlaceNext
  <2> QED BY <2>1, <2>2, <1>2
<1>5. v[Len(u) + 1] = e /\ \A i \in 1..Len(u) : v[i] = u[i] BY <1>1, Appends DEF Grown
<1>6. ASSUME NEW i \in At(c, v) PROVE v[i] = s[Place(i, At(c, v))]
  <2>1. CASE i \in I BY <2>1, <1>3, <1>4, <1>5 DEF Merges
  <2>2. CASE i = Len(u) + 1 BY <2>2, <1>4, <1>5
  <2> QED BY <2>1, <2>2, <1>2
<1> QED BY <1>4, <1>6 DEF Merges

LEMMA MergeIs ==
  /\ \A c \in Runs \ {Root} : From(c) = At(c, events[Parent[c]])
  /\ MergeInv <=> \A c \in Runs \ {Root} : Merges(c, events[c], events[Parent[c]], pos[c])
BY DEF MergeInv, From, At, Merges

\* A loop that pushes events of its own run keeps every stream merged.
LEMMA DataPush ==
  ASSUME Typed, DataInv, NEW r \in Runs, NEW s \in Seq(EventRec), \A i \in 1..Len(s) : s[i].of = r,
         events' = [events EXCEPT ![r] = @ \o s], pos' = pos
  PROVE  /\ DataInv' /\ events' \in [Runs -> Seq(EventRec)] /\ pos' \in [Runs -> Nat]
         /\ \A x \in Runs : Grown(events[x], events'[x])
<1>0. events \in [Runs -> Seq(EventRec)] /\ pos \in [Runs -> Nat] BY DEF Typed
<1>1. /\ \A x \in Runs \ {r} : events'[x] = events[x]
      /\ events'[r] = events[r] \o s /\ events'[r] \in Seq(EventRec)
  BY <1>0, Concats
<1>2. events' \in [Runs -> Seq(EventRec)] BY <1>0, <1>1
<1>3. ASSUME NEW x \in Runs PROVE Grown(events[x], events'[x])
  <2>1. CASE x = r BY <2>1, <1>0, <1>1, Concats
  <2>2. CASE x # r BY <2>2, <1>0, <1>1 DEF Grown
  <2> QED BY <2>1, <2>2
<1>4. \A i \in 1..Len(events'[r]) : i > Len(events[r]) => events'[r][i].of = r
  <2>1. events[r] \in Seq(EventRec) BY <1>0
  <2> QED BY <2>1, <1>1, Concats
<1>5. PosInv'
  <2> SUFFICES ASSUME NEW x \in Runs PROVE pos[x] <= Len(events'[x]) BY DEF PosInv
  <2>1. pos[x] <= Len(events[x]) BY DEF DataInv, PosInv
  <2>2. Len(events[x]) <= Len(events'[x]) BY <1>3 DEF Grown
  <2>3. pos[x] \in Nat /\ Len(events[x]) \in Nat /\ Len(events'[x]) \in Nat BY <1>0, <1>2
  <2> QED BY <2>1, <2>2, <2>3
<1>6. OwnInv'
  <2> SUFFICES ASSUME NEW x \in Runs, NEW i \in DOMAIN events'[x]
               PROVE  x \in Line[events'[x][i].of]
    BY DEF OwnInv
  <2>0. Len(events[x]) \in Nat /\ Len(events'[x]) \in Nat /\ i \in 1..Len(events'[x])
    BY <1>0, <1>2, <1>3 DEF Grown
  <2>1. CASE i \in 1..Len(events[x])
    <3>1. i \in DOMAIN events[x] /\ events'[x][i] = events[x][i] BY <2>1, <1>3 DEF Grown
    <3> QED BY <3>1 DEF DataInv, OwnInv
  <2>2. CASE i > Len(events[x])
    <3>1. x = r
      <4>1. CASE x # r BY <4>1, <2>2, <2>0, <1>1
      <4> QED BY <4>1
    <3>2. events'[x][i].of = r BY <3>1, <2>2, <2>0, <1>4
    <3> QED BY <3>1, <3>2, LineUp
  <2> QED BY <2>0, <2>1, <2>2
<1>7. MergeInv'
  <2> SUFFICES ASSUME NEW c \in Runs \ {Root} PROVE Merges(c, events'[c], events'[Parent[c]], pos[c])
    <3>1. MergeInv' <=> \A c \in Runs \ {Root} : Merges(c, events'[c], events'[Parent[c]], pos'[c])
      BY DEF MergeInv, From, At, Merges
    <3> QED BY <3>1
  <2>1. Parent[c] \in Runs /\ c \notin Line[Parent[c]] BY NoCycle
  <2>2. At(c, events'[Parent[c]]) = At(c, events[Parent[c]])
    <3>1. CASE Parent[c] = r
      <4>1. \A i \in 1..Len(events'[r]) : i > Len(events[r]) => c \notin Line[events'[r][i].of]
        BY <1>4, <2>1, <3>1
      <4>2. Grown(events[r], events'[r]) /\ events[r] \in Seq(EventRec) /\ events'[r] \in Seq(EventRec)
        BY <1>0, <1>2, <1>3
      <4>3. At(c, events'[r]) = At(c, events[r]) BY <4>1, <4>2, AtKept
      <4> QED BY <4>3, <3>1
    <3>2. CASE Parent[c] # r BY <3>2, <2>1, <1>1
    <3> QED BY <3>1, <3>2
  <2>3. Merges(c, events[c], events[Parent[c]], pos[c]) BY MergeIs DEF DataInv
  <2>4. pos[c] <= Len(events[c]) /\ pos[c] \in Nat BY <1>0 DEF DataInv, PosInv
  <2>5. /\ events[c] \in Seq(EventRec) /\ events'[c] \in Seq(EventRec)
        /\ events[Parent[c]] \in Seq(EventRec) /\ events'[Parent[c]] \in Seq(EventRec)
        /\ Grown(events[c], events'[c]) /\ Grown(events[Parent[c]], events'[Parent[c]])
    BY <1>0, <1>2, <1>3, <2>1
  <2> QED BY <2>2, <2>3, <2>4, <2>5, MergesKept
<1>8. CopyInv'
  <2> SUFFICES ASSUME NEW c \in Runs \ {Root}, NEW k \in 1..pos[c]
               PROVE  \E i \in DOMAIN events'[Parent[c]] : events'[Parent[c]][i] = events'[c][k]
    BY DEF CopyInv
  <2>1. PICK i \in DOMAIN events[Parent[c]] : events[Parent[c]][i] = events[c][k] BY DEF DataInv, CopyInv
  <2>2. Parent[c] \in Runs BY NoCycle
  <2>3. i \in DOMAIN events'[Parent[c]] /\ events'[Parent[c]][i] = events[Parent[c]][i]
    <3>1. Grown(events[Parent[c]], events'[Parent[c]]) BY <1>3, <2>2
    <3>2. Len(events[Parent[c]]) \in Nat /\ Len(events'[Parent[c]]) \in Nat BY <1>0, <1>2, <2>2
    <3> QED BY <3>1, <3>2 DEF Grown
  <2>4. events'[c][k] = events[c][k]
    <3>1. k \in 1..Len(events[c]) BY <1>0 DEF DataInv, PosInv
    <3> QED BY <3>1, <1>3 DEF Grown
  <2> QED BY <2>1, <2>3, <2>4
<1> QED BY <1>0, <1>2, <1>3, <1>5, <1>6, <1>7, <1>8 DEF DataInv

\* The forwarding loop of a child moves its next event to the parent's stream.
LEMMA DataForward ==
  ASSUME Typed, DataInv, NEW c \in Runs \ {Root}, pos[c] < Len(events[c]),
         events' = [events EXCEPT ![Parent[c]] = Append(@, events[c][pos[c] + 1])],
         pos' = [pos EXCEPT ![c] = @ + 1]
  PROVE  /\ DataInv' /\ events' \in [Runs -> Seq(EventRec)] /\ pos' \in [Runs -> Nat]
         /\ \A x \in Runs : Grown(events[x], events'[x])
         /\ Parent[c] \in Runs /\ Parent[c] # c
         /\ \A x \in Runs \ {Parent[c]} : events'[x] = events[x]
         /\ events'[Parent[c]] = Append(events[Parent[c]], events[c][pos[c] + 1])
         /\ Len(events'[Parent[c]]) = Len(events[Parent[c]]) + 1
         /\ events'[Parent[c]][Len(events[Parent[c]]) + 1] = events[c][pos[c] + 1]
<1> DEFINE p == Parent[c]
           e == events[c][pos[c] + 1]
<1>0. events \in [Runs -> Seq(EventRec)] /\ pos \in [Runs -> Nat] BY DEF Typed
<1>1. p \in Runs /\ c \notin Line[p] /\ p # c BY NoCycle
<1>2. e \in EventRec /\ c \in Line[e.of] /\ e.of \in Runs
  <2>1. events[c] \in Seq(EventRec) /\ pos[c] + 1 \in 1..Len(events[c]) BY <1>0
  <2>2. e \in EventRec BY <2>1, ElementOfSeq
  <2>3. pos[c] + 1 \in DOMAIN events[c] BY <2>1, LenProperties
  <2> QED BY <2>2, <2>3 DEF DataInv, OwnInv, EventRec
<1>3. /\ \A x \in Runs \ {p} : events'[x] = events[x]
      /\ events'[p] = Append(events[p], e)
  BY <1>0, <1>1
<1>4. events[p] \in Seq(EventRec) BY <1>0, <1>1
<1> HIDE DEF e, p
<1>5. /\ events'[p] \in Seq(EventRec) /\ Grown(events[p], events'[p]) /\ Len(events[p]) \in Nat
      /\ Len(events'[p]) = Len(events[p]) + 1 /\ events'[p][Len(events[p]) + 1] = e
  <2>1. e \in EventRec BY <1>2
  <2> DEFINE t == Append(events[p], e)
  <2>2. /\ t \in Seq(EventRec) /\ Grown(events[p], t) /\ Len(events[p]) \in Nat
        /\ Len(t) = Len(events[p]) + 1 /\ t[Len(events[p]) + 1] = e
    BY <2>1, <1>4, Appends
  <2>3. events'[p] = t BY <1>3
  <2> HIDE DEF t
  <2> QED BY <2>2, <2>3
<1>6. events' \in [Runs -> Seq(EventRec)]
  <2>1. \A x \in Runs : events'[x] \in Seq(EventRec) BY <1>0, <1>3, <1>5
  <2>2. \E v : events' = [x \in Runs |-> v[x]]
    <3>1. events' = [x \in Runs |-> [events EXCEPT ![Parent[c]] = Append(@, events[c][pos[c] + 1])][x]] BY <1>0
    <3> QED BY <3>1
  <2> QED BY <2>1, <2>2
<1>7. ASSUME NEW x \in Runs PROVE Grown(events[x], events'[x])
  <2>1. CASE x = p BY <2>1, <1>5
  <2>2. CASE x # p BY <2>2, <1>0, <1>3 DEF Grown
  <2> QED BY <2>1, <2>2
<1>8. pos' \in [Runs -> Nat] /\ pos'[c] = pos[c] + 1 /\ \A x \in Runs \ {c} : pos'[x] = pos[x] BY <1>0
<1>9. PosInv'
  <2> SUFFICES ASSUME NEW x \in Runs PROVE pos'[x] <= Len(events'[x]) BY DEF PosInv
  <2>1. pos[x] <= Len(events[x]) /\ (x = c => pos[x] + 1 <= Len(events[x])) BY <1>0 DEF DataInv, PosInv
  <2>2. Len(events[x]) <= Len(events'[x]) BY <1>7 DEF Grown
  <2>3. pos[x] \in Nat /\ Len(events[x]) \in Nat /\ Len(events'[x]) \in Nat BY <1>0, <1>6
  <2> QED BY <2>1, <2>2, <2>3, <1>8
<1>10. OwnInv'
  <2> SUFFICES ASSUME NEW x \in Runs, NEW i \in DOMAIN events'[x]
               PROVE  x \in Line[events'[x][i].of]
    BY DEF OwnInv
  <2>0. Len(events[x]) \in Nat /\ Len(events'[x]) \in Nat /\ i \in 1..Len(events'[x])
    BY <1>0, <1>6, <1>7 DEF Grown
  <2>1. CASE i \in 1..Len(events[x])
    <3>1. i \in DOMAIN events[x] /\ events'[x][i] = events[x][i] BY <2>1, <1>7 DEF Grown
    <3> QED BY <3>1 DEF DataInv, OwnInv
  <2>2. CASE i > Len(events[x])
    <3>1. x = p
      <4>1. CASE x # p BY <4>1, <2>2, <2>0, <1>3
      <4> QED BY <4>1
    <3>2. i = Len(events[p]) + 1 BY <3>1, <2>2, <2>0, <1>5
    <3>3. events'[x][i] = e BY <3>1, <3>2, <1>5
    <3>4. p \in Line[e.of]
      <4> DEFINE S == {y \in Runs : c \in Line[y] => p \in Line[y]}
      <4>1. ASSUME NEW T \in SUBSET Runs, e.of \in T, Closed(T) PROVE p \in T
        <5>1. c \in T BY <4>1, <1>2 DEF Line
        <5> QED BY <5>1, <4>1 DEF Closed, p
      <4> QED BY <4>1, <1>1, <1>2 DEF Line
    <3> QED BY <3>1, <3>3, <3>4
  <2> QED BY <2>0, <2>1, <2>2
<1>11. MergeInv'
  <2> SUFFICES ASSUME NEW d \in Runs \ {Root} PROVE Merges(d, events'[d], events'[Parent[d]], pos'[d])
    <3>1. MergeInv' <=> \A d \in Runs \ {Root} : Merges(d, events'[d], events'[Parent[d]], pos'[d])
      BY DEF MergeInv, From, At, Merges
    <3> QED BY <3>1
  <2>1. Parent[d] \in Runs /\ d \notin Line[Parent[d]] BY NoCycle
  <2>2. Merges(d, events[d], events[Parent[d]], pos[d]) BY MergeIs DEF DataInv
  <2>3. pos[d] <= Len(events[d]) /\ pos[d] \in Nat BY <1>0 DEF DataInv, PosInv
  <2>4. /\ events[d] \in Seq(EventRec) /\ events'[d] \in Seq(EventRec)
        /\ events[Parent[d]] \in Seq(EventRec) /\ events'[Parent[d]] \in Seq(EventRec)
        /\ Grown(events[d], events'[d]) /\ Grown(events[Parent[d]], events'[Parent[d]])
    BY <1>0, <1>6, <1>7, <2>1
  <2>5. CASE d = c
    <3>1. Merges(c, events[c], events[p], pos[c]) BY <2>2, <2>5 DEF p
    <3>2. Merges(c, events[c], Append(events[p], events[c][pos[c] + 1]), pos[c] + 1)
      BY <3>1, <1>0, <1>1, <1>2, MergesNext DEF e
    <3>3. events'[c] = events[c] BY <1>1, <1>3
    <3> QED BY <3>2, <3>3, <2>5, <1>3, <1>8 DEF e, p
  <2>6. CASE d # c
    <3>1. At(d, events'[Parent[d]]) = At(d, events[Parent[d]])
      <4>1. CASE Parent[d] = p
        <5>1. d \notin Line[e.of] BY <4>1, <2>6, <1>2, Apart DEF p
        <5>2. \A i \in 1..Len(events'[p]) : i > Len(events[p]) => events'[p][i] = e BY <1>5
        <5>3. \A i \in 1..Len(events'[p]) : i > Len(events[p]) => d \notin Line[events'[p][i].of]
          BY <5>1, <5>2
        <5>4. events'[p] \in Seq(EventRec) /\ Grown(events[p], events'[p]) BY <1>5
        <5>5. At(d, events'[p]) = At(d, events[p]) BY <5>3, <5>4, <1>4, AtKept
        <5> QED BY <5>5, <4>1
      <4>2. CASE Parent[d] # p BY <4>2, <2>1, <1>3
      <4> QED BY <4>1, <4>2
    <3>2. Merges(d, events'[d], events'[Parent[d]], pos[d]) BY <3>1, <2>1, <2>2, <2>3, <2>4, MergesKept
    <3> QED BY <3>2, <2>6, <1>8
  <2> QED BY <2>5, <2>6
<1>12. CopyInv'
  <2> SUFFICES ASSUME NEW d \in Runs \ {Root}, NEW k \in 1..pos'[d]
               PROVE  \E i \in DOMAIN events'[Parent[d]] : events'[Parent[d]][i] = events'[d][k]
    BY DEF CopyInv
  <2>0. Parent[d] \in Runs BY NoCycle
  <2>1. CASE k \in 1..pos[d]
    <3>1. PICK i \in DOMAIN events[Parent[d]] : events[Parent[d]][i] = events[d][k] BY <2>1 DEF DataInv, CopyInv
    <3>2. i \in DOMAIN events'[Parent[d]] /\ events'[Parent[d]][i] = events[Parent[d]][i]
      <4>1. Grown(events[Parent[d]], events'[Parent[d]]) BY <1>7, <2>0
      <4>2. Len(events[Parent[d]]) \in Nat /\ Len(events'[Parent[d]]) \in Nat BY <1>0, <1>6, <2>0
      <4> QED BY <4>1, <4>2 DEF Grown
    <3>3. events'[d][k] = events[d][k]
      <4>1. k \in 1..Len(events[d]) BY <2>1, <1>0 DEF DataInv, PosInv
      <4> QED BY <4>1, <1>7 DEF Grown
    <3> QED BY <3>1, <3>2, <3>3
  <2>2. CASE k \notin 1..pos[d]
    <3>1. d = c
      <4>1. CASE d # c BY <4>1, <2>2, <1>8
      <4> QED BY <4>1
    <3>2. k = pos[c] + 1 BY <3>1, <2>2, <1>8, <1>0
    <3>3. events'[d] = events[c] BY <3>1, <1>1, <1>3
    <3>4. Len(events[p]) + 1 \in DOMAIN events'[p] BY <1>5, <1>7, <1>1 DEF Grown
    <3>5. Parent[d] = p BY <3>1 DEF p
    <3>6. events'[p][Len(events[p]) + 1] = events'[d][k] BY <3>2, <3>3, <1>5 DEF e
    <3> QED BY <3>4, <3>5, <3>6
  <2> QED BY <2>1, <2>2
<1>13. DataInv' BY <1>9, <1>10, <1>11, <1>12 DEF DataInv
<1> QED BY <1>1, <1>3, <1>5, <1>6, <1>7, <1>8, <1>13 DEF e, p

\* The consumer takes an event.
LEMMA DataTake ==
  ASSUME Typed, DataInv, pos[Root] < Len(events[Root]),
         events' = events, pos' = [pos EXCEPT ![Root] = @ + 1]
  PROVE  DataInv' /\ pos' \in [Runs -> Nat]
<1>0. events \in [Runs -> Seq(EventRec)] /\ pos \in [Runs -> Nat] /\ Root \in Runs BY LineRoot DEF Typed
<1>1. pos' \in [Runs -> Nat] /\ pos'[Root] = pos[Root] + 1 /\ \A x \in Runs \ {Root} : pos'[x] = pos[x] BY <1>0
<1>2. PosInv'
  <2> SUFFICES ASSUME NEW x \in Runs PROVE pos'[x] <= Len(events[x]) BY DEF PosInv
  <2>1. pos[x] <= Len(events[x]) /\ pos[x] \in Nat /\ Len(events[x]) \in Nat BY <1>0 DEF DataInv, PosInv
  <2> QED BY <2>1, <1>1
<1>3. OwnInv' BY DEF OwnInv, DataInv
<1>4. MergeInv'
  <2> SUFFICES ASSUME NEW c \in Runs \ {Root} PROVE Merges(c, events[c], events[Parent[c]], pos'[c])
    BY DEF MergeInv, From, At, Merges
  <2>1. pos'[c] = pos[c] BY <1>1
  <2> QED BY <2>1, MergeIs DEF DataInv
<1>5. CopyInv'
  <2> SUFFICES ASSUME NEW c \in Runs \ {Root}, NEW k \in 1..pos'[c]
               PROVE  \E i \in DOMAIN events[Parent[c]] : events[Parent[c]][i] = events[c][k]
    BY DEF CopyInv
  <2>1. pos'[c] = pos[c] BY <1>1
  <2> QED BY <2>1 DEF DataInv, CopyInv
<1> QED BY <1>1, <1>2, <1>3, <1>4, <1>5 DEF DataInv

LEMMA DataSame ==
  ASSUME DataInv, events' = events, pos' = pos
  PROVE  DataInv'
BY DEF DataInv, PosInv, OwnInv, MergeInv, CopyInv, From

-----------------------------------------------------------------------------
(* The handles: which loops run, who forwards, who sleeps.                 *)

\* A sub-agent's handle, its loop and its iterator start together, and the tool call ends
\* after both.
LifeInv ==
  /\ loop[Root] # "new" /\ awaiting[Root] = None
  /\ \A c \in Runs \ {Root} :
       /\ awaiting[c] = None <=> loop[c] = "new"
       /\ awaiting[c] \in {"forward", "over"} => loop[c] = "done"
       /\ loop[c] = "new" <=> iter[c] = "off"
       /\ iter[c] # "busy"
       /\ awaiting[c] = "over" => iter[c] = "ended"
BirthInv ==
  \A c \in Runs \ {Root} :
    /\ loop[c] = "new" => events[c] = <<>>
    /\ loop[Parent[c]] = "new" => loop[c] = "new"
\* Nobody leaves a step with sub-agents running, save by a throw.
KidsInv == \A c \in Runs \ {Root} : Active(c) => loop[Parent[c]] = "tools" \/ Parent[c] \in thrown
\* Whoever sleeps, or has ended where nothing was thrown, has read everything.
EndInv ==
  \A r \in Runs :
    /\ iter[r] = "ended" => loop[r] = "done"
    /\ iter[r] = "waiting" => pos[r] = Len(events[r])
    /\ iter[r] = "ended" /\ r \notin thrown => pos[r] = Len(events[r])
PromptInv == prompt => iter[Root] \notin {"off", "busy"}

ControlInv == LifeInv /\ BirthInv /\ KidsInv /\ EndInv /\ PromptInv

\* A loop pushes events of its own run and goes on or finishes, with no sub-agent running
\* unless it throws.
PushStep(r, s, n) ==
  /\ s \in Seq(EventRec) /\ \A i \in 1..Len(s) : s[i].of = r
  /\ loop[r] \notin {"new", "done"} /\ n \in {"model", "waiting", "live", "done"}
  /\ r \in thrown' \/ \A c \in Children(r) : ~Active(c)
  /\ loop' = [loop EXCEPT ![r] = n]
  /\ events' = [events EXCEPT ![r] = @ \o s]
  /\ \/ iter' = [iter EXCEPT ![r] = Woken(r)]
     \/ iter' = iter /\ s = <<>> /\ n # "done"
  /\ thrown' \in SUBSET Runs /\ thrown \subseteq thrown'
  /\ resolvers' \in SUBSET Calls /\ asked' \in SUBSET Calls
  /\ UNCHANGED <<pos, awaiting, prompt>>

LEMMA PushControl ==
  ASSUME Typed, DataInv, ControlInv, NEW r \in Runs, NEW s, NEW n, PushStep(r, s, n)
  PROVE  Typed' /\ DataInv' /\ ControlInv'
<1>0. /\ loop \in [Runs -> {"new", "model", "tools", "waiting", "live", "done"}]
      /\ events \in [Runs -> Seq(EventRec)] /\ pos \in [Runs -> Nat]
      /\ iter \in [Runs -> {"off", "ready", "waiting", "busy", "ended"}]
  BY DEF Typed
<1>1. /\ DataInv' /\ events' \in [Runs -> Seq(EventRec)] /\ pos' = pos
      /\ \A x \in Runs : Grown(events[x], events'[x])
  <2>1. /\ s \in Seq(EventRec) /\ \A i \in 1..Len(s) : s[i].of = r
        /\ events' = [events EXCEPT ![r] = @ \o s] /\ pos' = pos
    BY DEF PushStep
  <2> QED BY <2>1, DataPush
<1>2. /\ n # "new" /\ n # "tools" /\ loop[r] # "new" /\ loop[r] # "done"
      /\ loop'[r] = n /\ \A x \in Runs \ {r} : loop'[x] = loop[x]
      /\ loop' \in [Runs -> {"new", "model", "tools", "waiting", "live", "done"}]
  BY <1>0 DEF PushStep
<1>3. /\ \A x \in Runs \ {r} : iter'[x] = iter[x]
      /\ iter'[r] = iter[r] \/ (iter[r] = "waiting" /\ iter'[r] = "ready")
      /\ iter' \in [Runs -> {"off", "ready", "waiting", "busy", "ended"}]
  BY <1>0 DEF PushStep, Woken
<1>4. Typed' BY <1>1, <1>2, <1>3 DEF PushStep, Typed
<1>5. awaiting' = awaiting /\ prompt' = prompt /\ thrown \subseteq thrown' BY DEF PushStep
<1>6. \A x \in Runs \ {r} : events'[x] = events[x] BY <1>0 DEF PushStep
<1>7. LifeInv'
  <2>1. loop'[Root] # "new" /\ awaiting'[Root] = None BY <1>2, <1>5, LineRoot DEF ControlInv, LifeInv
  <2>2. ASSUME NEW c \in Runs \ {Root}
        PROVE /\ awaiting'[c] = None <=> loop'[c] = "new"
              /\ awaiting'[c] \in {"forward", "over"} => loop'[c] = "done"
              /\ loop'[c] = "new" <=> iter'[c] = "off"
              /\ iter'[c] # "busy"
              /\ awaiting'[c] = "over" => iter'[c] = "ended"
    BY <1>2, <1>3, <1>5 DEF ControlInv, LifeInv
  <2> QED BY <2>1, <2>2 DEF LifeInv
<1>8. BirthInv'
  <2> SUFFICES ASSUME NEW c \in Runs \ {Root}
               PROVE  (loop'[c] = "new" => events'[c] = <<>>) /\ (loop'[Parent[c]] = "new" => loop'[c] = "new")
    BY DEF BirthInv
  <2>1. Parent[c] \in Runs BY NoCycle
  <2> QED BY <2>1, <1>2, <1>6 DEF ControlInv, BirthInv
<1>9. KidsInv'
  <2> SUFFICES ASSUME NEW c \in Runs \ {Root}, Active(c)'
               PROVE  loop'[Parent[c]] = "tools" \/ Parent[c] \in thrown'
    BY DEF KidsInv
  <2>1. Parent[c] \in Runs BY NoCycle
  <2>2. Active(c) BY <1>5 DEF Active
  <2>3. CASE Parent[c] = r BY <2>2, <2>3 DEF PushStep, Children
  <2>4. CASE Parent[c] # r BY <2>1, <2>2, <2>4, <1>2, <1>5 DEF ControlInv, KidsInv
  <2> QED BY <2>3, <2>4
<1>10. EndInv'
  <2> SUFFICES ASSUME NEW x \in Runs
               PROVE  /\ iter'[x] = "ended" => loop'[x] = "done"
                      /\ iter'[x] = "waiting" => pos'[x] = Len(events'[x])
                      /\ iter'[x] = "ended" /\ x \notin thrown' => pos'[x] = Len(events'[x])
    BY DEF EndInv
  <2>1. CASE x # r BY <2>1, <1>1, <1>2, <1>3, <1>5, <1>6 DEF ControlInv, EndInv
  <2>2. CASE x = r
    <3>1. iter'[r] # "ended" BY <1>2, <1>3 DEF ControlInv, EndInv
    <3>2. ASSUME iter'[r] = "waiting" PROVE pos'[r] = Len(events'[r])
      <4>1. iter[r] = "waiting" /\ iter' = iter /\ s = <<>> BY <3>2, <1>0, <1>3 DEF PushStep, Woken
      <4>2. events' = events
        <5>1. events[r] \o <<>> = events[r] BY <1>0, ConcatEmptySeq
        <5> QED BY <4>1, <5>1, <1>0 DEF PushStep
      <4> QED BY <4>1, <4>2, <1>1 DEF ControlInv, EndInv
    <3> QED BY <2>2, <3>1, <3>2
  <2> QED BY <2>1, <2>2
<1>11. PromptInv'
  <2>1. Root \in Runs BY LineRoot
  <2> QED BY <2>1, <1>3, <1>5 DEF ControlInv, PromptInv
<1> QED BY <1>1, <1>4, <1>7, <1>8, <1>9, <1>10, <1>11 DEF ControlInv

\* The model answers with tool calls that start the sub-agents S.
StartStep(r, S) ==
  /\ loop[r] = "model" /\ S \in SUBSET {c \in Children(r) : loop[c] = "new"}
  /\ events' = [events EXCEPT ![r] = @ \o <<Message(r)>>]
  /\ loop' = [c \in Runs |-> IF c = r THEN "tools" ELSE IF c \in S THEN "model" ELSE loop[c]]
  /\ iter' = [c \in Runs |-> IF c = r THEN Woken(r) ELSE IF c \in S THEN "ready" ELSE iter[c]]
  /\ awaiting' = [c \in Runs |-> IF c \in S THEN "result" ELSE awaiting[c]]
  /\ UNCHANGED <<pos, resolvers, asked, thrown, prompt>>

LEMMA StartControl ==
  ASSUME Typed, DataInv, ControlInv, NEW r \in Runs, NEW S, StartStep(r, S)
  PROVE  Typed' /\ DataInv' /\ ControlInv'
<1>0. /\ loop \in [Runs -> {"new", "model", "tools", "waiting", "live", "done"}]
      /\ events \in [Runs -> Seq(EventRec)] /\ pos \in [Runs -> Nat]
      /\ iter \in [Runs -> {"off", "ready", "waiting", "busy", "ended"}]
      /\ awaiting \in [Runs -> {None, "result", "forward", "over"}]
  BY DEF Typed
<1>1. /\ DataInv' /\ events' \in [Runs -> Seq(EventRec)] /\ pos' = pos
      /\ \A x \in Runs : Grown(events[x], events'[x])
  <2> DEFINE s == <<Message(r)>>
  <2>1. Message(r) \in EventRec BY DEF Message, EventRec
  <2>2. s \in Seq(EventRec) /\ \A i \in 1..Len(s) : s[i].of = r BY <2>1 DEF Message
  <2>3. events' = [events EXCEPT ![r] = @ \o s] /\ pos' = pos BY DEF StartStep
  <2> HIDE DEF s
  <2> QED BY <2>2, <2>3, DataPush
<1>2. /\ loop[r] = "model" /\ S \subseteq Runs \ {Root} /\ r \notin S
      /\ \A c \in S : Parent[c] = r /\ loop[c] = "new"
  BY DEF StartStep, Children
<1>3. /\ loop'[r] = "tools" /\ \A c \in S : loop'[c] = "model" /\ iter'[c] = "ready" /\ awaiting'[c] = "result"
      /\ \A x \in Runs \ S : x # r => loop'[x] = loop[x] /\ iter'[x] = iter[x]
      /\ \A x \in Runs \ S : awaiting'[x] = awaiting[x]
      /\ iter'[r] = Woken(r)
      /\ \A x \in Runs \ {r} : events'[x] = events[x]
      /\ prompt' = prompt /\ thrown' = thrown
  BY <1>0, <1>2 DEF StartStep
<1>4. iter'[r] = iter[r] \/ (iter[r] = "waiting" /\ iter'[r] = "ready") BY <1>3 DEF Woken
<1>5. Typed'
  <2>1. loop' \in [Runs -> {"new", "model", "tools", "waiting", "live", "done"}] BY <1>0 DEF StartStep
  <2>2. Woken(r) \in {"off", "ready", "waiting", "busy", "ended"} BY <1>0 DEF Woken
  <2>3. iter' \in [Runs -> {"off", "ready", "waiting", "busy", "ended"}] BY <1>0, <2>2 DEF StartStep
  <2>4. awaiting' \in [Runs -> {None, "result", "forward", "over"}] BY <1>0 DEF StartStep
  <2> QED BY <2>1, <2>3, <2>4, <1>0, <1>1 DEF StartStep, Typed
<1>7. LifeInv'
  <2>1. loop'[Root] # "new" /\ awaiting'[Root] = None BY <1>2, <1>3, LineRoot DEF ControlInv, LifeInv
  <2>2. ASSUME NEW c \in Runs \ {Root}
        PROVE /\ awaiting'[c] = None <=> loop'[c] = "new"
              /\ awaiting'[c] \in {"forward", "over"} => loop'[c] = "done"
              /\ loop'[c] = "new" <=> iter'[c] = "off"
              /\ iter'[c] # "busy"
              /\ awaiting'[c] = "over" => iter'[c] = "ended"
    <3>1. CASE c \in S BY <3>1, <1>3 DEF None
    <3>2. CASE c = r BY <3>2, <1>2, <1>3, <1>4 DEF ControlInv, LifeInv
    <3>3. CASE c \notin S /\ c # r BY <3>3, <1>2, <1>3 DEF ControlInv, LifeInv
    <3> QED BY <3>1, <3>2, <3>3
  <2> QED BY <2>1, <2>2 DEF LifeInv
<1>8. BirthInv'
  <2> SUFFICES ASSUME NEW c \in Runs \ {Root}
               PROVE  (loop'[c] = "new" => events'[c] = <<>>) /\ (loop'[Parent[c]] = "new" => loop'[c] = "new")
    BY DEF BirthInv
  <2>1. Parent[c] \in Runs BY NoCycle
  <2>2. loop'[c] = "new" => c \notin S /\ c # r /\ loop[c] = "new" BY <1>3
  <2>3. loop'[Parent[c]] = "new" => Parent[c] \notin S /\ Parent[c] # r /\ loop[Parent[c]] = "new"
    BY <1>3, <2>1
  <2>4. loop'[Parent[c]] = "new" => loop'[c] = "new"
    <3> HAVE loop'[Parent[c]] = "new"
    <3>1. loop[c] = "new" /\ Parent[c] # r BY <2>3 DEF ControlInv, BirthInv
    <3>2. c \notin S /\ c # r BY <3>1, <1>2
    <3> QED BY <3>1, <3>2, <1>3
  <2> QED BY <2>2, <2>4, <1>3 DEF ControlInv, BirthInv
<1>9. KidsInv'
  <2> SUFFICES ASSUME NEW c \in Runs \ {Root}, Active(c)'
               PROVE  loop'[Parent[c]] = "tools" \/ Parent[c] \in thrown'
    BY DEF KidsInv
  <2>1. Parent[c] \in Runs BY NoCycle
  <2>3. CASE Parent[c] = r BY <2>3, <1>3
  <2>4. CASE Parent[c] # r
    <3>1. c \notin S BY <1>2, <2>4
    <3>2. Active(c) BY <3>1, <1>3 DEF Active
    <3>3. loop[Parent[c]] = "tools" \/ Parent[c] \in thrown BY <3>2 DEF ControlInv, KidsInv
    <3>4. Parent[c] \notin S \/ loop[Parent[c]] = "new" BY <1>2
    <3> QED BY <2>1, <2>4, <3>3, <3>4, <1>3
  <2> QED BY <2>3, <2>4
<1>10. EndInv'
  <2> SUFFICES ASSUME NEW x \in Runs
               PROVE  /\ iter'[x] = "ended" => loop'[x] = "done"
                      /\ iter'[x] = "waiting" => pos'[x] = Len(events'[x])
                      /\ iter'[x] = "ended" /\ x \notin thrown' => pos'[x] = Len(events'[x])
    BY DEF EndInv
  <2>1. CASE x \in S BY <2>1, <1>3
  <2>2. CASE x = r
    <3>1. iter[r] # "ended" BY <1>2 DEF ControlInv, EndInv
    <3>2. iter'[r] # "ended" /\ iter'[r] # "waiting" BY <3>1, <1>3 DEF Woken
    <3> QED BY <2>2, <3>2
  <2>3. CASE x \notin S /\ x # r BY <2>3, <1>1, <1>3 DEF ControlInv, EndInv
  <2> QED BY <2>1, <2>2, <2>3
<1>11. PromptInv'
  <2>1. Root \in Runs /\ Root \notin S BY LineRoot, <1>2
  <2>2. CASE Root = r BY <2>2, <1>3, <1>4 DEF ControlInv, PromptInv
  <2>3. CASE Root # r BY <2>1, <2>3, <1>3 DEF ControlInv, PromptInv
  <2> QED BY <2>2, <2>3
<1> QED BY <1>1, <1>5, <1>7, <1>8, <1>9, <1>10, <1>11 DEF ControlInv

\* While a sub-agent's events are forwarded its tool call is running, and its parent's loop
\* is at the step or has been thrown out of it.
LEMMA Forwarding ==
  ASSUME Typed, ControlInv, NEW c \in Runs \ {Root}, iter[c] = "ready"
  PROVE  /\ Active(c) /\ loop[c] # "new" /\ loop[Parent[c]] # "new"
         /\ loop[Parent[c]] = "tools" \/ Parent[c] \in thrown
<1>1. loop[c] # "new" BY DEF ControlInv, LifeInv
<1>2. awaiting[c] # None /\ awaiting[c] # "over" BY <1>1 DEF ControlInv, LifeInv
<1>3. Active(c) BY <1>2 DEF Typed, Active
<1>4. loop[Parent[c]] # "new" BY <1>1 DEF ControlInv, BirthInv
<1> QED BY <1>1, <1>3, <1>4 DEF ControlInv, KidsInv

LEMMA ForwardControl ==
  ASSUME Typed, DataInv, ControlInv, NEW c \in Runs, Forward(c)
  PROVE  Typed' /\ DataInv' /\ ControlInv'
<1> DEFINE p == Parent[c]
<1>0. /\ loop \in [Runs -> {"new", "model", "tools", "waiting", "live", "done"}]
      /\ events \in [Runs -> Seq(EventRec)] /\ pos \in [Runs -> Nat]
      /\ iter \in [Runs -> {"off", "ready", "waiting", "busy", "ended"}]
  BY DEF Typed
<1>1. /\ c \in Runs \ {Root} /\ iter[c] = "ready" /\ pos[c] < Len(events[c])
      /\ events' = [events EXCEPT ![Parent[c]] = Append(@, events[c][pos[c] + 1])]
      /\ pos' = [pos EXCEPT ![c] = @ + 1]
      /\ iter' = [iter EXCEPT ![p] = Woken(p)]
      /\ loop' = loop /\ awaiting' = awaiting /\ thrown' = thrown /\ prompt' = prompt
      /\ resolvers' = resolvers /\ asked' = asked
  BY DEF Forward, HasNext, NextEvent
<1>2. /\ DataInv' /\ events' \in [Runs -> Seq(EventRec)] /\ pos' \in [Runs -> Nat]
      /\ p \in Runs /\ p # c /\ \A x \in Runs \ {p} : events'[x] = events[x]
  BY <1>1, DataForward
<1>3. /\ \A x \in Runs \ {p} : iter'[x] = iter[x]
      /\ iter'[p] = Woken(p)
      /\ iter'[p] = iter[p] \/ (iter[p] = "waiting" /\ iter'[p] = "ready")
      /\ iter' \in [Runs -> {"off", "ready", "waiting", "busy", "ended"}]
  BY <1>0, <1>1, <1>2 DEF Woken
<1>4. \A x \in Runs \ {c} : pos'[x] = pos[x] BY <1>0, <1>1
<1>5. Typed' BY <1>1, <1>2, <1>3 DEF Typed
<1>6. loop[p] # "new" /\ (loop[p] = "tools" \/ p \in thrown) BY <1>1, Forwarding DEF ControlInv, LifeInv
<1>7. LifeInv' BY <1>1, <1>2, <1>3 DEF ControlInv, LifeInv
<1>8. BirthInv' BY <1>1, <1>2, <1>6 DEF ControlInv, BirthInv
<1>9. KidsInv' BY <1>1 DEF ControlInv, KidsInv, Active
<1>10. EndInv'
  <2> SUFFICES ASSUME NEW x \in Runs
               PROVE  /\ iter'[x] = "ended" => loop'[x] = "done"
                      /\ iter'[x] = "waiting" => pos'[x] = Len(events'[x])
                      /\ iter'[x] = "ended" /\ x \notin thrown' => pos'[x] = Len(events'[x])
    BY DEF EndInv
  <2>1. CASE x = p
    <3>1. iter'[p] # "waiting" BY <1>3 DEF Woken
    <3>2. iter'[p] = "ended" => iter[p] = "ended" BY <1>3 DEF Woken
    <3>3. iter'[p] = "ended" => loop[p] = "done" BY <3>2, <1>2 DEF ControlInv, EndInv
    <3>4. iter'[p] = "ended" => p \in thrown BY <3>3, <1>6
    <3> QED BY <2>1, <3>1, <3>3, <3>4, <1>1
  <2>2. CASE x = c BY <2>2, <1>1, <1>2, <1>3
  <2>3. CASE x # p /\ x # c BY <2>3, <1>1, <1>2, <1>3, <1>4 DEF ControlInv, EndInv
  <2> QED BY <2>1, <2>2, <2>3
<1>11. PromptInv'
  <2>1. Root \in Runs BY LineRoot
  <2> QED BY <2>1, <1>1, <1>2, <1>3 DEF ControlInv, PromptInv
<1> QED BY <1>2, <1>5, <1>7, <1>8, <1>9, <1>10, <1>11 DEF ControlInv

\* A step of a handle or of the consumer that no stream and no loop sees.
ConsumerSteps == Consume \/ Subscribe \/ ConsumerGoesOn \/ \E c \in Calls : AnswerFromOutside(c)

LEMMA ConsumerControl ==
  ASSUME Typed, DataInv, ControlInv, ConsumerSteps
  PROVE  Typed' /\ DataInv' /\ ControlInv'
<1>0. /\ pos \in [Runs -> Nat] /\ iter \in [Runs -> {"off", "ready", "waiting", "busy", "ended"}]
      /\ Root \in Runs /\ resolvers \in SUBSET Calls
  BY LineRoot DEF Typed
<1>1. /\ loop' = loop /\ awaiting' = awaiting /\ thrown' = thrown /\ prompt' = prompt
      /\ events' = events /\ asked' = asked /\ resolvers' \in SUBSET Calls
      /\ \A x \in Runs \ {Root} : iter'[x] = iter[x] /\ pos'[x] = pos[x]
      /\ iter' \in [Runs -> {"off", "ready", "waiting", "busy", "ended"}]
      /\ iter' # iter => iter'[Root] \in {"ready", "busy"}
      /\ prompt => iter'[Root] # "busy" \/ iter'[Root] = iter[Root]
      /\ \/ pos' = pos
         \/ pos' = [pos EXCEPT ![Root] = @ + 1] /\ pos[Root] < Len(events[Root]) /\ iter[Root] = "ready"
  <2>1. CASE Consume
    <3>1. /\ iter[Root] = "ready" /\ pos[Root] < Len(events[Root]) /\ pos' = [pos EXCEPT ![Root] = @ + 1]
          /\ UNCHANGED <<loop, events, awaiting, asked, thrown, prompt>>
      BY <2>1 DEF Consume, HasNext
    <3>2. resolvers' \in SUBSET Calls BY <2>1, <1>0 DEF Consume
    <3>3. iter' = iter \/ (~prompt /\ iter' = [iter EXCEPT ![Root] = "busy"]) BY <2>1 DEF Consume
    <3> QED BY <3>1, <3>2, <3>3, <1>0
  <2>2. CASE Subscribe BY <2>2, <1>0 DEF Subscribe
  <2>3. CASE ConsumerGoesOn BY <2>3, <1>0 DEF ConsumerGoesOn
  <2>4. CASE \E c \in Calls : AnswerFromOutside(c) BY <2>4, <1>0 DEF AnswerFromOutside
  <2> QED BY <2>1, <2>2, <2>3, <2>4 DEF ConsumerSteps
<1>2. DataInv' /\ pos' \in [Runs -> Nat]
  <2>1. CASE pos' = pos BY <2>1, <1>0, <1>1, DataSame
  <2>2. CASE pos' # pos BY <2>2, <1>1, DataTake
  <2> QED BY <2>1, <2>2
<1>3. Typed' BY <1>1, <1>2 DEF Typed
<1>4. LifeInv' /\ BirthInv' /\ KidsInv' BY <1>1 DEF ControlInv, LifeInv, BirthInv, KidsInv, Active
<1>5. EndInv'
  <2> SUFFICES ASSUME NEW x \in Runs
               PROVE  /\ iter'[x] = "ended" => loop'[x] = "done"
                      /\ iter'[x] = "waiting" => pos'[x] = Len(events'[x])
                      /\ iter'[x] = "ended" /\ x \notin thrown' => pos'[x] = Len(events'[x])
    BY DEF EndInv
  <2>1. CASE iter' = iter /\ pos' = pos BY <2>1, <1>1 DEF ControlInv, EndInv
  <2>2. CASE x # Root BY <2>2, <1>1 DEF ControlInv, EndInv
  <2>3. CASE iter' = iter /\ pos' # pos /\ x = Root BY <2>3, <1>1
  <2>4. CASE iter' # iter /\ x = Root BY <2>4, <1>1
  <2> QED BY <2>1, <2>2, <2>3, <2>4
<1>6. PromptInv'
  <2>1. CASE iter' = iter BY <2>1, <1>1 DEF ControlInv, PromptInv
  <2>2. CASE iter' # iter BY <2>2, <1>1 DEF ControlInv, PromptInv
  <2> QED BY <2>1, <2>2
<1> QED BY <1>2, <1>3, <1>4, <1>5, <1>6 DEF ControlInv

LEMMA HandleControl ==
  ASSUME Typed, DataInv, ControlInv, NEW c \in Runs, Await(c) \/ DrainEnds(c)
  PROVE  Typed' /\ DataInv' /\ ControlInv'
<1>0. /\ pos \in [Runs -> Nat] /\ iter \in [Runs -> {"off", "ready", "waiting", "busy", "ended"}]
      /\ awaiting \in [Runs -> {None, "result", "forward", "over"}]
      /\ events \in [Runs -> Seq(EventRec)]
  BY DEF Typed
<1>1. /\ loop' = loop /\ thrown' = thrown /\ prompt' = prompt /\ events' = events /\ pos' = pos
      /\ asked' = asked /\ resolvers' = resolvers
  BY DEF Await, ChildResult, ChildForwarded, DrainEnds
<1>2. DataInv' BY <1>1, DataSame
<1>3. CASE ChildResult(c)
  <2>1. /\ iter' = iter /\ loop[c] = "done" /\ awaiting[c] = "result"
        /\ awaiting'[c] = "forward" /\ \A x \in Runs \ {c} : awaiting'[x] = awaiting[x]
        /\ awaiting' \in [Runs -> {None, "result", "forward", "over"}]
    BY <1>3, <1>0 DEF ChildResult
  <2>0. c # Root BY <2>1 DEF ControlInv, LifeInv, None
  <2>2. Typed' BY <2>1, <1>1 DEF Typed
  <2>3. LifeInv' BY <2>0, <2>1, <1>1, LineRoot DEF ControlInv, LifeInv, None
  <2>4. BirthInv' /\ EndInv' /\ PromptInv' BY <2>1, <1>1 DEF ControlInv, BirthInv, EndInv, PromptInv
  <2>5. KidsInv' BY <2>1, <1>1 DEF ControlInv, KidsInv, Active
  <2> QED BY <2>2, <2>3, <2>4, <2>5, <1>2 DEF ControlInv
<1>4. CASE ChildForwarded(c)
  <2>1. /\ iter' = iter /\ awaiting[c] = "forward" /\ iter[c] = "ended"
        /\ awaiting'[c] = "over" /\ \A x \in Runs \ {c} : awaiting'[x] = awaiting[x]
        /\ awaiting' \in [Runs -> {None, "result", "forward", "over"}]
    BY <1>4, <1>0 DEF ChildForwarded, ForwardingOver
  <2>0. c # Root BY <2>1 DEF ControlInv, LifeInv, None
  <2>2. Typed' BY <2>1, <1>1 DEF Typed
  <2>3. LifeInv'
    <3>1. loop[c] = "done" BY <2>1 DEF ControlInv, EndInv
    <3> QED BY <2>0, <2>1, <3>1, <1>1, LineRoot DEF ControlInv, LifeInv, None
  <2>4. BirthInv' /\ EndInv' /\ PromptInv' BY <2>1, <1>1 DEF ControlInv, BirthInv, EndInv, PromptInv
  <2>5. KidsInv'
    <3>1. \A x \in Runs : Active(x)' => Active(x) BY <2>1 DEF Active
    <3> QED BY <3>1, <1>1 DEF ControlInv, KidsInv
  <2> QED BY <2>2, <2>3, <2>4, <2>5, <1>2 DEF ControlInv
<1>5. CASE DrainEnds(c)
  <2>1. /\ iter[c] = "ready" /\ awaiting' = awaiting /\ ~(pos[c] < Len(events[c]))
        /\ iter'[c] = IF loop[c] = "done" THEN "ended" ELSE "waiting"
        /\ \A x \in Runs \ {c} : iter'[x] = iter[x]
        /\ iter' \in [Runs -> {"off", "ready", "waiting", "busy", "ended"}]
    BY <1>5, <1>0 DEF DrainEnds, HasNext
  <2>2. Typed' BY <2>1, <1>1 DEF Typed
  <2>3. LifeInv'
    <3>1. ASSUME NEW x \in Runs \ {Root}
          PROVE /\ awaiting'[x] = None <=> loop'[x] = "new"
                /\ awaiting'[x] \in {"forward", "over"} => loop'[x] = "done"
                /\ loop'[x] = "new" <=> iter'[x] = "off"
                /\ iter'[x] # "busy"
                /\ awaiting'[x] = "over" => iter'[x] = "ended"
      <4>1. CASE x = c BY <4>1, <2>1, <1>1 DEF ControlInv, LifeInv
      <4>2. CASE x # c BY <4>2, <2>1, <1>1 DEF ControlInv, LifeInv
      <4> QED BY <4>1, <4>2
    <3> QED BY <3>1, <2>1, <1>1 DEF ControlInv, LifeInv
  <2>4. BirthInv' BY <1>1 DEF ControlInv, BirthInv
  <2>5. KidsInv' BY <2>1, <1>1 DEF ControlInv, KidsInv, Active
  <2>6. EndInv'
    <3>1. pos[c] = Len(events[c])
      <4>1. pos[c] \in Nat /\ Len(events[c]) \in Nat /\ pos[c] <= Len(events[c]) BY <1>0 DEF DataInv, PosInv
      <4> QED BY <4>1, <2>1
    <3> QED BY <3>1, <2>1, <1>1 DEF ControlInv, EndInv
  <2>7. PromptInv'
    <3>1. Root \in Runs BY LineRoot
    <3> QED BY <3>1, <2>1, <1>1 DEF ControlInv, PromptInv
  <2> QED BY <2>2, <2>3, <2>4, <2>5, <2>6, <2>7, <1>2 DEF ControlInv
<1> QED BY <1>3, <1>4, <1>5 DEF Await

-----------------------------------------------------------------------------
(* The loops.                                                              *)

LEMMA Asks ==
  ASSUME NEW r \in Runs, NEW A \in SUBSET Calls
  PROVE  LET s == AskEvents(r, A)
         IN  /\ s \in Seq(EventRec)
             /\ \A i \in 1..Len(s) : s[i].of = r /\ s[i].ask \in A
             /\ \A i, j \in 1..Len(s) : s[i].ask = s[j].ask => i = j
<1> DEFINE q == SetToSeq(A)
           n == Cardinality(A)
<1>1. IsFiniteSet(A) BY AgentRunAssumption, FS_Subset
<1>2. n \in Nat /\ ExistsBijection(1..n, A) BY <1>1, FS_CardinalityType
<1>3. \E f \in [1..n -> A] : IsInjective(f)
  BY <1>2 DEF ExistsBijection, Bijection, Injection, IsInjective
<1>4. q \in [1..n -> A] /\ IsInjective(q) BY <1>3 DEF SetToSeq
<1> DEFINE s == [i \in DOMAIN q |-> [of |-> r, ask |-> q[i]]]
<1>5. AskEvents(r, A) = s BY DEF AskEvents
<1> HIDE DEF q, n
<1>6. s = [i \in 1..n |-> [of |-> r, ask |-> q[i]]] BY <1>4
<1>7. \A i \in 1..n : s[i] = [of |-> r, ask |-> q[i]] /\ q[i] \in A BY <1>4
<1> HIDE DEF s
<1>8. ASSUME NEW i \in 1..n PROVE s[i] \in EventRec
  <2>1. s[i] = [of |-> r, ask |-> q[i]] BY <1>7
  <2>2. q[i] \in A BY <1>7
  <2>3. q[i] \in Calls BY <2>2
  <2> QED BY <2>1, <2>3 DEF EventRec
<1>9. s \in Seq(EventRec) /\ Len(s) = n
  <2>1. s \in [1..n -> EventRec] BY <1>6, <1>8
  <2> QED BY <2>1, <1>2
<1>10. \A i, j \in 1..n : q[i] = q[j] => i = j BY <1>4 DEF IsInjective
<1> QED BY <1>5, <1>7, <1>9, <1>10

\* What a message, and what nothing, is as a sequence of events.
LEMMA Messages ==
  ASSUME NEW r \in Runs
  PROVE  /\ <<Message(r)>> \in Seq(EventRec)
         /\ \A i \in 1..Len(<<Message(r)>>) : <<Message(r)>>[i].of = r /\ <<Message(r)>>[i].ask = None
         /\ <<>> \in Seq(EventRec) /\ \A i \in 1..Len(<<>>) : FALSE
<1>1. Message(r) \in EventRec BY DEF Message, EventRec
<1> QED BY <1>1 DEF Message

\* Every step of a loop is a push or starts sub-agents.
LEMMA LoopIs ==
  ASSUME Typed, ControlInv, NEW r \in Runs, Loop(r)
  PROVE  \/ \E s, n : PushStep(r, s, n)
         \/ \E S : StartStep(r, S)
<1>0. /\ events \in [Runs -> Seq(EventRec)] /\ thrown \in SUBSET Runs /\ asked \in SUBSET Calls
      /\ resolvers \in SUBSET Calls /\ Owned(r) \in SUBSET Calls
      /\ [iter EXCEPT ![r] = iter[r]] = iter
  BY DEF Typed, Owned
<1>1. ASSUME loop[r] # "tools", r \notin thrown, NEW c \in Children(r)
      PROVE  ~Active(c)
  BY <1>1 DEF Children, ControlInv, KidsInv
<1>2. CASE ModelAnswers(r)
  <2>1. ASSUME PushAndFinish(r, <<Message(r)>>, "ended"), UNCHANGED <<steps, pos, awaiting>>
        PROVE  PushStep(r, <<Message(r)>>, "done")
    BY <2>1, <1>0, <1>1, <1>2, Messages DEF ModelAnswers, PushStep, PushAndFinish, Cleared
  <2>2. ASSUME NEW S \in SUBSET {c \in Children(r) : loop[c] = "new"},
               events' = [events EXCEPT ![r] = Append(@, Message(r))],
               loop' = [c \in Runs |-> IF c = r THEN "tools" ELSE IF c \in S THEN "model" ELSE loop[c]],
               iter' = [c \in Runs |-> IF c = r THEN Woken(r) ELSE IF c \in S THEN "ready" ELSE iter[c]],
               awaiting' = [c \in Runs |-> IF c \in S THEN "result" ELSE awaiting[c]],
               UNCHANGED <<outcome, pos, resolvers>>
        PROVE  StartStep(r, S)
    <3>1. Append(events[r], Message(r)) = events[r] \o <<Message(r)>>
      <4>1. Message(r) \in EventRec /\ events[r] \in Seq(EventRec) BY <1>0 DEF Message, EventRec
      <4> QED BY <4>1, AppendIsConcat
    <3>2. events' = [events EXCEPT ![r] = @ \o <<Message(r)>>] BY <2>2, <3>1
    <3> QED BY <2>2, <3>2, <1>2 DEF ModelAnswers, StartStep
  <2> QED BY <2>1, <2>2, <1>2 DEF ModelAnswers
<1>3. CASE ToolsDone(r)
  <2>1. PICK A \in SUBSET (Owned(r) \ asked) :
          /\ asked' = asked \cup A
          /\ \/ /\ A = {} /\ Paused(r) = {}
                /\ PushAndGo(r, <<Message(r)>>, "model")
                /\ UNCHANGED resolvers
             \/ /\ A = {} /\ Paused(r) # {}
                /\ PushAndFinish(r, <<>>, "approvalRequired")
             \/ /\ A # {}
                /\ PushAndGo(r, AskEvents(r, A), "waiting")
                /\ resolvers' = resolvers \cup A
    BY <1>3 DEF ToolsDone
  <2>2. /\ loop[r] = "tools" /\ \A c \in Children(r) : ~Active(c)
        /\ UNCHANGED <<steps, pos, awaiting, thrown, prompt>>
        /\ asked' \in SUBSET Calls /\ A \in SUBSET Calls
    BY <1>0, <1>3, <2>1 DEF ToolsDone, ToolsSettled
  <2>3. CASE PushAndGo(r, <<Message(r)>>, "model") /\ UNCHANGED resolvers
    <3>1. PushStep(r, <<Message(r)>>, "model")
      BY <2>2, <2>3, <1>0, Messages DEF PushStep, PushAndGo
    <3> QED BY <3>1
  <2>4. CASE PushAndFinish(r, <<>>, "approvalRequired")
    <3>1. PushStep(r, <<>>, "done") BY <2>2, <2>4, <1>0, Messages DEF PushStep, PushAndFinish, Cleared
    <3> QED BY <3>1
  <2>5. CASE PushAndGo(r, AskEvents(r, A), "waiting") /\ resolvers' = resolvers \cup A
    <3>1. AskEvents(r, A) \in Seq(EventRec) /\ \A i \in 1..Len(AskEvents(r, A)) : AskEvents(r, A)[i].of = r
      BY <2>2, Asks
    <3>2. iter' = [iter EXCEPT ![r] = Woken(r)] \/ (iter' = iter /\ AskEvents(r, A) = <<>>)
      BY <2>5, <1>0 DEF PushAndGo
    <3>3. resolvers' \in SUBSET Calls BY <2>2, <2>5, <1>0
    <3>4. PushStep(r, AskEvents(r, A), "waiting") BY <2>2, <2>5, <3>1, <3>2, <3>3, <1>0 DEF PushStep, PushAndGo
    <3> QED BY <3>4
  <2> QED BY <2>1, <2>3, <2>4, <2>5
<1>4. CASE StepThrows(r)
  <2>1. PushStep(r, <<>>, "done")
    BY <1>4, <1>0, Messages DEF StepThrows, PushStep, PushAndFinish, Cleared
  <2> QED BY <2>1
<1>5. CASE TimerFires(r)
  <2>1. loop[r] = "waiting" /\ UNCHANGED <<steps, pos, awaiting, asked, thrown, prompt>> BY <1>5 DEF TimerFires
  <2>2. CASE PushAndFinish(r, <<>>, "approvalRequired")
    <3>1. PushStep(r, <<>>, "done") BY <2>1, <2>2, <1>0, <1>1, Messages DEF PushStep, PushAndFinish, Cleared
    <3> QED BY <3>1
  <2>3. CASE PushAndGo(r, <<>>, "live") /\ UNCHANGED resolvers
    <3>0. iter' = iter BY <2>3, <1>0 DEF PushAndGo
    <3>1. PushStep(r, <<>>, "live") BY <2>1, <2>3, <3>0, <1>0, <1>1, Messages DEF PushStep, PushAndGo
    <3> QED BY <3>1
  <2> QED BY <1>5, <2>2, <2>3 DEF TimerFires
<1>6. CASE LiveDone(r)
  <2>1. PushStep(r, <<Message(r)>>, "model")
    BY <1>6, <1>0, <1>1, Messages DEF LiveDone, PushStep, PushAndGo
  <2> QED BY <2>1
<1> QED BY <1>2, <1>3, <1>4, <1>5, <1>6 DEF Loop

HandleInv == Typed /\ DataInv /\ ControlInv

LEMMA HandleInit == Init => HandleInv
<1> SUFFICES ASSUME Init PROVE HandleInv OBVIOUS
<1>0. /\ loop = [r \in Runs |-> IF r = Root THEN "model" ELSE "new"]
      /\ events = [r \in Runs |-> <<>>] /\ pos = [r \in Runs |-> 0]
      /\ iter = [r \in Runs |-> IF r = Root /\ prompt THEN "ready" ELSE "off"]
      /\ awaiting = [r \in Runs |-> None]
      /\ resolvers = {} /\ asked = {} /\ thrown = {} /\ prompt \in BOOLEAN /\ Root \in Runs
  BY LineRoot DEF Init
<1>1. Typed
  <2>1. <<>> \in Seq(EventRec) OBVIOUS
  <2>2. events \in [Runs -> Seq(EventRec)] BY <2>1, <1>0
  <2> QED BY <2>2, <1>0 DEF Typed
<1>2. \A r \in Runs : Len(events[r]) = 0 /\ DOMAIN events[r] = {} /\ pos[r] = 0 BY <1>0
<1>3. MergeInv
  <2> SUFFICES ASSUME NEW c \in Runs \ {Root} PROVE Cardinality(From(c)) = pos[c] /\ From(c) = {}
    BY DEF MergeInv
  <2>1. Parent[c] \in Runs BY NoCycle
  <2>2. From(c) = {} BY <2>1, <1>2 DEF From
  <2> QED BY <2>2, <1>2, FS_EmptySet
<1>4. CopyInv /\ PosInv /\ OwnInv BY <1>2 DEF CopyInv, PosInv, OwnInv
<1>5. LifeInv BY <1>0 DEF LifeInv, None
<1>6. BirthInv BY <1>0 DEF BirthInv
<1>7. KidsInv BY <1>0 DEF KidsInv, Active, None
<1>8. EndInv /\ PromptInv BY <1>0 DEF EndInv, PromptInv
<1> QED BY <1>1, <1>3, <1>4, <1>5, <1>6, <1>7, <1>8 DEF HandleInv, DataInv, ControlInv

LEMMA HandleStep == HandleInv /\ [Next]_vars => HandleInv'
<1> SUFFICES ASSUME HandleInv, [Next]_vars PROVE HandleInv' OBVIOUS
<1>1. Typed /\ DataInv /\ ControlInv BY DEF HandleInv
<1>2. ASSUME NEW r \in Runs, Loop(r) PROVE HandleInv'
  <2>1. CASE \E s, n : PushStep(r, s, n) BY <2>1, <1>1, PushControl DEF HandleInv
  <2>2. CASE \E S : StartStep(r, S) BY <2>2, <1>1, StartControl DEF HandleInv
  <2> QED BY <1>1, <1>2, <2>1, <2>2, LoopIs
<1>3. ASSUME NEW r \in Runs, Iterator(r) \/ Await(r) PROVE HandleInv'
  BY <1>1, <1>3, ForwardControl, HandleControl DEF HandleInv, Iterator
<1>4. ASSUME Consumer \/ Subscribe \/ \E c \in Calls : AnswerFromOutside(c) PROVE HandleInv'
  BY <1>1, <1>4, ConsumerControl DEF HandleInv, ConsumerSteps, Consumer
<1>5. CASE UNCHANGED vars
  <2>1. /\ loop' = loop /\ events' = events /\ iter' = iter /\ pos' = pos /\ awaiting' = awaiting
        /\ resolvers' = resolvers /\ asked' = asked /\ thrown' = thrown /\ prompt' = prompt
    BY <1>5 DEF vars
  <2>2. DataInv' BY <1>1, <2>1, DataSame
  <2>3. Typed' BY <1>1, <2>1 DEF Typed
  <2>4. LifeInv' /\ BirthInv' BY <1>1, <2>1 DEF ControlInv, LifeInv, BirthInv
  <2>5. KidsInv' /\ EndInv' /\ PromptInv' BY <1>1, <2>1 DEF ControlInv, KidsInv, EndInv, PromptInv, Active
  <2> QED BY <2>2, <2>3, <2>4, <2>5 DEF HandleInv, ControlInv
<1> QED BY <1>2, <1>3, <1>4, <1>5 DEF Next, Rest

\* The handles of a tree of runs agree with each other at all times.
THEOREM HandlesAgree == Spec => []HandleInv
BY HandleInit, HandleStep, PTL DEF Spec

-----------------------------------------------------------------------------
(* MergedInOrder.                                                          *)

\* A loop that is in progress below another means that the other is at the step it waits in.
LEMMA InProgress ==
  ASSUME HandleInv, thrown = {}, NEW r \in Runs, loop[r] \notin {"new", "done"}
  PROVE  \A a \in Line[r] : loop[a] \notin {"new", "done"} /\ (a = Root \/ Active(a))
<1> DEFINE S == {x \in Runs : loop[x] \notin {"new", "done"}}
<1>1. ASSUME NEW x \in S, x # Root PROVE Active(x) /\ Parent[x] \in S
  <2>1. x \in Runs \ {Root} /\ Parent[x] \in Runs BY <1>1, NoCycle
  <2>2. Active(x) BY <1>1, <2>1 DEF HandleInv, Typed, ControlInv, LifeInv, Active
  <2>3. loop[Parent[x]] = "tools" BY <2>1, <2>2 DEF HandleInv, ControlInv, KidsInv
  <2> QED BY <2>1, <2>2, <2>3
<1>2. \A x \in S : Parent[x] \in S BY <1>1, AgentRunAssumption
<1>3. Line[r] \subseteq S BY <1>2, LineWithin
<1> QED BY <1>1, <1>3

LEMMA Ended ==
  ASSUME HandleInv, iter[Root] = "ended", thrown = {}
  PROVE  \A r \in Runs :
           /\ loop[r] \in {"new", "done"}
           /\ \A i \in DOMAIN events[r] : \E j \in 1..pos[Root] : events[Root][j] = events[r][i]
<1>0. /\ events \in [Runs -> Seq(EventRec)] /\ pos \in [Runs -> Nat] /\ Root \in Runs
      /\ awaiting \in [Runs -> {None, "result", "forward", "over"}]
  BY LineRoot DEF HandleInv, Typed
<1>1. loop[Root] = "done" /\ pos[Root] = Len(events[Root]) BY <1>0 DEF HandleInv, ControlInv, EndInv
<1>2. ASSUME NEW r \in Runs PROVE loop[r] \in {"new", "done"}
  <2>1. CASE loop[r] \notin {"new", "done"} BY <2>1, <1>1, InProgress, LineRoot
  <2> QED BY <2>1
<1> DEFINE Seen(e) == \E j \in 1..pos[Root] : events[Root][j] = e
           S == {x \in Runs : \E i \in DOMAIN events[x] : ~Seen(events[x][i])}
<1>3. Root \notin S
  <2>1. DOMAIN events[Root] = 1..pos[Root] BY <1>0, <1>1
  <2> QED BY <2>1
<1>4. ASSUME NEW x \in S PROVE Parent[x] \in S
  <2>1. x \in Runs \ {Root} /\ Parent[x] \in Runs BY <1>3, NoCycle
  <2>2. PICK i \in DOMAIN events[x] : ~Seen(events[x][i]) OBVIOUS
  <2>3. events[x] # <<>> /\ i \in 1..Len(events[x]) BY <1>0, <2>1, <2>2
  <2>4. loop[x] = "done" BY <2>1, <2>3, <1>2 DEF HandleInv, ControlInv, BirthInv
  <2>5. ~Active(x) BY <2>1, <1>2 DEF HandleInv, ControlInv, KidsInv
  <2>6. awaiting[x] = "over" BY <2>1, <2>4, <2>5, <1>0 DEF HandleInv, ControlInv, LifeInv, Active
  <2>7. pos[x] = Len(events[x]) BY <2>1, <2>6 DEF HandleInv, ControlInv, LifeInv, EndInv
  <2>8. PICK k \in DOMAIN events[Parent[x]] : events[Parent[x]][k] = events[x][i]
    BY <2>1, <2>3, <2>7 DEF HandleInv, DataInv, CopyInv
  <2>9. ~Seen(events[Parent[x]][k]) BY <2>2, <2>8
  <2> QED BY <2>1, <2>9
<1>5. ASSUME NEW r \in Runs PROVE r \notin S
  <2>1. S \subseteq Runs /\ Root \in Line[r] BY LineRoot
  <2> HIDE DEF S
  <2>2. CASE r \in S
    <3>1. Line[r] \subseteq S BY <2>1, <2>2, <1>4, LineWithin
    <3> QED BY <3>1, <2>1, <1>3
  <2> QED BY <2>2
<1> QED BY <1>2, <1>5

LEMMA InOrder == HandleInv => MergedInOrder
<1> SUFFICES ASSUME HandleInv PROVE MergedInOrder OBVIOUS
<1>0. events \in [Runs -> Seq(EventRec)] /\ pos \in [Runs -> Nat] BY DEF HandleInv, Typed
<1>1. ASSUME NEW c \in Runs \ {Root}, NEW i \in From(c)
      PROVE  LET k == Place(i, From(c)) IN k <= Len(events[c]) /\ events[Parent[c]][i] = events[c][k]
  <2>1. Parent[c] \in Runs BY NoCycle
  <2>2. From(c) \in SUBSET (1..Len(events[Parent[c]])) /\ Len(events[Parent[c]]) \in Nat
    BY <2>1, <1>0 DEF From
  <2>3. Place(i, From(c)) \in 1..Cardinality(From(c)) BY <2>2, PlaceNext
  <2>4. Cardinality(From(c)) = pos[c] /\ events[Parent[c]][i] = events[c][Place(i, From(c))]
    BY DEF HandleInv, DataInv, MergeInv
  <2>5. pos[c] <= Len(events[c]) /\ pos[c] \in Nat /\ Len(events[c]) \in Nat
    BY <1>0 DEF HandleInv, DataInv, PosInv
  <2> QED BY <2>3, <2>4, <2>5
<1>2. ASSUME NEW c \in Runs \ {Root}, awaiting[c] = "over", c \notin thrown
      PROVE  Cardinality(From(c)) = Len(events[c])
  BY <1>2 DEF HandleInv, DataInv, MergeInv, ControlInv, LifeInv, EndInv
<1> QED BY <1>1, <1>2, Ended DEF MergedInOrder

\* Streams of sub-agents arrive in their parents' streams in order, whole before the tool
\* call ends, and a consumer that reached the end has seen every event of the tree.
THEOREM Merged == Spec => []MergedInOrder
<1>1. HandleInv => MergedInOrder BY InOrder
<1> QED BY <1>1, HandlesAgree, PTL

-----------------------------------------------------------------------------
(* PromptAnswerInTime.                                                     *)

\* An approval that was asked for travels up the tree: nobody has taken it from x's stream.
Flying(x, i) == i \in DOMAIN events[x] /\ i > pos[x] /\ events[x][i].ask # None

\* Meanwhile its loop waits for it, and it travels in one stream only.
FlightInv ==
  \A x \in Runs : \A i \in Nat :
    Flying(x, i) => LET c == events[x][i].ask
                    IN  c \in resolvers /\ c \in asked /\ loop[Owner[c]] = "waiting"
OnceInv ==
  \A x, y \in Runs : \A i, j \in Nat :
    Flying(x, i) /\ Flying(y, j) /\ events[x][i].ask = events[y][j].ask => x = y /\ i = j
AskInv == prompt /\ thrown = {} => FlightInv /\ OnceInv

\* While it travels some iterator is awake.
LEMMA FlyingPending ==
  ASSUME HandleInv, prompt, thrown = {}, NEW x \in Runs, NEW i \in Nat, Flying(x, i)
  PROVE  iter[x] = "ready" /\ MicrotaskPending
<1>0. /\ events \in [Runs -> Seq(EventRec)] /\ pos \in [Runs -> Nat]
      /\ iter \in [Runs -> {"off", "ready", "waiting", "busy", "ended"}]
  BY DEF HandleInv, Typed
<1>1. i \in 1..Len(events[x]) /\ pos[x] # Len(events[x])
  <2>1. i \in 1..Len(events[x]) /\ i > pos[x] BY <1>0 DEF Flying
  <2>2. pos[x] \in Nat /\ Len(events[x]) \in Nat BY <1>0
  <2> QED BY <2>1, <2>2
<1>2. iter[x] # "waiting" /\ iter[x] # "ended" BY <1>1 DEF HandleInv, ControlInv, EndInv
<1>3. iter[x] # "off" /\ iter[x] # "busy"
  <2>1. CASE x = Root BY <2>1 DEF HandleInv, ControlInv, PromptInv
  <2>2. CASE x # Root
    <3>1. events[x] # <<>> BY <1>0, <1>1
    <3> QED BY <2>2, <3>1 DEF HandleInv, ControlInv, LifeInv, BirthInv
  <2> QED BY <2>1, <2>2
<1>4. iter[x] = "ready" BY <1>0, <1>2, <1>3
<1> QED BY <1>4 DEF MicrotaskPending

\* What is on its way stays there, with its approval.
LEMMA AskKept ==
  ASSUME HandleInv, AskInv, prompt' = prompt, thrown \subseteq thrown',
         prompt /\ thrown = {} =>
           \A x \in Runs : \A i \in Nat :
             Flying(x, i)' =>
               /\ Flying(x, i) /\ events'[x][i] = events[x][i]
               /\ events[x][i].ask \in resolvers' /\ events[x][i].ask \in asked'
               /\ loop'[Owner[events[x][i].ask]] = "waiting"
  PROVE  AskInv'
<1> SUFFICES ASSUME prompt', thrown' = {} PROVE FlightInv' /\ OnceInv' BY DEF AskInv
<1>1. prompt /\ thrown = {} OBVIOUS
<1>2. FlightInv' BY <1>1 DEF FlightInv
<1>3. OnceInv' BY <1>1 DEF OnceInv, AskInv
<1> QED BY <1>2, <1>3

\* What a push adds to what is on its way.
LEMMA FlyPush ==
  ASSUME HandleInv, NEW r \in Runs, NEW s \in Seq(EventRec),
         events' = [events EXCEPT ![r] = @ \o s], pos' = pos,
         NEW x \in Runs, NEW i \in Nat, Flying(x, i)'
  PROVE  \/ Flying(x, i) /\ events'[x][i] = events[x][i]
         \/ /\ x = r /\ i > Len(events[r]) /\ i - Len(events[r]) \in 1..Len(s)
            /\ events'[x][i] = s[i - Len(events[r])]
<1>0. events \in [Runs -> Seq(EventRec)] /\ pos \in [Runs -> Nat] BY DEF HandleInv, Typed
<1>1. CASE x # r
  <2>1. events'[x] = events[x] BY <1>0, <1>1
  <2> QED BY <2>1 DEF Flying
<1>2. CASE x = r
  <2>1. events[r] \in Seq(EventRec) BY <1>0
  <2>2. events'[r] = events[r] \o s BY <1>0
  <2>3. /\ Grown(events[r], events'[r]) /\ Len(events'[r]) = Len(events[r]) + Len(s)
        /\ Len(events[r]) \in Nat /\ Len(s) \in Nat
        /\ \A k \in 1..Len(events[r]) + Len(s) : k > Len(events[r]) =>
             events'[r][k] = s[k - Len(events[r])] /\ k - Len(events[r]) \in 1..Len(s)
    <3> DEFINE t == events[r] \o s
    <3>1. /\ Grown(events[r], t) /\ Len(t) = Len(events[r]) + Len(s)
          /\ Len(events[r]) \in Nat /\ Len(s) \in Nat
          /\ \A k \in 1..Len(events[r]) + Len(s) : k > Len(events[r]) =>
               t[k] = s[k - Len(events[r])] /\ k - Len(events[r]) \in 1..Len(s)
      BY <2>1, Concats
    <3>2. events'[r] = t BY <2>2
    <3> HIDE DEF t
    <3> QED BY <3>1, <3>2
  <2>4. i \in 1..Len(events[r]) + Len(s) /\ i > pos[r] /\ events'[r][i].ask # None
    BY <1>2, <2>3 DEF Flying, Grown
  <2>5. CASE i > Len(events[r]) BY <2>3, <2>4, <2>5, <1>2
  <2>6. CASE i \in 1..Len(events[r])
    <3>1. events'[r][i] = events[r][i] /\ i \in DOMAIN events[r] BY <2>3, <2>6 DEF Grown
    <3> QED BY <3>1, <2>4, <1>2 DEF Flying
  <2> QED BY <2>3, <2>4, <2>5, <2>6
<1> QED BY <1>1, <1>2

\* A loop that does not wait pushes events that ask nothing, or all is quiet.
LEMMA AskPush ==
  ASSUME HandleInv, AskInv, NEW r \in Runs, NEW s \in Seq(EventRec),
         \A i \in 1..Len(s) : s[i].ask = None,
         events' = [events EXCEPT ![r] = @ \o s], pos' = pos,
         prompt' = prompt, thrown \subseteq thrown', asked \subseteq asked',
         \/ Quiet
         \/ /\ loop[r] # "waiting" /\ \A x \in Runs \ {r} : loop'[x] = loop[x]
            /\ resolvers \ Owned(r) \subseteq resolvers'
  PROVE  AskInv'
<1> SUFFICES ASSUME prompt, thrown = {}, NEW x \in Runs, NEW i \in Nat, Flying(x, i)'
             PROVE /\ Flying(x, i) /\ events'[x][i] = events[x][i]
                   /\ events[x][i].ask \in resolvers' /\ events[x][i].ask \in asked'
                   /\ loop'[Owner[events[x][i].ask]] = "waiting"
  <2>1. prompt /\ thrown = {} =>
          \A x \in Runs : \A i \in Nat :
            Flying(x, i)' =>
              /\ Flying(x, i) /\ events'[x][i] = events[x][i]
              /\ events[x][i].ask \in resolvers' /\ events[x][i].ask \in asked'
              /\ loop'[Owner[events[x][i].ask]] = "waiting"
    OBVIOUS
  <2> HIDE DEF Flying
  <2> QED BY <2>1, AskKept
<1>1. Flying(x, i) /\ events'[x][i] = events[x][i]
  <2>1. events'[x][i].ask # None BY DEF Flying
  <2>2. \/ Flying(x, i) /\ events'[x][i] = events[x][i]
        \/ /\ x = r /\ i > Len(events[r]) /\ i - Len(events[r]) \in 1..Len(s)
           /\ events'[x][i] = s[i - Len(events[r])]
    BY FlyPush
  <2> QED BY <2>1, <2>2
<1>2. ~Quiet BY <1>1, FlyingPending DEF Quiet
<1> DEFINE c == events[x][i].ask
<1>3. c \in resolvers /\ c \in asked /\ loop[Owner[c]] = "waiting" BY <1>1 DEF AskInv, FlightInv
<1>4. c \in Calls /\ Owner[c] \in Runs BY <1>3, AgentRunAssumption DEF HandleInv, Typed
<1>5. Owner[c] # r BY <1>2, <1>3
<1>6. loop'[Owner[c]] = "waiting" /\ c \in resolvers' BY <1>2, <1>3, <1>4, <1>5 DEF Owned
<1> QED BY <1>1, <1>3, <1>6

\* New questions are new, and their loop waits.
LEMMA AskNew ==
  ASSUME HandleInv, AskInv, NEW r \in Runs, NEW A \in SUBSET (Owned(r) \ asked), loop[r] = "tools",
         asked' = asked \cup A, PushAndGo(r, AskEvents(r, A), "waiting"),
         resolvers' = resolvers \cup A, UNCHANGED <<pos, thrown, prompt>>
  PROVE  AskInv'
<1> DEFINE s == AskEvents(r, A)
           n == Len(events[r])
<1>0. events \in [Runs -> Seq(EventRec)] /\ A \in SUBSET Calls /\ loop \in [Runs -> {"new", "model", "tools", "waiting", "live", "done"}]
  BY DEF HandleInv, Typed, Owned
<1>1. /\ s \in Seq(EventRec)
      /\ \A i \in 1..Len(s) : s[i].of = r /\ s[i].ask \in A
      /\ \A i, j \in 1..Len(s) : s[i].ask = s[j].ask => i = j
  BY <1>0, Asks
<1>2. /\ events' = [events EXCEPT ![r] = @ \o s] /\ pos' = pos
      /\ loop' = [loop EXCEPT ![r] = "waiting"]
  BY DEF PushAndGo
<1> HIDE DEF s
<1> SUFFICES ASSUME prompt, thrown = {} PROVE FlightInv' /\ OnceInv' BY DEF AskInv
<1> DEFINE New(x, i) == x = r /\ i > n /\ i - n \in 1..Len(s) /\ events'[x][i] = s[i - n]
<1>3. ASSUME NEW x \in Runs, NEW i \in Nat, Flying(x, i)'
      PROVE  (Flying(x, i) /\ events'[x][i] = events[x][i]) \/ New(x, i)
  BY <1>1, <1>2, <1>3, FlyPush, ZenonT(40)
<1>4. ASSUME NEW x \in Runs, NEW i \in Nat, Flying(x, i)
      PROVE  LET c == events[x][i].ask
             IN  /\ c \in resolvers /\ c \in asked /\ loop[Owner[c]] = "waiting"
                 /\ c \in Calls /\ Owner[c] \in Runs /\ Owner[c] # r
  BY <1>4, AgentRunAssumption DEF AskInv, FlightInv, HandleInv, Typed
<1>5. ASSUME NEW x \in Runs, NEW i \in Nat, New(x, i)
      PROVE  events'[x][i].ask \in A /\ Owner[events'[x][i].ask] = r /\ events'[x][i].ask \notin asked
  BY <1>1, <1>5 DEF Owned
<1>6. FlightInv'
  <2> SUFFICES ASSUME NEW x \in Runs, NEW i \in Nat, Flying(x, i)'
               PROVE  LET c == events'[x][i].ask
                      IN  c \in resolvers' /\ c \in asked' /\ loop'[Owner[c]] = "waiting"
    BY DEF FlightInv
  <2>1. CASE Flying(x, i) /\ events'[x][i] = events[x][i] BY <2>1, <1>0, <1>2, <1>4
  <2>2. CASE New(x, i)
    <3>1. events'[x][i].ask \in A /\ Owner[events'[x][i].ask] = r BY <2>2, <1>5
    <3>2. loop'[r] = "waiting" BY <1>0, <1>2
    <3> QED BY <3>1, <3>2
  <2> QED BY <2>1, <2>2, <1>3
<1>7. OnceInv'
  <2> SUFFICES ASSUME NEW x \in Runs, NEW y \in Runs, NEW i \in Nat, NEW j \in Nat,
                      Flying(x, i)', Flying(y, j)', events'[x][i].ask = events'[y][j].ask
               PROVE  x = y /\ i = j
    BY DEF OnceInv
  <2>1. CASE New(x, i) /\ New(y, j)
    <3>1. n \in Nat /\ i - n \in 1..Len(s) /\ j - n \in 1..Len(s) /\ s[i - n].ask = s[j - n].ask
      BY <2>1, <1>0
    <3>2. i - n = j - n BY <3>1, <1>1
    <3> QED BY <2>1, <3>1, <3>2
  <2>2. CASE Flying(x, i) /\ events'[x][i] = events[x][i] /\ New(y, j) BY <2>2, <1>4, <1>5
  <2>3. CASE New(x, i) /\ Flying(y, j) /\ events'[y][j] = events[y][j] BY <2>3, <1>4, <1>5
  <2>4. CASE Flying(x, i) /\ events'[x][i] = events[x][i] /\ Flying(y, j) /\ events'[y][j] = events[y][j]
    BY <2>4 DEF AskInv, OnceInv
  <2> QED BY <2>1, <2>2, <2>3, <2>4, <1>3
<1> QED BY <1>6, <1>7

\* A forwarded question is in the parent's stream instead of the child's.
LEMMA AskForward ==
  ASSUME HandleInv, AskInv, NEW c \in Runs, Forward(c)
  PROVE  AskInv'
<1> DEFINE p == Parent[c]
           n == Len(events[p]) + 1
           k == pos[c] + 1
<1>0. events \in [Runs -> Seq(EventRec)] /\ pos \in [Runs -> Nat] BY DEF HandleInv, Typed
<1>1. /\ c \in Runs \ {Root} /\ pos[c] < Len(events[c])
      /\ events' = [events EXCEPT ![Parent[c]] = Append(@, events[c][pos[c] + 1])]
      /\ pos' = [pos EXCEPT ![c] = @ + 1]
      /\ loop' = loop /\ thrown' = thrown /\ prompt' = prompt /\ resolvers' = resolvers /\ asked' = asked
  BY DEF Forward, HasNext, NextEvent
<1>2. /\ p \in Runs /\ p # c /\ \A x \in Runs \ {p} : events'[x] = events[x]
      /\ Grown(events[p], events'[p]) /\ Len(events'[p]) = n /\ events'[p][n] = events[c][k]
  BY <1>1, DataForward DEF HandleInv
<1>3. n \in Nat /\ k \in Nat /\ Len(events[p]) \in Nat BY <1>0, <1>2
<1>4. pos'[c] = k /\ \A x \in Runs \ {c} : pos'[x] = pos[x] BY <1>0, <1>1
<1>5. events'[p][n].ask # None => Flying(c, k)
  <2>1. k \in DOMAIN events[c]
    <3>1. DOMAIN events[c] = 1..Len(events[c]) /\ Len(events[c]) \in Nat /\ pos[c] \in Nat BY <1>0
    <3> QED BY <3>1, <1>1
  <2>2. k > pos[c] BY <1>0
  <2> QED BY <2>1, <2>2, <1>2 DEF Flying
<1> HIDE DEF p, n, k
<1>6. ASSUME NEW x \in Runs, NEW i \in Nat, Flying(x, i)'
      PROVE  \/ Flying(x, i) /\ events'[x][i] = events[x][i] /\ ~(x = c /\ i = k)
             \/ x = p /\ i = n /\ Flying(c, k) /\ events'[x][i] = events[c][k]
  <2>1. i \in DOMAIN events'[x] /\ i > pos'[x] /\ events'[x][i].ask # None BY <1>6 DEF Flying
  <2>2. CASE x = c
    <3>1. events'[c] = events[c] /\ i > k /\ k > pos[c]
      <4>1. k > pos[c] BY <1>0 DEF k
      <4> QED BY <4>1, <2>1, <2>2, <1>2, <1>4
    <3>2. i > pos[c] /\ i # k BY <3>1, <1>0, <1>3
    <3> QED BY <2>1, <2>2, <3>1, <3>2 DEF Flying
  <2>3. CASE x = p
    <3>1. i \in 1..n BY <2>1, <2>3, <1>2 DEF Grown
    <3>2. CASE i = n BY <3>2, <2>1, <2>3, <1>2, <1>5
    <3>3. CASE i # n
      <4>1. i \in 1..Len(events[p]) BY <3>1, <3>3, <1>3 DEF n
      <4>2. events'[p][i] = events[p][i] /\ i \in DOMAIN events[p] BY <4>1, <1>2 DEF Grown
      <4> QED BY <4>2, <2>1, <2>3, <1>2, <1>4 DEF Flying
    <3> QED BY <3>2, <3>3
  <2>4. CASE x # c /\ x # p BY <2>1, <2>4, <1>2, <1>4 DEF Flying
  <2> QED BY <2>2, <2>3, <2>4
<1> SUFFICES ASSUME prompt, thrown = {} PROVE FlightInv' /\ OnceInv' BY <1>1 DEF AskInv
<1>7. FlightInv'
  <2> SUFFICES ASSUME NEW x \in Runs, NEW i \in Nat, Flying(x, i)'
               PROVE  LET d == events'[x][i].ask
                      IN  d \in resolvers' /\ d \in asked' /\ loop'[Owner[d]] = "waiting"
    BY DEF FlightInv
  <2>1. CASE Flying(x, i) /\ events'[x][i] = events[x][i] BY <2>1, <1>1 DEF AskInv, FlightInv
  <2>2. CASE Flying(c, k) /\ events'[x][i] = events[c][k] BY <2>2, <1>1, <1>3 DEF AskInv, FlightInv
  <2> QED BY <2>1, <2>2, <1>6
<1>8. OnceInv'
  <2> SUFFICES ASSUME NEW x \in Runs, NEW y \in Runs, NEW i \in Nat, NEW j \in Nat,
                      Flying(x, i)', Flying(y, j)', events'[x][i].ask = events'[y][j].ask
               PROVE  x = y /\ i = j
    BY DEF OnceInv
  <2>1. \A u, v \in Runs : \A a, b \in Nat :
          Flying(u, a) /\ Flying(v, b) /\ events[u][a].ask = events[v][b].ask => u = v /\ a = b
    BY DEF AskInv, OnceInv
  <2> DEFINE Old(u, a) == Flying(u, a) /\ events'[u][a] = events[u][a] /\ ~(u = c /\ a = k)
             New(u, a) == u = p /\ a = n /\ Flying(c, k) /\ events'[u][a] = events[c][k]
  <2>2. (Old(x, i) \/ New(x, i)) /\ (Old(y, j) \/ New(y, j)) BY <1>6
  <2>3. CASE Old(x, i) /\ Old(y, j) BY <2>1, <2>3
  <2>4. CASE Old(x, i) /\ New(y, j) BY <2>1, <2>4, <1>3
  <2>5. CASE New(x, i) /\ Old(y, j) BY <2>1, <2>5, <1>3
  <2>6. CASE New(x, i) /\ New(y, j) BY <2>6
  <2> QED BY <2>2, <2>3, <2>4, <2>5, <2>6
<1> QED BY <1>7, <1>8

LEMMA AskConsume ==
  ASSUME HandleInv, AskInv, Consume
  PROVE  AskInv'
<1> DEFINE k == pos[Root] + 1
           q == NextEvent(Root).ask
<1>0. /\ events \in [Runs -> Seq(EventRec)] /\ pos \in [Runs -> Nat] /\ Root \in Runs
      /\ resolvers \in SUBSET Calls
  BY LineRoot DEF HandleInv, Typed
<1>1. /\ pos[Root] < Len(events[Root]) /\ pos' = [pos EXCEPT ![Root] = @ + 1]
      /\ loop' = loop /\ events' = events /\ asked' = asked /\ thrown' = thrown /\ prompt' = prompt
  BY DEF Consume, HasNext
<1>2. resolvers' = resolvers \/ (q # None /\ resolvers' = resolvers \ {q})
  BY DEF Consume
<1>3. k \in Nat /\ q = events[Root][k] .ask BY <1>0 DEF NextEvent
<1>4. q # None => Flying(Root, k)
  <2>1. DOMAIN events[Root] = 1..Len(events[Root]) /\ Len(events[Root]) \in Nat /\ pos[Root] \in Nat BY <1>0
  <2>2. k \in DOMAIN events[Root] /\ k > pos[Root] BY <2>1, <1>1
  <2> QED BY <2>2, <1>3 DEF Flying
<1> HIDE DEF q
<1>5. ASSUME prompt, thrown = {}, NEW x \in Runs, NEW i \in Nat, Flying(x, i)'
      PROVE  /\ Flying(x, i) /\ events'[x][i] = events[x][i]
             /\ events[x][i].ask \in resolvers' /\ events[x][i].ask \in asked'
             /\ loop'[Owner[events[x][i].ask]] = "waiting"
  <2>1. i \in DOMAIN events[x] /\ i > pos'[x] /\ events[x][i].ask # None BY <1>1, <1>5 DEF Flying
  <2>2. pos'[x] \in Nat /\ pos'[x] >= pos[x] /\ pos[x] \in Nat /\ (x = Root => pos'[x] = k) BY <1>0, <1>1
  <2>3. i > pos[x] /\ ~(x = Root /\ i = k) BY <2>1, <2>2
  <2>4. Flying(x, i) BY <2>1, <2>3 DEF Flying
  <2>5. events[x][i].ask \in resolvers /\ events[x][i].ask \in asked /\ loop[Owner[events[x][i].ask]] = "waiting"
    BY <1>5, <2>4 DEF AskInv, FlightInv
  <2>6. q # None => events[x][i].ask # q
    <3> SUFFICES ASSUME q # None, events[x][i].ask = q PROVE FALSE OBVIOUS
    <3>1. Flying(Root, k) /\ events[Root][k] .ask = events[x][i].ask BY <1>3, <1>4
    <3> HIDE DEF k
    <3> QED BY <3>1, <2>3, <2>4, <1>0, <1>3, <1>5 DEF AskInv, OnceInv
  <2> QED BY <2>4, <2>5, <2>6, <1>1, <1>2
<1>6. prompt /\ thrown = {} =>
        \A x \in Runs : \A i \in Nat :
          Flying(x, i)' =>
            /\ Flying(x, i) /\ events'[x][i] = events[x][i]
            /\ events[x][i].ask \in resolvers' /\ events[x][i].ask \in asked'
            /\ loop'[Owner[events[x][i].ask]] = "waiting"
  BY <1>5
<1> QED BY <1>1, <1>6, AskKept

LEMMA AskLoop ==
  ASSUME HandleInv, AskInv, NEW r \in Runs, Loop(r)
  PROVE  AskInv'
<1>0. /\ events \in [Runs -> Seq(EventRec)] /\ loop \in [Runs -> {"new", "model", "tools", "waiting", "live", "done"}]
      /\ thrown \in SUBSET Runs
  BY DEF HandleInv, Typed
<1>1. CASE ModelAnswers(r)
  <2>1. Quiet /\ UNCHANGED <<asked, thrown, prompt>> /\ pos' = pos BY <1>1 DEF ModelAnswers
  <2>2. events' = [events EXCEPT ![r] = @ \o <<Message(r)>>]
    <3>1. CASE PushAndFinish(r, <<Message(r)>>, "ended") BY <3>1 DEF PushAndFinish
    <3>2. CASE events' = [events EXCEPT ![r] = Append(@, Message(r))]
      <4>1. Message(r) \in EventRec /\ events[r] \in Seq(EventRec) BY <1>0 DEF Message, EventRec
      <4>2. Append(events[r], Message(r)) = events[r] \o <<Message(r)>> BY <4>1, AppendIsConcat
      <4> QED BY <3>2, <4>2
    <3> QED BY <1>1, <3>1, <3>2 DEF ModelAnswers
  <2> DEFINE s == <<Message(r)>>
  <2>3. s \in Seq(EventRec) /\ \A i \in 1..Len(s) : s[i].ask = None BY Messages
  <2>4. events' = [events EXCEPT ![r] = @ \o s] BY <2>2
  <2> HIDE DEF s
  <2> QED BY <2>1, <2>3, <2>4, AskPush
<1>2. CASE ToolsDone(r)
  <2>1. PICK A \in SUBSET (Owned(r) \ asked) :
          /\ asked' = asked \cup A
          /\ \/ /\ A = {} /\ Paused(r) = {}
                /\ PushAndGo(r, <<Message(r)>>, "model")
                /\ UNCHANGED resolvers
             \/ /\ A = {} /\ Paused(r) # {}
                /\ PushAndFinish(r, <<>>, "approvalRequired")
             \/ /\ A # {}
                /\ PushAndGo(r, AskEvents(r, A), "waiting")
                /\ resolvers' = resolvers \cup A
    BY <1>2 DEF ToolsDone
  <2>2. loop[r] = "tools" /\ UNCHANGED <<pos, thrown, prompt>> BY <1>2 DEF ToolsDone
  <2>3. CASE PushAndGo(r, <<Message(r)>>, "model") /\ UNCHANGED resolvers
    <3> DEFINE s == <<Message(r)>>
    <3>1. s \in Seq(EventRec) /\ \A i \in 1..Len(s) : s[i].ask = None BY Messages
    <3>2. events' = [events EXCEPT ![r] = @ \o s] /\ loop' = [loop EXCEPT ![r] = "model"]
      BY <2>3 DEF PushAndGo
    <3>3. \A x \in Runs \ {r} : loop'[x] = loop[x] BY <3>2, <1>0
    <3> HIDE DEF s
    <3> QED BY <2>1, <2>2, <2>3, <3>1, <3>2, <3>3, AskPush
  <2>4. CASE PushAndFinish(r, <<>>, "approvalRequired")
    <3> DEFINE s == <<>>
    <3>1. s \in Seq(EventRec) /\ \A i \in 1..Len(s) : s[i].ask = None BY Messages
    <3>2. /\ events' = [events EXCEPT ![r] = @ \o s] /\ loop' = [loop EXCEPT ![r] = "done"]
          /\ resolvers' = resolvers \ Owned(r)
      BY <2>4 DEF PushAndFinish, Cleared
    <3>3. \A x \in Runs \ {r} : loop'[x] = loop[x] BY <3>2, <1>0
    <3> HIDE DEF s
    <3> QED BY <2>1, <2>2, <3>1, <3>2, <3>3, AskPush
  <2>5. CASE PushAndGo(r, AskEvents(r, A), "waiting") /\ resolvers' = resolvers \cup A
    BY <2>1, <2>2, <2>5, AskNew
  <2> QED BY <2>1, <2>3, <2>4, <2>5
<1>3. CASE StepThrows(r)
  <2>1. thrown' # {} BY <1>3 DEF StepThrows
  <2> QED BY <2>1 DEF AskInv
<1>4. CASE TimerFires(r)
  <2>1. Quiet /\ UNCHANGED <<pos, asked, thrown, prompt>> BY <1>4 DEF TimerFires
  <2> DEFINE s == <<>>
  <2>2. s \in Seq(EventRec) /\ \A i \in 1..Len(s) : s[i].ask = None BY Messages
  <2>3. events' = [events EXCEPT ![r] = @ \o s] BY <1>4 DEF TimerFires, PushAndFinish, PushAndGo
  <2> HIDE DEF s
  <2> QED BY <2>1, <2>2, <2>3, AskPush
<1>5. CASE LiveDone(r)
  <2> DEFINE s == <<Message(r)>>
  <2>1. s \in Seq(EventRec) /\ \A i \in 1..Len(s) : s[i].ask = None BY Messages
  <2>2. /\ loop[r] = "live" /\ UNCHANGED <<pos, asked, thrown, prompt, resolvers>>
        /\ events' = [events EXCEPT ![r] = @ \o s] /\ loop' = [loop EXCEPT ![r] = "model"]
    BY <1>5 DEF LiveDone, PushAndGo
  <2>3. \A x \in Runs \ {r} : loop'[x] = loop[x] BY <2>2, <1>0
  <2> HIDE DEF s
  <2> QED BY <2>1, <2>2, <2>3, AskPush
<1> QED BY <1>1, <1>2, <1>3, <1>4, <1>5 DEF Loop

LEMMA AskSame ==
  ASSUME AskInv, loop' = loop, events' = events, pos' = pos, resolvers' = resolvers, asked' = asked,
         thrown' = thrown, prompt' = prompt
  PROVE  AskInv'
BY DEF AskInv, FlightInv, OnceInv, Flying

LEMMA AskStep == HandleInv /\ AskInv /\ [Next]_vars => AskInv'
<1> SUFFICES ASSUME HandleInv, AskInv, [Next]_vars PROVE AskInv' OBVIOUS
<1>1. ASSUME NEW r \in Runs, DrainEnds(r) \/ Await(r) PROVE AskInv'
  BY <1>1, AskSame DEF DrainEnds, Await, ChildResult, ChildForwarded
<1>2. CASE Subscribe \/ ConsumerGoesOn BY <1>2, AskSame DEF Subscribe, ConsumerGoesOn
<1>3. ASSUME NEW c \in Calls, AnswerFromOutside(c) PROVE AskInv'
  BY <1>3 DEF AnswerFromOutside, AskInv
<1>4. CASE UNCHANGED vars BY <1>4, AskSame DEF vars
<1> QED BY <1>1, <1>2, <1>3, <1>4, AskLoop, AskForward, AskConsume DEF Next, Iterator, Consumer, Rest

\* An event that asks and is next for the consumer can still be answered.
LEMMA InTime ==
  ASSUME HandleInv, AskInv, [Next]_vars, prompt, thrown = {}, pos'[Root] > pos[Root],
         NextEvent(Root).ask # None
  PROVE  Deliverable(NextEvent(Root).ask)
<1> DEFINE k == pos[Root] + 1
           q == events[Root][k] .ask
<1>0. /\ events \in [Runs -> Seq(EventRec)] /\ pos \in [Runs -> Nat] /\ Root \in Runs
  BY LineRoot DEF HandleInv, Typed
<1>1. pos[Root] < Len(events[Root])
  <2>0. pos' # pos BY <1>0
  <2>1. CASE Consume BY <2>1 DEF Consume, HasNext
  <2>2. ASSUME NEW r \in Runs, Loop(r) PROVE FALSE
    BY <2>0, <2>2 DEF Loop, ModelAnswers, ToolsDone, StepThrows, TimerFires, LiveDone
  <2>3. ASSUME NEW r \in Runs, Forward(r) PROVE FALSE
    <3>1. r # Root /\ pos' = [pos EXCEPT ![r] = @ + 1] BY <2>3 DEF Forward
    <3>2. pos'[Root] = pos[Root] BY <3>1, <1>0
    <3> QED BY <3>2, <1>0
  <2>4. ASSUME NEW r \in Runs, DrainEnds(r) \/ Await(r) PROVE FALSE
    BY <2>0, <2>4 DEF DrainEnds, Await, ChildResult, ChildForwarded
  <2>5. CASE Subscribe \/ ConsumerGoesOn \/ \E c \in Calls : AnswerFromOutside(c)
    BY <2>0, <2>5 DEF Subscribe, ConsumerGoesOn, AnswerFromOutside
  <2>6. CASE UNCHANGED vars BY <2>0, <2>6 DEF vars
  <2> QED BY <2>1, <2>2, <2>3, <2>4, <2>5, <2>6 DEF Next, Iterator, Consumer, Rest
<1>2. k \in Nat /\ Flying(Root, k) /\ q = NextEvent(Root).ask
  <2>1. DOMAIN events[Root] = 1..Len(events[Root]) /\ Len(events[Root]) \in Nat /\ pos[Root] \in Nat BY <1>0
  <2>2. k \in DOMAIN events[Root] /\ k > pos[Root] /\ k \in Nat BY <2>1, <1>1
  <2> QED BY <2>2 DEF Flying, NextEvent
<1>3. q \in resolvers /\ loop[Owner[q]] = "waiting" BY <1>0, <1>2 DEF AskInv, FlightInv
<1>4. Owner[q] \in Runs BY <1>3, AgentRunAssumption DEF HandleInv, Typed
<1> HIDE DEF q, k
<1>5. \A a \in Line[Owner[q]] : a = Root \/ Active(a) BY <1>3, <1>4, InProgress
<1>6. \A a \in Up(Owner[q]) : Active(a) BY <1>5 DEF Up
<1> QED BY <1>2, <1>3, <1>6 DEF Deliverable

\* Whoever answers an approval in the loop that sees it is in time, at any depth.
THEOREM PromptInTime == Spec => PromptAnswerInTime
<1>1. Init => AskInv
  <2> SUFFICES ASSUME Init, NEW x \in Runs, NEW i \in Nat PROVE ~Flying(x, i)
    BY DEF AskInv, FlightInv, OnceInv
  <2>1. DOMAIN events[x] = {} BY DEF Init
  <2> QED BY <2>1 DEF Flying
<1>2. HandleInv /\ AskInv /\ [Next]_vars =>
        [prompt /\ thrown = {} /\ pos'[Root] > pos[Root] /\ NextEvent(Root).ask # None
           => Deliverable(NextEvent(Root).ask)]_vars
  BY InTime
<1>3. Spec => []HandleInv BY HandlesAgree
<1>4. Spec => []AskInv BY <1>1, <1>3, AskStep, PTL DEF Spec
<1> QED BY <1>2, <1>3, <1>4, PTL DEF Spec, PromptAnswerInTime
=============================================================================
