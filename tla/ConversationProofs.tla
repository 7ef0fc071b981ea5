------------------------- MODULE ConversationProofs -------------------------
(***************************************************************************)
(* Theorems about the two sides of a conversation with a model.            *)
(*   - What is kept of it: Compaction. Whatever is compacted, whenever, the*)
(*     summary and the messages after it are the whole conversation, every *)
(*     request is coherent and no call that waits for an approval is cut   *)
(*     off; for conversations of any length and messages of any size.      *)
(*   - What is answered: ProviderStreams. Whichever provider answers, its  *)
(*     parts come as PartStream says; for answers of any length and any    *)
(*     faults. The parts and CopilotResponses are in StreamProofs.         *)
(***************************************************************************)
EXTENDS Compaction, StreamProofs

-----------------------------------------------------------------------------
(* Largest and smallest elements, and sets in a sequence.                  *)

LEMMA Smallest ==
  ASSUME NEW S \in SUBSET Nat, S # {}
  PROVE  Min(S) \in S /\ \A x \in S : Min(S) <= x
<1>1. PICK x \in S : \A y \in S : ~(<<y, x>> \in OpToRel(<, Nat))
  BY NatLessThanWellFounded, WFMin
<1>2. S \subseteq Nat
  OBVIOUS
<1>3. \A y \in S : ~(y < x)
  BY <1>1, <1>2 DEF OpToRel
<1>4. \A y \in S : x <= y
  BY <1>2, <1>3
<1> QED BY <1>4 DEF Min

LEMMA Largest ==
  ASSUME NEW n \in Nat, NEW S \in SUBSET (0..n), S # {}
  PROVE  Max(S) \in S /\ \A x \in S : x <= Max(S)
<1> DEFINE T == {n - x : x \in S}
<1>1. T \in SUBSET Nat /\ T # {}
  <2>1. \A x \in S : n - x \in Nat OBVIOUS
  <2> QED BY <2>1
<1>2. Min(T) \in T /\ \A y \in T : Min(T) <= y
  BY <1>1, Smallest
<1>3. PICK x \in S : Min(T) = n - x
  BY <1>2
<1>4. \A y \in S : x >= y
  <2> TAKE y \in S
  <2>1. n - x <= n - y BY <1>2, <1>3
  <2> QED BY <2>1
<1> QED BY <1>4 DEF Max

\* SetToSeq lists the elements of a finite set, each once.
LEMMA ListOfSet ==
  ASSUME NEW S, IsFiniteSet(S)
  PROVE  /\ Cardinality(S) \in Nat
         /\ SetToSeq(S) \in [1..Cardinality(S) -> S]
         /\ \A x \in S : \E i \in 1..Cardinality(S) : SetToSeq(S)[i] = x
<1> DEFINE n == Cardinality(S)
           f == SetToSeq(S)
<1>1. n \in Nat /\ ExistsBijection(1..n, S)
  BY FS_CardinalityType
<1>2. f \in [1..n -> S] /\ IsInjective(f)
  <2>1. \E g \in [1..n -> S] : IsInjective(g)
    BY <1>1 DEF ExistsBijection, Bijection, Injection
  <2> QED BY <2>1 DEF SetToSeq
<1>3. f \in Injection(1..n, S)
  BY <1>2 DEF Injection
<1>4. IsFiniteSet(1..n) /\ Cardinality(1..n) = n
  BY <1>1, FS_Interval
<1>5. f \in Surjection(1..n, S)
  <2> HIDE DEF f
  <2>1. Cardinality(1..n) = Cardinality(S) <=> f \in Surjection(1..n, S)
    BY <1>3, FS_Injection
  <2> QED BY <2>1, <1>4
<1> QED BY <1>1, <1>2, <1>5 DEF Surjection

-----------------------------------------------------------------------------
(* What the conversation is made of, and the cut.                          *)

\* A message that is no summary.
Said == [role : {"user", "command", "assistant", "tool"}, ids : SUBSET CallIds, size : Nat, of : {<<>>}]

\* The rest of a sequence from some place on.
LEMMA Rest ==
  ASSUME NEW S, NEW l \in Seq(S), NEW i \in 1..(Len(l) + 1)
  PROVE  /\ From(l, i) \in Seq(S) /\ Len(From(l, i)) = Len(l) - i + 1
         /\ \A j \in 1..(Len(l) - i + 1) : From(l, i)[j] = l[i + j - 1]
<1>1. Len(l) \in Nat /\ \A j \in i..Len(l) : l[j] \in S
  BY LenProperties
<1>2. i \in Int /\ Len(l) \in Int
  BY <1>1
<1>3. /\ SubSeq(l, i, Len(l)) \in Seq(S)
      /\ Len(SubSeq(l, i, Len(l))) = IF i <= Len(l) THEN Len(l) - i + 1 ELSE 0
      /\ \A j \in 1..(Len(l) - i + 1) : SubSeq(l, i, Len(l))[j] = l[i + j - 1]
  BY <1>1, <1>2, SubSeqProperties
<1> QED BY <1>1, <1>3 DEF From

LEMMA RestAfter ==
  ASSUME NEW S, NEW l \in Seq(S), NEW c \in 0..Len(l)
  PROVE  /\ From(l, c + 1) \in Seq(S) /\ Len(From(l, c + 1)) = Len(l) - c
         /\ \A j \in 1..(Len(l) - c) : From(l, c + 1)[j] = l[c + j]
<1>1. Len(l) \in Nat
  BY LenProperties
<1>2. /\ c + 1 \in 1..(Len(l) + 1) /\ Len(l) - (c + 1) + 1 = Len(l) - c
      /\ \A j \in 1..(Len(l) - c) : c + 1 + j - 1 = c + j
  BY <1>1
<1>3. /\ From(l, c + 1) \in Seq(S) /\ Len(From(l, c + 1)) = Len(l) - (c + 1) + 1
      /\ \A j \in 1..(Len(l) - (c + 1) + 1) : From(l, c + 1)[j] = l[c + 1 + j - 1]
  BY <1>2, Rest
<1> QED BY <1>2, <1>3

\* The calls, or results, of the messages from some place on.
LEMMA IdsFrom ==
  ASSUME NEW S, NEW l \in Seq(S), NEW i \in 1..(Len(l) + 1), NEW role, NEW id
  PROVE  id \in IdsOf(From(l, i), role) <=> \E j \in i..Len(l) : l[j].role = role /\ id \in l[j].ids
<1> DEFINE f == From(l, i)
           n == Len(l) - i + 1
<1>1. f \in Seq(S) /\ Len(f) = n /\ \A j \in 1..n : f[j] = l[i + j - 1]
  BY Rest
<1>2. n \in Nat /\ Len(l) \in Nat
  BY LenProperties
<1>3. DOMAIN f = 1..n
  BY <1>1, LenProperties
<1>4. id \in IdsOf(f, role) <=> \E j \in 1..n : f[j].role = role /\ id \in f[j].ids
  BY <1>3 DEF IdsOf
<1>5. (\E j \in 1..n : f[j].role = role /\ id \in f[j].ids)
        <=> (\E j \in 1..n : l[i + j - 1].role = role /\ id \in l[i + j - 1].ids)
  BY <1>1
<1>6. ASSUME NEW j \in 1..n, l[i + j - 1].role = role, id \in l[i + j - 1].ids
      PROVE  \E k \in i..Len(l) : l[k].role = role /\ id \in l[k].ids
  <2>1. i + j - 1 \in i..Len(l) BY <1>2
  <2> QED BY <1>6, <2>1
<1>7. ASSUME NEW k \in i..Len(l), l[k].role = role, id \in l[k].ids
      PROVE  \E j \in 1..n : l[i + j - 1].role = role /\ id \in l[i + j - 1].ids
  <2>1. k - i + 1 \in 1..n /\ i + (k - i + 1) - 1 = k BY <1>2
  <2> QED BY <1>7, <2>1
<1> QED BY <1>4, <1>5, <1>6, <1>7

\* Where there is a cut, messages are on either side of it, and those after it hold the
\* calls of all their results and all that is required.
LEMMA CutCoherent ==
  ASSUME NEW m \in Seq(Said), NEW required,
         findCompactionCut(m, required) # 0
  PROVE  LET cut == findCompactionCut(m, required)
         IN  /\ cut \in 1..(Len(m) - 1)
             /\ hasValidToolCallResultPairs(From(m, cut + 1))
             /\ containsRequiredToolCalls(From(m, cut + 1), required)
<1> DEFINE heavy == {i \in DOMAIN m : Weight(From(m, i)) >= Target}
           boundary == IF heavy = {} THEN 1 ELSE Max(heavy)
           cuts == {i \in 2..Len(m) : /\ isValidCutRole(m[i])
                                      /\ hasValidToolCallResultPairs(From(m, i))
                                      /\ containsRequiredToolCalls(From(m, i), required)}
           after == {i \in cuts : i >= boundary}
           cut == findCompactionCut(m, required)
<1>1. cut = IF boundary = 1 \/ cuts = {} THEN 0 ELSE IF after # {} THEN Min(after) - 1 ELSE Max(cuts) - 1
  BY DEF findCompactionCut
<1>2. Len(m) \in Nat
  BY LenProperties
<1>3. cuts \in SUBSET (0..Len(m)) /\ after \in SUBSET Nat /\ after \subseteq cuts
  BY <1>2
<1>4. \E i \in cuts : cut = i - 1
  <2> HIDE DEF cuts, boundary, cut
  <2>1. cuts # {} /\ cut = IF after # {} THEN Min(after) - 1 ELSE Max(cuts) - 1
    BY <1>1 DEF cut
  <2>2. CASE after # {}
    <3>1. Min(after) \in after BY <1>3, <2>2, Smallest
    <3> QED BY <1>3, <2>1, <2>2, <3>1
  <2>3. CASE after = {}
    <3>1. Max(cuts) \in cuts BY <1>2, <1>3, <2>1, Largest
    <3> QED BY <2>1, <2>3, <3>1
  <2> QED BY <2>2, <2>3
<1>5. PICK i \in cuts : cut = i - 1
  BY <1>4
<1>6. cut + 1 = i /\ cut \in 1..(Len(m) - 1)
  BY <1>5, <1>2
<1> QED BY <1>5, <1>6

\* The summarizer is told all of the messages before the cut, in order.
LEMMA PlanTellsAll ==
  ASSUME NEW m \in Seq(Said), NEW required,
         findCompactionCut(m, required) # 0
  PROVE  LET plan == planCompaction(m, required)
         IN  /\ plan.cut = findCompactionCut(m, required)
             /\ plan.history \in Seq(Said) /\ plan.turnPrefix \in Seq(Said)
             /\ plan.history \o plan.turnPrefix = SubSeq(m, 1, plan.cut)
<1> DEFINE cut == findCompactionCut(m, required)
           users == {i \in 1..cut : m[i].role \in {"user", "command"}}
           isSplitTurn == m[cut + 1].role = "assistant" /\ users # {}
           turnStart == IF isSplitTurn THEN Max(users) ELSE cut + 1
           history == SubSeq(m, 1, turnStart - 1)
           turnPrefix == SubSeq(m, turnStart, cut)
<1>1. planCompaction(m, required) = [cut |-> cut, history |-> history, turnPrefix |-> turnPrefix]
  BY DEF planCompaction
<1>2. cut \in 1..(Len(m) - 1) /\ Len(m) \in Nat
  BY CutCoherent, LenProperties
<1>3. turnStart \in 1..(cut + 1)
  <2>1. cut \in Nat /\ users \in SUBSET (0..cut) /\ users \subseteq 1..cut
    BY <1>2
  <2>2. users # {} => Max(users) \in users
    <3> HIDE DEF users, cut
    <3> QED BY <2>1, Largest
  <2>3. users # {} => Max(users) \in 1..cut
    <3> HIDE DEF users
    <3> QED BY <2>1, <2>2
  <2>4. \/ isSplitTurn /\ users # {} /\ turnStart = Max(users)
        \/ turnStart = cut + 1
    OBVIOUS
  <2> HIDE DEF users, turnStart, cut, isSplitTurn
  <2> QED BY <2>1, <2>3, <2>4
<1> HIDE DEF cut, turnStart
<1>4. \A i \in 1..Len(m) : m[i] \in Said
  BY LenProperties
<1>5. /\ 1 \in 1..(Len(m) + 1) /\ turnStart - 1 \in (1 - 1)..Len(m) /\ cut \in (turnStart - 1)..Len(m)
      /\ turnStart \in Int /\ turnStart - 1 \in Int /\ cut \in Int /\ turnStart - 1 + 1 = turnStart
  BY <1>2, <1>3
<1>6. history \o turnPrefix = SubSeq(m, 1, cut)
  <2>1. history \o SubSeq(m, turnStart - 1 + 1, cut) = SubSeq(m, 1, cut)
    BY <1>5, ConcatAdjacentSubSeq
  <2> QED BY <2>1, <1>5
<1>7. history \in Seq(Said)
  <2>1. \A i \in 1..(turnStart - 1) : m[i] \in Said BY <1>2, <1>3, <1>4
  <2> QED BY <1>5, <2>1, SubSeqProperties
<1>8. turnPrefix \in Seq(Said)
  <2>1. \A i \in turnStart..cut : m[i] \in Said BY <1>2, <1>3, <1>4
  <2> QED BY <1>5, <2>1, SubSeqProperties
<1> HIDE DEF history, turnPrefix, users, isSplitTurn
<1>9. planCompaction(m, required).cut = cut /\ planCompaction(m, required).history = history
      /\ planCompaction(m, required).turnPrefix = turnPrefix
  BY <1>1
<1> QED BY <1>6, <1>7, <1>8, <1>9 DEF cut

-----------------------------------------------------------------------------
(* The messages of a conversation whose beginning is replaced.             *)

Mirror(l, c) == IF c # NoCheckpoint THEN <<Summary(SubSeq(l, 1, c))>> \o From(l, c + 1) ELSE l

\* How many messages of the conversation a checkpoint replaces.
Replaced(c) == IF c = NoCheckpoint THEN 0 ELSE c

Cuts(l, c) == l \in Seq(Said) /\ Len(l) <= MaxLog /\ (c = NoCheckpoint \/ c \in 1..Len(l))

LEMMA MirrorShape ==
  ASSUME NEW l, NEW c, Cuts(l, c), c # NoCheckpoint
  PROVE  /\ Mirror(l, c) # <<>> /\ Mirror(l, c) \in Seq(Said \cup {Summary(SubSeq(l, 1, c))})
         /\ Len(Mirror(l, c)) = Len(l) - c + 1
         /\ Mirror(l, c)[1] = Summary(SubSeq(l, 1, c))
         /\ \A i \in 2..(Len(l) - c + 1) : Mirror(l, c)[i] = l[i + c - 1]
         /\ Tail(Mirror(l, c)) = From(l, c + 1)
<1> DEFINE x == Summary(SubSeq(l, 1, c))
           r == From(l, c + 1)
           S == Said \cup {x}
<1>0. l \in Seq(Said) /\ c \in 1..Len(l) /\ Len(l) \in Nat
  BY LenProperties DEF Cuts
<1>1. c + 1 \in 1..(Len(l) + 1) /\ Len(l) - (c + 1) + 1 = Len(l) - c
  BY <1>0
<1>2. r \in Seq(Said) /\ Len(r) = Len(l) - c /\ \A j \in 1..(Len(l) - c) : r[j] = l[c + 1 + j - 1]
  BY <1>0, <1>1, Rest
<1>3. Mirror(l, c) = <<x>> \o r
  BY DEF Mirror
<1> HIDE DEF x, r
<1>4. r \in Seq(S) /\ <<x>> \in Seq(S) /\ Len(<<x>>) = 1 /\ <<x>>[1] = x
  BY <1>2, SeqMonotonic
<1> HIDE DEF S
<1>5. /\ <<x>> \o r \in Seq(S) /\ Len(<<x>> \o r) = 1 + Len(r)
      /\ \A i \in 1..(1 + Len(r)) : (<<x>> \o r)[i] = IF i <= 1 THEN <<x>>[1] ELSE r[i - 1]
  <2>1. \A i \in 1..(Len(<<x>>) + Len(r)) : (<<x>> \o r)[i] = IF i <= Len(<<x>>) THEN <<x>>[i] ELSE r[i - Len(<<x>>)]
    BY <1>4, ConcatProperties
  <2>2. Len(r) \in Nat BY <1>2, <1>0
  <2>3. \A i \in 1..(1 + Len(r)) : i <= 1 => i = 1 BY <2>2
  <2>4. <<x>> \o r \in Seq(S) /\ Len(<<x>> \o r) = Len(<<x>>) + Len(r)
    BY <1>4, ConcatProperties
  <2> QED BY <1>4, <2>1, <2>2, <2>3, <2>4
<1>6. Len(<<x>> \o r) = Len(l) - c + 1 /\ (<<x>> \o r)[1] = x
  BY <1>0, <1>2, <1>4, <1>5
<1>7. ASSUME NEW i \in 2..(Len(l) - c + 1) PROVE (<<x>> \o r)[i] = l[i + c - 1]
  <2>1. i - 1 \in 1..(Len(l) - c) /\ i \in 1..(1 + Len(r)) /\ ~(i <= 1) /\ c + 1 + (i - 1) - 1 = i + c - 1
    BY <1>0, <1>2
  <2> QED BY <1>2, <1>5, <2>1
<1>8. Tail(<<x>> \o r) = r
  <2>1. <<x>> \o r # <<>> BY <1>6, <1>0, EmptySeq
  <2>2. /\ Tail(<<x>> \o r) \in Seq(S) /\ Len(Tail(<<x>> \o r)) = Len(r)
        /\ \A i \in 1..Len(r) : Tail(<<x>> \o r)[i] = (<<x>> \o r)[i + 1]
    <3>1. Len(<<x>> \o r) - 1 = Len(r) BY <1>5, <1>2, <1>0
    <3> QED BY <1>5, <2>1, <3>1, HeadTailProperties
  <2>3. \A i \in 1..Len(r) : (<<x>> \o r)[i + 1] = r[i]
    <3> TAKE i \in 1..Len(r)
    <3>1. i + 1 \in 1..(1 + Len(r)) /\ ~(i + 1 <= 1) /\ i + 1 - 1 = i BY <1>2, <1>0
    <3> QED BY <1>5, <3>1
  <2> QED BY <1>4, <2>2, <2>3, SeqEqual
<1>9. <<x>> \o r # <<>>
  BY <1>6, <1>0, EmptySeq
<1> QED BY <1>3, <1>5, <1>6, <1>7, <1>8, <1>9 DEF x, r, S

\* What is said is appended to the messages as to the conversation.
LEMMA MirrorAppend ==
  ASSUME NEW l, NEW c, Cuts(l, c), NEW new \in Seq(Said)
  PROVE  Mirror(l, c) \o new = Mirror(l \o new, c)
<1>1. CASE c = NoCheckpoint
  BY <1>1 DEF Mirror
<1>2. CASE c # NoCheckpoint
  <2> DEFINE r == From(l, c + 1)
             h == SubSeq(l, 1, c)
             x == Summary(h)
             S == Said \cup {x}
  <2>1. l \in Seq(Said) /\ c \in 1..Len(l) /\ Len(l) \in Nat /\ Len(new) \in Nat
    BY <1>2, LenProperties DEF Cuts
  <2>2. /\ l \o new \in Seq(Said) /\ Len(l \o new) = Len(l) + Len(new)
        /\ \A i \in 1..(Len(l) + Len(new)) : (l \o new)[i] = IF i <= Len(l) THEN l[i] ELSE new[i - Len(l)]
    BY <2>1, ConcatProperties
  <2>3. SubSeq(l \o new, 1, c) = h
    <3>1. 1 \in 1..Len(l) BY <2>1
    <3> QED BY <2>1, <3>1, SubSeqOfConcat1
  <2>4. From(l \o new, c + 1) = r \o new
    <3>1. c \in 0..Len(l) /\ c \in 0..Len(l \o new) /\ Len(l \o new) - c = Len(l) + Len(new) - c BY <2>1, <2>2
    <3>2. r \in Seq(Said) /\ Len(r) = Len(l) - c /\ \A j \in 1..(Len(l) - c) : r[j] = l[c + j]
      BY <2>1, <3>1, RestAfter
    <3> HIDE DEF r, h
    <3>3. /\ From(l \o new, c + 1) \in Seq(Said) /\ Len(From(l \o new, c + 1)) = Len(l) + Len(new) - c
          /\ \A j \in 1..(Len(l) + Len(new) - c) : From(l \o new, c + 1)[j] = (l \o new)[c + j]
      <4> DEFINE ln == l \o new
      <4>1. ln \in Seq(Said) /\ c \in 0..Len(ln) /\ Len(ln) - c = Len(l) + Len(new) - c BY <2>2, <3>1
      <4> HIDE DEF ln
      <4>2. /\ From(ln, c + 1) \in Seq(Said) /\ Len(From(ln, c + 1)) = Len(ln) - c
            /\ \A j \in 1..(Len(ln) - c) : From(ln, c + 1)[j] = ln[c + j]
        BY <4>1, RestAfter
      <4> QED BY <4>1, <4>2 DEF ln
    <3>4. /\ r \o new \in Seq(Said) /\ Len(r \o new) = Len(r) + Len(new)
          /\ \A j \in 1..(Len(r) + Len(new)) : (r \o new)[j] = IF j <= Len(r) THEN r[j] ELSE new[j - Len(r)]
      BY <3>2, ConcatProperties
    <3>5. \A j \in 1..(Len(l) + Len(new) - c) : From(l \o new, c + 1)[j] = (r \o new)[j]
      <4> TAKE j \in 1..(Len(l) + Len(new) - c)
      <4>1. /\ j \in 1..(Len(r) + Len(new)) /\ c + j \in 1..(Len(l) + Len(new))
            /\ (j <= Len(r) <=> c + j <= Len(l)) /\ c + j - Len(l) = j - Len(r)
        BY <2>1, <3>2
      <4>2. j <= Len(r) => j \in 1..(Len(l) - c) BY <2>1, <3>2
      <4>3. From(l \o new, c + 1)[j] = IF c + j <= Len(l) THEN l[c + j] ELSE new[c + j - Len(l)]
        <5>1. From(l \o new, c + 1)[j] = (l \o new)[c + j] BY <3>3
        <5>2. (l \o new)[c + j] = IF c + j <= Len(l) THEN l[c + j] ELSE new[c + j - Len(l)]
          BY <2>1, <2>2, <4>1
        <5> QED BY <5>1, <5>2
      <4>4. (r \o new)[j] = IF j <= Len(r) THEN r[j] ELSE new[j - Len(r)]
        BY <3>4, <4>1
      <4>5. j <= Len(r) => r[j] = l[c + j]
        BY <3>2, <4>2
      <4> QED BY <4>1, <4>3, <4>4, <4>5
    <3>6. Len(r) + Len(new) = Len(l) + Len(new) - c BY <2>1, <3>2
    <3>7. Len(From(l \o new, c + 1)) = Len(r \o new) BY <3>3, <3>4, <3>6
    <3>8. \A j \in 1..Len(From(l \o new, c + 1)) : From(l \o new, c + 1)[j] = (r \o new)[j] BY <3>3, <3>5
    <3> QED BY <3>3, <3>4, <3>7, <3>8, SeqEqual
  <2>5. r \in Seq(S) /\ new \in Seq(S) /\ <<x>> \in Seq(S)
    <3>1. c + 1 \in 1..(Len(l) + 1) BY <2>1
    <3>2. r \in Seq(Said) BY <2>1, <3>1, Rest
    <3> HIDE DEF x, r
    <3> QED BY <3>2, SeqMonotonic
  <2>6. (<<x>> \o r) \o new = <<x>> \o (r \o new)
    <3> HIDE DEF x, r, S
    <3> QED BY <2>5, ConcatAssociative
  <2>7. Mirror(l, c) = <<x>> \o r
    BY <1>2 DEF Mirror
  <2>8. Mirror(l \o new, c) = <<x>> \o (r \o new)
    BY <1>2, <2>3, <2>4 DEF Mirror
  <2> QED BY <2>6, <2>7, <2>8
<1> QED BY <1>1, <1>2

LEMMA FrontLast ==
  ASSUME NEW S, NEW s \in Seq(S), NEW x \in S
  PROVE  Front(s \o <<x>>) = s /\ Last(s \o <<x>>) = x
<1> DEFINE t == s \o <<x>>
<1>1. Len(s) \in Nat /\ <<x>> \in Seq(S) /\ Len(<<x>>) = 1 /\ <<x>>[1] = x
  BY LenProperties
<1>2. /\ t \in Seq(S) /\ Len(t) = Len(s) + 1
      /\ \A i \in 1..Len(s) : t[i] = s[i]
      /\ t[Len(s) + 1] = x
  <2>1. t \in Seq(S) /\ Len(t) = Len(s) + Len(<<x>>)
        /\ \A i \in 1..(Len(s) + Len(<<x>>)) : t[i] = IF i <= Len(s) THEN s[i] ELSE <<x>>[i - Len(s)]
    BY <1>1, ConcatProperties
  <2> HIDE DEF t
  <2>2. Len(s) + 1 \in 1..(Len(s) + 1) /\ ~(Len(s) + 1 <= Len(s)) /\ Len(s) + 1 - Len(s) = 1
    BY <1>1
  <2>3. \A i \in 1..Len(s) : i \in 1..(Len(s) + 1) /\ i <= Len(s)
    BY <1>1
  <2> QED BY <1>1, <2>1, <2>2, <2>3
<1> HIDE DEF t
<1>3. Len(t) - 1 = Len(s)
  BY <1>1, <1>2
<1>4. SubSeq(t, 1, Len(s)) \in Seq(S) /\ Len(SubSeq(t, 1, Len(s))) = Len(s)
      /\ \A i \in 1..Len(s) : SubSeq(t, 1, Len(s))[i] = t[i]
  <2>1. \A i \in 1..Len(s) : t[i] \in S
    BY <1>2, LenProperties
  <2>2. /\ SubSeq(t, 1, Len(s)) \in Seq(S)
        /\ Len(SubSeq(t, 1, Len(s))) = IF 1 <= Len(s) THEN Len(s) - 1 + 1 ELSE 0
        /\ \A i \in 1..(Len(s) - 1 + 1) : SubSeq(t, 1, Len(s))[i] = t[1 + i - 1]
    BY <1>1, <2>1, SubSeqProperties
  <2>3. Len(s) - 1 + 1 = Len(s) /\ (~(1 <= Len(s)) => Len(s) = 0) /\ \A i \in 1..Len(s) : 1 + i - 1 = i
    BY <1>1
  <2> QED BY <2>2, <2>3
<1>5. SubSeq(t, 1, Len(s)) = s
  BY <1>2, <1>4, SeqEqual
<1> QED BY <1>2, <1>3, <1>5 DEF Front, Last, t

LEMMA FrontThenLast ==
  ASSUME NEW S, NEW l \in Seq(S), l # <<>>
  PROVE  Front(l) \in Seq(S) /\ Last(l) \in S /\ l = Front(l) \o <<Last(l)>> /\ Len(Front(l)) = Len(l) - 1
<1>1. PICK s \in Seq(S), x \in S : l = Append(s, x)
  BY SequenceEmptyOrAppend
<1>2. l = s \o <<x>>
  BY <1>1, AppendIsConcat
<1>3. Front(l) = s /\ Last(l) = x
  BY <1>2, FrontLast
<1>4. Len(l) = Len(s) + 1 /\ Len(s) \in Nat
  BY <1>1, AppendProperties, LenProperties
<1> QED BY <1>2, <1>3, <1>4

\* So is the last message of either taken off.
LEMMA MirrorFront ==
  ASSUME NEW l \in Seq(Said), l # <<>>, NEW c, Cuts(Front(l), c)
  PROVE  /\ Mirror(l, c) # <<>> /\ Last(Mirror(l, c)) = Last(l)
         /\ Front(Mirror(l, c)) = Mirror(Front(l), c)
<1> DEFINE f == Front(l)
           x == Last(l)
<1>1. f \in Seq(Said) /\ x \in Said /\ l = f \o <<x>>
  BY FrontThenLast
<1>2. <<x>> \in Seq(Said)
  BY <1>1
<1>3. Mirror(f, c) \o <<x>> = Mirror(l, c)
  <2> HIDE DEF f, x
  <2>1. Cuts(f, c) BY DEF f
  <2> QED BY <1>1, <1>2, <2>1, MirrorAppend
<1>4. PICK S : x \in S /\ Mirror(f, c) \in Seq(S)
  <2>1. CASE c = NoCheckpoint
    BY <1>1, <2>1 DEF Mirror
  <2>2. CASE c # NoCheckpoint
    <3>1. Mirror(f, c) \in Seq(Said \cup {Summary(SubSeq(f, 1, c))}) BY <2>2, MirrorShape
    <3> QED BY <1>1, <3>1
  <2> QED BY <2>1, <2>2
<1> HIDE DEF f, x
<1>5. Front(Mirror(l, c)) = Mirror(f, c) /\ Last(Mirror(l, c)) = x
  BY <1>3, <1>4, FrontLast
<1>6. Mirror(l, c) # <<>>
  <2>1. Len(Mirror(f, c)) \in Nat /\ Len(Mirror(f, c) \o <<x>>) = Len(Mirror(f, c)) + 1
    BY <1>4, LenProperties
  <2> QED BY <1>3, <2>1, EmptySeq
<1> QED BY <1>5, <1>6 DEF f, x

LEMMA InOneGo ==
  \A h, x, y \in Seq(Said) : (h \o x) \o y = h \o (x \o y)
BY ConcatAssociative

\* Messages that are compacted are those of the same conversation, more of it replaced.
LEMMA CompactsMore ==
  ASSUME NEW l, NEW required, Cuts(l, compaction), Compacts(Mirror(l, compaction), required)
  PROVE  /\ compaction' \in 1..(Len(l) - 1) /\ compaction' > Replaced(compaction)
         /\ compaction' # NoCheckpoint
         /\ messages' = Mirror(l, compaction')
         /\ hasValidToolCallResultPairs(From(l, compaction' + 1))
         /\ containsRequiredToolCalls(From(l, compaction' + 1), required)
<1> DEFINE k == Replaced(compaction)
           m == Mirror(l, compaction)
           a == From(l, k + 1)
           h == SubSeq(l, 1, k)
           plan == planCompaction(a, required)
           cut == plan.cut
<1>1. l \in Seq(Said) /\ Len(l) \in Nat /\ Len(l) <= MaxLog /\ k \in 0..Len(l) /\ MaxLog \in Nat
  BY LenProperties, CompactionAssumption DEF Cuts, Replaced
<1>2. HasCheckpoint => k = compaction /\ Tail(m) = a /\ m[1] = Summary(h)
  BY MirrorShape DEF HasCheckpoint, Replaced
<1>3. ~HasCheckpoint => k = 0 /\ m = l /\ a = l /\ h = <<>>
  <2>1. ~HasCheckpoint => k = 0 /\ m = l BY DEF HasCheckpoint, Replaced, Mirror
  <2>2. SubSeq(l, 1, Len(l)) = l BY <1>1, SubSeqFull
  <2>3. k = 0 => a = l /\ h = <<>> BY <2>2, SubSeqEmpty DEF From
  <2> QED BY <2>1, <2>3
<1>4. Active(m) = a
  BY <1>2, <1>3 DEF Active
<1>5. a \in Seq(Said) /\ Len(a) = Len(l) - k
      /\ \A j \in 1..(Len(l) - k) : a[j] = l[k + j]
  BY <1>1, RestAfter
<1>6. (IF HasCheckpoint THEN m[1].of ELSE <<>>) = h
  BY <1>2, <1>3 DEF Summary, Message
<1> HIDE DEF k, m, a, h
<1>7. /\ findCompactionCut(a, required) > 0
      /\ messages' = <<Summary(h \o plan.history \o plan.turnPrefix)>> \o From(a, cut + 1)
      /\ compaction' = cut + (IF HasCheckpoint THEN compaction ELSE 0)
  <2>1. Compacts(m, required) BY DEF m
  <2> QED BY <1>4, <1>6, <2>1 DEF Compacts
<1>8. findCompactionCut(a, required) # 0
  BY <1>7
<1>9. /\ cut = findCompactionCut(a, required)
      /\ plan.history \in Seq(Said) /\ plan.turnPrefix \in Seq(Said)
      /\ plan.history \o plan.turnPrefix = SubSeq(a, 1, cut)
  BY <1>5, <1>8, PlanTellsAll
<1>10. /\ cut \in 1..(Len(a) - 1)
       /\ hasValidToolCallResultPairs(From(a, cut + 1))
       /\ containsRequiredToolCalls(From(a, cut + 1), required)
  BY <1>5, <1>8, <1>9, CutCoherent
<1>11. compaction' = k + cut
  BY <1>1, <1>2, <1>3, <1>7, <1>10, <1>5 DEF HasCheckpoint
<1> HIDE DEF plan, cut
<1>12. k + cut \in 1..(Len(l) - 1) /\ k + cut > k /\ k + cut # NoCheckpoint
  BY <1>1, <1>5, <1>10 DEF NoCheckpoint
<1>13. From(a, cut + 1) = From(l, k + cut + 1)
  <2>1. cut \in 0..Len(a) /\ k + cut \in 0..Len(l) /\ Len(a) - cut = Len(l) - (k + cut) BY <1>1, <1>5, <1>10
  <2>2. From(a, cut + 1) \in Seq(Said) /\ Len(From(a, cut + 1)) = Len(a) - cut
        /\ \A j \in 1..(Len(a) - cut) : From(a, cut + 1)[j] = a[cut + j]
    BY <1>5, <2>1, RestAfter
  <2> DEFINE q == k + cut
  <2>3. q \in 0..Len(l) BY <2>1
  <2> HIDE DEF q
  <2>4. From(l, q + 1) \in Seq(Said) /\ Len(From(l, q + 1)) = Len(l) - q
        /\ \A j \in 1..(Len(l) - q) : From(l, q + 1)[j] = l[q + j]
    BY <1>1, <2>3, RestAfter
  <2>5. \A j \in 1..(Len(a) - cut) : a[cut + j] = l[q + j]
    <3> TAKE j \in 1..(Len(a) - cut)
    <3>1. cut + j \in 1..(Len(l) - k) /\ k + (cut + j) = q + j BY <1>1, <1>5, <1>10 DEF q
    <3> QED BY <1>5, <3>1
  <2>6. Len(a) - cut = Len(l) - q BY <2>1 DEF q
  <2>7. From(a, cut + 1) = From(l, q + 1)
    BY <2>2, <2>4, <2>5, <2>6, SeqEqual
  <2> QED BY <2>7 DEF q
<1>14. h \o plan.history \o plan.turnPrefix = SubSeq(l, 1, k + cut)
  <2>1. h \in Seq(Said)
    <3>1. \A i \in 1..k : l[i] \in Said BY <1>1, LenProperties
    <3>2. 1 \in Int /\ k \in Int BY <1>1
    <3> QED BY <3>1, <3>2, SubSeqProperties DEF h
  <2>2. (h \o plan.history) \o plan.turnPrefix = h \o SubSeq(a, 1, cut)
    <3> DEFINE x == plan.history
               y == plan.turnPrefix
    <3>1. x \in Seq(Said) /\ y \in Seq(Said) /\ x \o y = SubSeq(a, 1, cut) BY <1>9
    <3> HIDE DEF x, y
    <3>2. (h \o x) \o y = h \o (x \o y) BY <2>1, <3>1, InOneGo
    <3>3. (h \o x) \o y = h \o SubSeq(a, 1, cut) BY <3>1, <3>2
    <3> QED BY <3>3 DEF x, y
  <2>3. SubSeq(a, 1, cut) = SubSeq(l, k + 1, k + cut)
    <3>1. a = SubSeq(l, k + 1, Len(l)) BY DEF a, From
    <3>2. /\ k + 1 \in 1..Len(l) /\ Len(l) \in 1..Len(l)
          /\ 1 \in 1..(Len(l) - (k + 1) + 1) /\ cut \in 1..(Len(l) - (k + 1) + 1)
          /\ k + 1 + 1 - 1 = k + 1 /\ k + 1 + cut - 1 = k + cut
      BY <1>1, <1>5, <1>10
    <3>3. SubSeq(SubSeq(l, k + 1, Len(l)), 1, cut) = SubSeq(l, k + 1 + 1 - 1, k + 1 + cut - 1)
      BY <1>1, <3>2, SubSeqOfSubSeq
    <3> QED BY <3>1, <3>2, <3>3
  <2>4. h \o SubSeq(l, k + 1, k + cut) = SubSeq(l, 1, k + cut)
    <3>1. 1 \in 1..(Len(l) + 1) /\ k \in (1 - 1)..Len(l) /\ k + cut \in k..Len(l)
      BY <1>1, <1>5, <1>10
    <3> QED BY <1>1, <3>1, ConcatAdjacentSubSeq DEF h
  <2> QED BY <2>2, <2>3, <2>4
<1>15. messages' = Mirror(l, k + cut)
  BY <1>7, <1>12, <1>13, <1>14 DEF Mirror
<1> QED BY <1>10, <1>11, <1>12, <1>13, <1>15 DEF k

-----------------------------------------------------------------------------
(* Calls and results of a conversation.                                    *)

\* The call is where its name says.
Called(l, id) == id[1] \in 1..Len(l) /\ l[id[1]].role = "assistant" /\ id \in l[id[1]].ids

\* Calls are named by their place and get a result later, except those of waiting.
Answered(l, q, waiting) ==
  l[q].role = "assistant" =>
    \A id \in l[q].ids :
      id[1] = q /\ (id \in waiting \/ \E r \in (q + 1)..Len(l) : l[r].role = "tool" /\ id \in l[r].ids)

\* Results come after their call, which is not replaced without them.
Following(l, q, k) ==
  l[q].role = "tool" => \A id \in l[q].ids : id[1] < q /\ Called(l, id) /\ (q > k => id[1] > k)

\* A conversation with the first k messages replaced where waiting has no results yet.
Coherent(l, k, waiting) ==
  /\ l \in Seq(Said) /\ k \in 0..Len(l)
  /\ \A q \in 1..Len(l) : Answered(l, q, waiting) /\ Following(l, q, k)
  /\ \A id \in waiting : Called(l, id) /\ id[1] > k

LEMMA Joined ==
  ASSUME NEW l \in Seq(Said), NEW new \in Seq(Said)
  PROVE  /\ l \o new \in Seq(Said) /\ Len(l \o new) = Len(l) + Len(new)
         /\ Len(l) \in Nat /\ Len(new) \in Nat
         /\ \A q \in 1..Len(l) : (l \o new)[q] = l[q]
         /\ \A j \in 1..Len(new) : (l \o new)[Len(l) + j] = new[j]
<1>1. Len(l) \in Nat /\ Len(new) \in Nat
  BY LenProperties
<1>2. /\ l \o new \in Seq(Said) /\ Len(l \o new) = Len(l) + Len(new)
      /\ \A i \in 1..(Len(l) + Len(new)) : (l \o new)[i] = IF i <= Len(l) THEN l[i] ELSE new[i - Len(l)]
  BY ConcatProperties
<1>3. \A q \in 1..Len(l) : (l \o new)[q] = l[q]
  BY <1>1, <1>2
<1>4. ASSUME NEW j \in 1..Len(new) PROVE (l \o new)[Len(l) + j] = new[j]
  <2>1. Len(l) + j \in 1..(Len(l) + Len(new)) /\ ~(Len(l) + j <= Len(l)) /\ Len(l) + j - Len(l) = j
    BY <1>1
  <2> QED BY <1>2, <2>1
<1> QED BY <1>1, <1>2, <1>3, <1>4

\* A conversation goes on coherently if what is added is: results for what waited, or more
\* calls, which get their results or wait.
LEMMA GoesOn ==
  ASSUME NEW l, NEW k, NEW waiting, Coherent(l, k, waiting), NEW new \in Seq(Said), NEW waits,
         \A id \in waiting : id \in waits \/ \E j \in 1..Len(new) : new[j].role = "tool" /\ id \in new[j].ids,
         \A j \in 1..Len(new) : new[j].role = "assistant" =>
           \A id \in new[j].ids :
             /\ id[1] = Len(l) + j
             /\ id \in waits \/ \E i \in (j + 1)..Len(new) : new[i].role = "tool" /\ id \in new[i].ids,
         \A j \in 1..Len(new) : new[j].role = "tool" =>
           \A id \in new[j].ids : id[1] < Len(l) + j /\ Called(l \o new, id) /\ id[1] > k,
         \A id \in waits : Called(l \o new, id) /\ id[1] > k
  PROVE  Coherent(l \o new, k, waits)
<1> DEFINE l2 == l \o new
<1>1. l \in Seq(Said) /\ k \in 0..Len(l)
  BY DEF Coherent
<1>2. /\ l2 \in Seq(Said) /\ Len(l2) = Len(l) + Len(new) /\ Len(l) \in Nat /\ Len(new) \in Nat
      /\ \A q \in 1..Len(l) : l2[q] = l[q]
      /\ \A j \in 1..Len(new) : l2[Len(l) + j] = new[j]
  BY <1>1, Joined
<1> HIDE DEF l2
<1>3. k \in 0..Len(l2)
  BY <1>1, <1>2
<1>4. ASSUME NEW id, Called(l, id) PROVE Called(l2, id)
  BY <1>2, <1>4 DEF Called
<1>5. ASSUME NEW q \in 1..Len(l) PROVE Following(l2, q, k)
  <2>1. Following(l, q, k) /\ l2[q] = l[q] BY <1>2 DEF Coherent
  <2> QED BY <1>4, <2>1 DEF Following
<1>6. ASSUME NEW q \in 1..Len(l) PROVE Answered(l2, q, waits)
  <2> SUFFICES ASSUME l2[q].role = "assistant", NEW id \in l2[q].ids
               PROVE  id[1] = q /\ (id \in waits \/ \E r \in (q + 1)..Len(l2) : l2[r].role = "tool" /\ id \in l2[r].ids)
    BY DEF Answered
  <2>1. Answered(l, q, waiting) /\ l2[q] = l[q] BY <1>2 DEF Coherent
  <2>2. id[1] = q /\ (id \in waiting \/ \E r \in (q + 1)..Len(l) : l[r].role = "tool" /\ id \in l[r].ids)
    BY <2>1 DEF Answered
  <2>3. ASSUME NEW r \in (q + 1)..Len(l), l[r].role = "tool" /\ id \in l[r].ids
        PROVE  \E i \in (q + 1)..Len(l2) : l2[i].role = "tool" /\ id \in l2[i].ids
    <3>1. r \in (q + 1)..Len(l2) /\ l2[r] = l[r] BY <1>2
    <3> QED BY <2>3, <3>1
  <2>4. ASSUME NEW j \in 1..Len(new), new[j].role = "tool" /\ id \in new[j].ids
        PROVE  \E i \in (q + 1)..Len(l2) : l2[i].role = "tool" /\ id \in l2[i].ids
    <3>1. Len(l) + j \in (q + 1)..Len(l2) /\ l2[Len(l) + j] = new[j] BY <1>2
    <3> QED BY <2>4, <3>1
  <2> QED BY <2>2, <2>3, <2>4
<1>7. ASSUME NEW j \in 1..Len(new) PROVE Answered(l2, Len(l) + j, waits) /\ Following(l2, Len(l) + j, k)
  <2> DEFINE q == Len(l) + j
  <2>1. l2[q] = new[j] /\ q > k BY <1>1, <1>2
  <2>2. Following(l2, q, k)
    <3>1. new[j].role = "tool" => \A id \in new[j].ids : id[1] < q /\ Called(l2, id) /\ id[1] > k
      BY DEF l2
    <3> HIDE DEF q
    <3> QED BY <2>1, <3>1 DEF Following
  <2>3. ASSUME new[j].role = "assistant", NEW id \in new[j].ids
        PROVE  id[1] = q /\ (id \in waits \/ \E r \in (q + 1)..Len(l2) : l2[r].role = "tool" /\ id \in l2[r].ids)
    <3>1. id[1] = q /\ (id \in waits \/ \E i \in (j + 1)..Len(new) : new[i].role = "tool" /\ id \in new[i].ids)
      BY <2>3
    <3>2. ASSUME NEW i \in (j + 1)..Len(new), new[i].role = "tool" /\ id \in new[i].ids
          PROVE  \E r \in (q + 1)..Len(l2) : l2[r].role = "tool" /\ id \in l2[r].ids
      <4>1. i \in 1..Len(new) /\ Len(l) + i \in (q + 1)..Len(l2) BY <1>2
      <4>2. l2[Len(l) + i] = new[i] BY <1>2, <4>1
      <4> QED BY <3>2, <4>1, <4>2
    <3> QED BY <3>1, <3>2
  <2>4. Answered(l2, q, waits)
    <3> HIDE DEF q
    <3> QED BY <2>1, <2>3 DEF Answered
  <2> QED BY <2>2, <2>4
<1>8. \A q \in 1..Len(l2) : Answered(l2, q, waits) /\ Following(l2, q, k)
  <2> TAKE q \in 1..Len(l2)
  <2>1. CASE q <= Len(l)
    <3>1. q \in 1..Len(l) BY <1>2, <2>1
    <3> QED BY <1>5, <1>6, <3>1
  <2>2. CASE ~(q <= Len(l))
    <3>1. q - Len(l) \in 1..Len(new) /\ Len(l) + (q - Len(l)) = q BY <1>2, <2>2
    <3>2. Answered(l2, Len(l) + (q - Len(l)), waits) /\ Following(l2, Len(l) + (q - Len(l)), k)
      BY <1>7, <3>1
    <3> QED BY <3>1, <3>2
  <2> QED BY <2>1, <2>2
<1> QED BY <1>2, <1>3, <1>8 DEF Coherent, l2

\* More is replaced coherently if what is left has the calls of its results and what waits.
LEMMA StaysCoherent ==
  ASSUME NEW l, NEW k, NEW waiting, Coherent(l, k, waiting), NEW c \in 0..Len(l), c > k,
         hasValidToolCallResultPairs(From(l, c + 1)),
         containsRequiredToolCalls(From(l, c + 1), waiting)
  PROVE  Coherent(l, c, waiting)
<1>1. l \in Seq(Said) /\ k \in 0..Len(l) /\ Len(l) \in Nat
  BY LenProperties DEF Coherent
<1>2. \A role, id : id \in IdsOf(From(l, c + 1), role) <=> \E j \in (c + 1)..Len(l) : l[j].role = role /\ id \in l[j].ids
  <2>1. c + 1 \in 1..(Len(l) + 1) BY <1>1
  <2> QED BY <1>1, <2>1, IdsFrom
\* A call of the rest is named by a place in the rest.
<1>3. ASSUME NEW id \in IdsOf(From(l, c + 1), "assistant") PROVE id[1] > c
  <2>1. PICK j \in (c + 1)..Len(l) : l[j].role = "assistant" /\ id \in l[j].ids
    BY <1>2
  <2>2. j \in 1..Len(l) /\ j > c BY <1>1
  <2>3. Answered(l, j, waiting) BY <2>2 DEF Coherent
  <2> QED BY <2>1, <2>2, <2>3 DEF Answered
<1>4. ASSUME NEW q \in 1..Len(l) PROVE Following(l, q, c)
  <2>1. Following(l, q, k) BY DEF Coherent
  <2>2. ASSUME l[q].role = "tool", q > c, NEW id \in l[q].ids PROVE id[1] > c
    <3>1. q \in (c + 1)..Len(l) BY <1>1, <2>2
    <3>2. id \in IdsOf(From(l, c + 1), "tool") BY <1>2, <2>2, <3>1
    <3>3. id \in IdsOf(From(l, c + 1), "assistant") BY <3>2 DEF hasValidToolCallResultPairs
    <3> QED BY <1>3, <3>3
  <2> QED BY <2>1, <2>2 DEF Following
<1>5. \A id \in waiting : id[1] > c
  BY <1>3 DEF containsRequiredToolCalls
<1> QED BY <1>4, <1>5 DEF Coherent

\* A message without calls and results that ends a conversation may be taken back.
LEMMA TakenBack ==
  ASSUME NEW l, NEW k, NEW waiting, Coherent(l, k, waiting), l # <<>>, k < Len(l),
         Last(l).role \notin {"assistant", "tool"}
  PROVE  Coherent(Front(l), k, waiting)
<1> DEFINE f == Front(l)
           n == Len(l)
<1>1. l \in Seq(Said) /\ k \in 0..n /\ n \in Nat
  BY LenProperties DEF Coherent
<1>2. f \in Seq(Said) /\ Last(l) \in Said /\ l = f \o <<Last(l)>> /\ Len(f) = n - 1 /\ l[n] = Last(l)
  BY <1>1, FrontThenLast DEF Last
<1>3. \A q \in 1..(n - 1) : l[q] = f[q]
  <2>1. <<Last(l)>> \in Seq(Said) BY <1>2
  <2> HIDE DEF f
  <2>2. \A q \in 1..Len(f) : (f \o <<Last(l)>>)[q] = f[q] BY <1>2, <2>1, Joined
  <2> QED BY <1>2, <2>2
<1> HIDE DEF f
<1>4. ASSUME NEW q \in 1..n, l[q].role \in {"assistant", "tool"} PROVE q \in 1..(n - 1)
  <2>1. q # n BY <1>2, <1>4
  <2> QED BY <2>1, <1>1
<1>5. ASSUME NEW id, Called(l, id) PROVE Called(f, id)
  BY <1>2, <1>3, <1>4, <1>5 DEF Called
<1>6. ASSUME NEW q \in 1..(n - 1) PROVE Answered(f, q, waiting)
  <2> SUFFICES ASSUME f[q].role = "assistant", NEW id \in f[q].ids
               PROVE  id[1] = q /\ (id \in waiting \/ \E r \in (q + 1)..Len(f) : f[r].role = "tool" /\ id \in f[r].ids)
    BY DEF Answered
  <2>1. q \in 1..n /\ l[q] = f[q] BY <1>1, <1>3
  <2>2. Answered(l, q, waiting) BY <2>1 DEF Coherent
  <2>3. id[1] = q /\ (id \in waiting \/ \E r \in (q + 1)..n : l[r].role = "tool" /\ id \in l[r].ids)
    BY <2>1, <2>2 DEF Answered
  <2>4. ASSUME NEW r \in (q + 1)..n, l[r].role = "tool" /\ id \in l[r].ids
        PROVE  \E i \in (q + 1)..Len(f) : f[i].role = "tool" /\ id \in f[i].ids
    <3>1. r \in 1..n BY <1>1
    <3>2. r \in 1..(n - 1) BY <1>4, <2>4, <3>1
    <3>3. r \in (q + 1)..Len(f) /\ l[r] = f[r] BY <1>1, <1>2, <1>3, <3>2
    <3> QED BY <2>4, <3>3
  <2> QED BY <2>3, <2>4
<1>7. ASSUME NEW q \in 1..(n - 1) PROVE Following(f, q, k)
  <2>1. q \in 1..n /\ l[q] = f[q] BY <1>1, <1>3
  <2>2. Following(l, q, k) BY <2>1 DEF Coherent
  <2> QED BY <1>5, <2>1, <2>2 DEF Following
<1>8. \A id \in waiting : Called(f, id) /\ id[1] > k
  BY <1>5 DEF Coherent
<1>9. k \in 0..Len(f)
  BY <1>1, <1>2
<1> QED BY <1>2, <1>6, <1>7, <1>8, <1>9 DEF Coherent, f

-----------------------------------------------------------------------------
(* The inductive invariant.                                                *)

Typed ==
  /\ log \in Seq(Said) /\ Len(log) <= MaxLog
  /\ compaction = NoCheckpoint \/ compaction \in 1..(Len(log) - 1)
  /\ pending \subseteq CallIds
  /\ phase \in {"idle", "head", "request"}
  /\ phase # "idle" => pending = {}
  /\ phase = "head" => log # <<>>

CoherenceInv == Coherent(log, Replaced(compaction), pending)

Inv == Typed /\ ConversationKept /\ CoherenceInv

LEMMA KeptIsMirror == ConversationKept <=> messages = Mirror(log, compaction)
BY DEF ConversationKept, Mirror, HasCheckpoint

\* Where the checkpoint is.
LEMMA Checkpoint ==
  ASSUME Inv
  PROVE  /\ Cuts(log, compaction) /\ Len(log) \in Nat /\ MaxLog \in Nat
         /\ compaction # NoCheckpoint => compaction \in Nat /\ compaction < Len(log)
         /\ Replaced(compaction) \in 0..Len(log)
         /\ log # <<>> => Replaced(compaction) < Len(log) /\ Len(log) > 0
<1>1. Len(log) \in Nat /\ MaxLog \in Nat
  BY CompactionAssumption, LenProperties DEF Inv, Typed
<1>2. log # <<>> => Len(log) > 0
  BY <1>1, EmptySeq DEF Inv, Typed
<1> QED BY <1>1, <1>2 DEF Inv, Typed, Cuts, Replaced

LEMMA InitInv == Init => Inv
<1> SUFFICES ASSUME Init PROVE Inv
  OBVIOUS
<1>1. log \in Seq(Said) /\ Len(log) = 0 /\ Len(log) <= MaxLog
  BY EmptySeq, CompactionAssumption DEF Init
<1>2. Typed
  BY <1>1 DEF Init, Typed
<1>3. ConversationKept
  BY DEF Init, ConversationKept, HasCheckpoint
<1>4. Coherent(log, 0, {})
  BY <1>1 DEF Coherent
<1>5. CoherenceInv
  BY <1>4 DEF Init, CoherenceInv, Replaced
<1> QED BY <1>2, <1>3, <1>5 DEF Inv

-----------------------------------------------------------------------------
(* Steps that make the conversation longer.                                *)

LEMMA Grows ==
  ASSUME Inv, NEW new \in Seq(Said), Len(log) + Len(new) <= MaxLog,
         log' = log \o new, messages' = messages \o new, compaction' = compaction
  PROVE  /\ log' \in Seq(Said) /\ Len(log') <= MaxLog
         /\ compaction' = NoCheckpoint \/ compaction' \in 1..(Len(log') - 1)
         /\ ConversationKept'
<1>1. /\ log' \in Seq(Said) /\ Len(log') = Len(log) + Len(new) /\ Len(log) \in Nat /\ Len(new) \in Nat
  BY Joined DEF Inv, Typed
<1>2. compaction' = NoCheckpoint \/ compaction' \in 1..(Len(log') - 1)
  BY <1>1 DEF Inv, Typed
<1>3. messages' = Mirror(log', compaction)
  <2>1. Mirror(log, compaction) \o new = Mirror(log \o new, compaction)
    BY Checkpoint, MirrorAppend
  <2> QED BY <2>1, KeptIsMirror DEF Inv
<1>4. ConversationKept'
  BY <1>3 DEF ConversationKept, Mirror, HasCheckpoint
<1> QED BY <1>1, <1>2, <1>4

LEMMA SayInv ==
  ASSUME Inv, NEW x \in Said, x.role \in {"user", "command"}, x.ids = {}, Say(x)
  PROVE  Inv'
<1> DEFINE new == <<x>>
<1>1. new \in Seq(Said) /\ Len(new) = 1 /\ \A j \in 1..Len(new) : new[j] = x
  OBVIOUS
<1>2. log \in Seq(Said) /\ Len(log) \in Nat /\ MaxLog \in Nat
  BY Checkpoint DEF Inv, Typed
<1>3. log' = log \o new
  BY <1>2, AppendIsConcat DEF Say
<1>4. messages' = messages \o new
  <2>1. PICK S : x \in S /\ messages \in Seq(S)
    <3>1. CASE compaction = NoCheckpoint
      BY <1>2, <3>1, KeptIsMirror DEF Inv, Mirror
    <3>2. CASE compaction # NoCheckpoint
      <4>1. messages \in Seq(Said \cup {Summary(SubSeq(log, 1, compaction))})
        BY <3>2, KeptIsMirror, Checkpoint, MirrorShape DEF Inv
      <4> QED BY <4>1
    <3> QED BY <3>1, <3>2
  <2> QED BY <2>1, AppendIsConcat DEF Say
<1>5. Len(log) + Len(new) <= MaxLog /\ compaction' = compaction /\ pending' = pending /\ phase' = phase /\ phase = "idle"
  BY <1>1, <1>2 DEF Say
<1> HIDE DEF new
<1>6. Coherent(log \o new, Replaced(compaction), pending)
  <2> DEFINE k == Replaced(compaction)
  <2>1. Coherent(log, k, pending) BY DEF Inv, CoherenceInv
  <2> HIDE DEF k
  <2>2. \A id \in pending : Called(log \o new, id) /\ id[1] > k
    <3> TAKE id \in pending
    <3>1. Called(log, id) /\ id[1] > k BY <2>1 DEF Coherent
    <3>2. id[1] \in 1..Len(log) /\ Len(log \o new) = Len(log) + Len(new) /\ Len(new) \in Nat
          /\ (log \o new)[id[1]] = log[id[1]]
      BY <1>1, <1>2, <3>1, Joined DEF Called
    <3> QED BY <1>2, <3>1, <3>2 DEF Called
  <2>3. \A id \in pending : id \in pending \/ \E j \in 1..Len(new) : new[j].role = "tool" /\ id \in new[j].ids
    OBVIOUS
  <2>4. \A j \in 1..Len(new) : new[j].role # "assistant" /\ new[j].role # "tool"
    BY <1>1
  <2> QED BY <1>1, <2>1, <2>2, <2>3, <2>4, GoesOn DEF k
<1>7. Typed' /\ ConversationKept'
  BY <1>1, <1>3, <1>4, <1>5, Grows DEF Inv, Typed
<1> QED BY <1>3, <1>5, <1>6, <1>7 DEF Inv, CoherenceInv

\* The results of the pending calls, in any order.
LEMMA RunInv ==
  ASSUME Inv, Run PROVE Inv'
<1>1. PICK s \in Sizes :
        LET new == [i \in 1..Cardinality(pending) |-> Message("tool", {SetToSeq(pending)[i]}, s)]
        IN  messages' = messages \o new /\ log' = log \o new
  BY DEF Run
<1> DEFINE n == Cardinality(pending)
           f == SetToSeq(pending)
           new == [i \in 1..n |-> Message("tool", {f[i]}, s)]
           k == Replaced(compaction)
<1>2. log' = log \o new /\ messages' = messages \o new
  BY <1>1
<1>3. /\ compaction' = compaction /\ pending' = {} /\ phase' = "head" /\ messages # <<>>
      /\ Len(log) + n <= MaxLog
  BY DEF Run
<1>4. pending \subseteq CallIds /\ IsFiniteSet(pending)
  <2>1. MaxLog \in Nat BY CompactionAssumption
  <2>2. IsFiniteSet(1..MaxLog) /\ IsFiniteSet(1..2)
    <3>1. 1 \in Int /\ 2 \in Int /\ MaxLog \in Int BY <2>1
    <3> QED BY <3>1, FS_Interval
  <2>3. IsFiniteSet(CallIds) BY <2>2, FS_Product DEF CallIds
  <2> QED BY <2>3, FS_Subset DEF Inv, Typed
<1>5. n \in Nat /\ f \in [1..n -> pending] /\ \A id \in pending : \E i \in 1..n : f[i] = id
  BY <1>4, ListOfSet
<1> HIDE DEF n, f
<1>6. new \in Seq(Said) /\ Len(new) = n
      /\ \A i \in 1..n : new[i].role = "tool" /\ new[i].ids = {f[i]}
  <2>1. s \in Nat BY CompactionAssumption
  <2>2. \A i \in 1..n : Message("tool", {f[i]}, s) \in Said
    BY <1>4, <1>5, <2>1 DEF Message, Said
  <2>3. new \in [1..n -> Said] BY <2>2
  <2>4. new \in Seq(Said) /\ Len(new) = n BY <1>5, <2>3
  <2>5. \A i \in 1..n : new[i].role = "tool" /\ new[i].ids = {f[i]} BY DEF Message
  <2> QED BY <2>4, <2>5
<1> HIDE DEF new
<1>7. log \in Seq(Said) /\ Len(log) \in Nat /\ Coherent(log, k, pending) /\ k \in 0..Len(log)
  BY Checkpoint DEF Inv, Typed, CoherenceInv
<1> HIDE DEF k
<1>8. /\ Len(log \o new) = Len(log) + Len(new)
      /\ \A q \in 1..Len(log) : (log \o new)[q] = log[q]
  BY <1>6, <1>7, Joined
<1>9. \A id \in pending : id \in {} \/ \E j \in 1..Len(new) : new[j].role = "tool" /\ id \in new[j].ids
  BY <1>5, <1>6
<1>10. ASSUME NEW j \in 1..Len(new), NEW id \in new[j].ids
       PROVE  id[1] < Len(log) + j /\ Called(log \o new, id) /\ id[1] > k
  <2>1. id \in pending BY <1>5, <1>6, <1>10
  <2>2. Called(log, id) /\ id[1] > k BY <1>7, <2>1 DEF Coherent
  <2>3. id[1] \in 1..Len(log) BY <2>2 DEF Called
  <2>4. Called(log \o new, id) BY <1>5, <1>6, <1>7, <1>8, <2>2, <2>3 DEF Called
  <2>5. id[1] < Len(log) + j BY <1>5, <1>6, <1>7, <2>3
  <2> QED BY <2>2, <2>4, <2>5
<1>11. \A j \in 1..Len(new) : new[j].role # "assistant"
  BY <1>6
<1>12. Coherent(log \o new, k, {})
  BY <1>6, <1>7, <1>9, <1>10, <1>11, GoesOn
<1>13. /\ log' \in Seq(Said) /\ Len(log') <= MaxLog
       /\ compaction' = NoCheckpoint \/ compaction' \in 1..(Len(log') - 1)
       /\ ConversationKept'
  BY <1>2, <1>3, <1>6, Grows
<1>14. log' # <<>>
  <2>1. log # <<>>
    <3>1. ASSUME log = <<>> PROVE FALSE
      <4>1. Len(log) = 0 BY <3>1
      <4>2. compaction = NoCheckpoint BY <4>1, Checkpoint
      <4>3. messages = <<>> BY <3>1, <4>2, KeptIsMirror DEF Inv, Mirror
      <4> QED BY <4>3, <1>3
    <3> QED BY <3>1
  <2>2. Len(log) > 0 BY <2>1, Checkpoint
  <2> QED BY <1>2, <1>5, <1>6, <1>7, <1>8, <2>2
<1>15. Typed'
  BY <1>3, <1>13, <1>14 DEF Typed
<1> QED BY <1>2, <1>3, <1>12, <1>13, <1>15 DEF Inv, CoherenceInv, k

-----------------------------------------------------------------------------
(* Steps that replace more of it.                                          *)

\* A conversation of which more is replaced; all of it, or all but its last message.
LEMMA ReplacesMore ==
  ASSUME NEW l, NEW required, Cuts(l, compaction), Coherent(l, Replaced(compaction), required),
         Compacts(Mirror(l, compaction), required), log' = l
  PROVE  /\ log' \in Seq(Said) /\ Len(log') <= MaxLog
         /\ compaction' \in 1..(Len(log') - 1) /\ log' # <<>>
         /\ ConversationKept'
         /\ Coherent(log', Replaced(compaction)', required)
<1>1. /\ compaction' \in 1..(Len(l) - 1) /\ compaction' > Replaced(compaction)
      /\ compaction' # NoCheckpoint
      /\ messages' = Mirror(l, compaction')
      /\ hasValidToolCallResultPairs(From(l, compaction' + 1))
      /\ containsRequiredToolCalls(From(l, compaction' + 1), required)
  BY CompactsMore
<1>2. l \in Seq(Said) /\ Len(l) <= MaxLog /\ Len(l) \in Nat
  BY LenProperties DEF Cuts
<1>3. l # <<>>
  BY <1>1, <1>2, EmptySeq
<1>4. ConversationKept'
  BY <1>1 DEF ConversationKept, Mirror, HasCheckpoint
<1>5. compaction' \in 0..Len(l)
  BY <1>1, <1>2
<1> DEFINE c == compaction'
<1> HIDE DEF c
<1>6. Coherent(l, c, required)
  BY <1>1, <1>5, StaysCoherent DEF c
<1>7. Replaced(compaction)' = compaction'
  BY <1>1 DEF Replaced
<1> QED BY <1>1, <1>2, <1>3, <1>4, <1>6, <1>7 DEF c

LEMMA CompactInv ==
  ASSUME Inv, Compact PROVE Inv'
<1>1. Compacts(messages, pending) /\ pending' = pending /\ phase' = phase /\ log' = log
  BY DEF Compact
<1>2. Cuts(log, compaction) /\ messages = Mirror(log, compaction) /\ Coherent(log, Replaced(compaction), pending)
  BY Checkpoint, KeptIsMirror DEF Inv, CoherenceInv
<1>3. Compacts(Mirror(log, compaction), pending)
  BY <1>1, <1>2
<1>4. /\ log' \in Seq(Said) /\ Len(log') <= MaxLog
      /\ compaction' \in 1..(Len(log') - 1) /\ log' # <<>>
      /\ ConversationKept'
      /\ Coherent(log', Replaced(compaction)', pending)
  BY <1>1, <1>2, <1>3, ReplacesMore
<1> QED BY <1>1, <1>4 DEF Inv, Typed, CoherenceInv

\* Compaction within a run, when nothing is pending.
LEMMA ApplyInv ==
  ASSUME Inv, phase # "idle", applyCompaction(messages), log' = log, pending' = pending,
         phase' \in {"head", "request", "idle"}
  PROVE  Inv'
<1>1. Compacts(messages, {}) /\ pending = {}
  BY DEF applyCompaction, Inv, Typed
<1>2. Cuts(log, compaction) /\ messages = Mirror(log, compaction) /\ Coherent(log, Replaced(compaction), {})
  BY <1>1, Checkpoint, KeptIsMirror DEF Inv, CoherenceInv
<1>3. Compacts(Mirror(log, compaction), {})
  BY <1>1, <1>2
<1>4. /\ log' \in Seq(Said) /\ Len(log') <= MaxLog
      /\ compaction' \in 1..(Len(log') - 1) /\ log' # <<>>
      /\ ConversationKept'
      /\ Coherent(log', Replaced(compaction)', {})
  BY <1>2, <1>3, ReplacesMore
<1> QED BY <1>1, <1>4 DEF Inv, Typed, CoherenceInv

\* The end of a run, or of its preparation: nothing else changes.
LEMMA SameInv ==
  ASSUME Inv, log' = log, messages' = messages, compaction' = compaction, pending' = pending,
         \/ phase' = phase
         \/ phase' = "idle"
         \/ phase' = "request" /\ phase # "idle"
  PROVE  Inv'
<1>1. Typed'
  BY DEF Inv, Typed
<1>2. ConversationKept'
  BY DEF Inv, ConversationKept, HasCheckpoint
<1>3. CoherenceInv'
  BY DEF Inv, CoherenceInv, Replaced
<1> QED BY <1>1, <1>2, <1>3 DEF Inv

\* The command goes, from the messages as from the conversation.
LEMMA ManualInv ==
  ASSUME Inv, ManualCompaction PROVE Inv'
<1> DEFINE l == Front(log)
<1>1. phase = "head" /\ pending = {} /\ pending' = {} /\ log # <<>> /\ Last(messages) = Command
  BY DEF ManualCompaction, Manual, Inv, Typed
<1>2. log \in Seq(Said) /\ Len(log) \in Nat /\ messages = Mirror(log, compaction)
  BY Checkpoint, KeptIsMirror DEF Inv, Typed
<1>3. l \in Seq(Said) /\ Len(l) = Len(log) - 1
  BY <1>1, <1>2, FrontThenLast
<1>4. Cuts(l, compaction)
  BY <1>2, <1>3, Checkpoint DEF Cuts, Inv, Typed
<1>5. Last(messages) = Last(log) /\ Front(messages) = Mirror(l, compaction)
  BY <1>1, <1>2, <1>4, MirrorFront
<1>6. Last(log).role \notin {"assistant", "tool"}
  BY <1>1, <1>5 DEF Command, Message
<1>7. Coherent(l, Replaced(compaction), {})
  <2>1. Coherent(log, Replaced(compaction), {}) BY <1>1 DEF Inv, CoherenceInv
  <2>2. Replaced(compaction) < Len(log) BY <1>1, Checkpoint
  <2> DEFINE k == Replaced(compaction)
  <2> HIDE DEF k
  <2>3. Coherent(log, k, {}) /\ k < Len(log) BY <2>1, <2>2 DEF k
  <2>4. Coherent(Front(log), k, {}) BY <1>1, <1>6, <2>3, TakenBack
  <2> QED BY <2>4 DEF k
<1>8. CASE fitsCompactionTail(Front(messages)) /\ messages' = Front(messages) /\ log' = Front(log)
           /\ phase' = "request" /\ compaction' = compaction
  <2>1. Len(Front(messages)) >= 2
    BY <1>8 DEF fitsCompactionTail
  <2>2. compaction # NoCheckpoint => compaction \in 1..(Len(l) - 1)
    <3> SUFFICES ASSUME compaction # NoCheckpoint PROVE compaction \in 1..(Len(l) - 1)
      OBVIOUS
    <3>1. Len(Mirror(l, compaction)) = Len(l) - compaction + 1
      BY <1>4, MirrorShape
    <3>2. Len(l) - compaction + 1 >= 2 BY <1>5, <2>1, <3>1
    <3> QED BY <1>2, <1>3, <1>4, <3>2 DEF Cuts
  <2>3. Typed'
    BY <1>1, <1>3, <1>4, <1>8, <2>2 DEF Typed, Cuts
  <2>4. ConversationKept'
    BY <1>5, <1>8 DEF ConversationKept, Mirror, HasCheckpoint
  <2>5. CoherenceInv'
    BY <1>1, <1>7, <1>8 DEF CoherenceInv, Replaced
  <2> QED BY <2>3, <2>4, <2>5 DEF Inv
<1>9. CASE applyCompaction(Front(messages)) /\ log' = Front(log) /\ phase' = "request"
  <2>1. Compacts(Mirror(l, compaction), {})
    BY <1>5, <1>9 DEF applyCompaction
  <2>2. log' = l BY <1>9
  <2> HIDE DEF l
  <2>3. /\ log' \in Seq(Said) /\ Len(log') <= MaxLog
        /\ compaction' \in 1..(Len(log') - 1) /\ log' # <<>>
        /\ ConversationKept'
        /\ Coherent(log', Replaced(compaction)', {})
    BY <1>4, <1>7, <2>1, <2>2, ReplacesMore
  <2> QED BY <1>1, <1>9, <2>3 DEF Inv, Typed, CoherenceInv
<1>10. CASE CompactionFails
  BY <1>1, <1>10, SameInv DEF CompactionFails
<1> QED BY <1>8, <1>9, <1>10 DEF ManualCompaction

-----------------------------------------------------------------------------
(* The model's answer.                                                     *)

LEMMA CallsListed ==
  ASSUME NEW p, NEW n \in Nat, NEW asks \in SUBSET (1..n),
         NEW named, \A id : id \in named <=> \E i \in (1..n) \ asks : id = <<p, i>>
  PROVE  /\ SetToSeq(named) \in [1..Cardinality(named) -> named]
         /\ DOMAIN SetToSeq(named) = 1..Cardinality(named)
         /\ \A id \in named : \E i \in 1..Cardinality(named) : SetToSeq(named)[i] = id
         /\ Cardinality(named) \in Nat /\ Cardinality(named) <= n
<1> DEFINE S == (1..n) \ asks
           f == [i \in S |-> <<p, i>>]
<1>1. IsFiniteSet(1..n) /\ Cardinality(1..n) = n
  <2>1. 1 \in Int /\ n \in Int OBVIOUS
  <2> QED BY <2>1, FS_Interval
<1>2. IsFiniteSet(S) /\ Cardinality(S) <= n
  <2>1. S \in SUBSET (1..n) OBVIOUS
  <2> HIDE DEF S
  <2> QED BY <1>1, <2>1, FS_Subset, ZenonT(40)
<1>3. f \in Surjection(S, named)
  BY DEF Surjection
<1> HIDE DEF S, f
<1>4. IsFiniteSet(named) /\ Cardinality(named) <= Cardinality(S)
  BY <1>2, <1>3, FS_Surjection
<1>5. Cardinality(S) \in Nat /\ Cardinality(named) \in Nat
  BY <1>2, <1>4, FS_CardinalityType
<1>6. Cardinality(named) <= n
  BY <1>2, <1>4, <1>5
<1>7. /\ SetToSeq(named) \in [1..Cardinality(named) -> named]
      /\ \A id \in named : \E i \in 1..Cardinality(named) : SetToSeq(named)[i] = id
  BY <1>4, ListOfSet
<1>8. DOMAIN SetToSeq(named) = 1..Cardinality(named)
  BY <1>7
<1> QED BY <1>5, <1>6, <1>7, <1>8 DEF S

\* One message with the calls, and the results of those that do not wait.
LEMMA AnswerInv ==
  ASSUME Inv, NEW n \in 0..2, NEW asks \in SUBSET (1..n), Answer(n, asks) PROVE Inv'
<1> DEFINE p == Len(log) + 1
           ids == {<<p, i>> : i \in 1..n}
           named == {<<p, i>> : i \in (1..n) \ asks}
           waits == {<<p, i>> : i \in asks}
           done == SetToSeq(named)
           d == Cardinality(named)
           k == Replaced(compaction)
<1>1. /\ phase = "request" /\ Len(log) + 1 + n <= MaxLog
      /\ \E s \in Sizes :
           LET new == <<Message("assistant", ids, s)>> \o [i \in DOMAIN done |-> Message("tool", {done[i]}, s)]
           IN  messages' = messages \o new /\ log' = log \o new
      /\ pending' = waits /\ compaction' = compaction
      /\ phase' = IF n = 0 \/ asks # {} THEN "idle" ELSE "head"
  BY DEF Answer
<1>2. /\ log \in Seq(Said) /\ Len(log) \in Nat /\ MaxLog \in Nat /\ pending = {}
      /\ Coherent(log, k, {}) /\ k \in 0..Len(log)
  BY <1>1, Checkpoint DEF Inv, Typed, CoherenceInv
<1>3. /\ done \in [1..d -> named] /\ DOMAIN done = 1..d
      /\ \A id \in named : \E i \in 1..d : done[i] = id
      /\ d \in Nat /\ d <= n
  <2>1. n \in Nat /\ \A id : id \in named <=> \E i \in (1..n) \ asks : id = <<p, i>> OBVIOUS
  <2>2. asks \in SUBSET (1..n) OBVIOUS
  <2> HIDE DEF named, p
  <2>3. /\ SetToSeq(named) \in [1..Cardinality(named) -> named]
        /\ DOMAIN SetToSeq(named) = 1..Cardinality(named)
        /\ \A id \in named : \E i \in 1..Cardinality(named) : SetToSeq(named)[i] = id
        /\ Cardinality(named) \in Nat /\ Cardinality(named) <= n
    <3> HIDE DEF done, d
    <3> QED BY ONLY <2>1, <2>2, CallsListed
  <2> QED BY <2>3
<1>4. PICK s \in Sizes :
        LET new == <<Message("assistant", ids, s)>> \o [i \in DOMAIN done |-> Message("tool", {done[i]}, s)]
        IN  messages' = messages \o new /\ log' = log \o new
  BY <1>1
<1> DEFINE x == Message("assistant", ids, s)
           rs == [i \in 1..d |-> Message("tool", {done[i]}, s)]
           new == <<x>> \o rs
<1>5. messages' = messages \o new /\ log' = log \o new
  BY <1>3, <1>4
<1>6. ids \subseteq CallIds /\ named \subseteq ids /\ waits \subseteq ids /\ ids \subseteq named \cup waits
      /\ \A id \in ids : id[1] = p
  <2>0. Len(log) + 1 + n <= MaxLog /\ Len(log) \in Nat /\ MaxLog \in Nat BY <1>1, <1>2
  <2>1. p \in 1..MaxLog BY <2>0
  <2>2. \A i \in 1..n : i \in 1..2 OBVIOUS
  <2>4. asks \subseteq 1..n OBVIOUS
  <2> HIDE DEF p
  <2>3. ids \subseteq CallIds /\ \A id \in ids : id[1] = p
    <3> SUFFICES ASSUME NEW id \in ids PROVE id \in CallIds /\ id[1] = p
      OBVIOUS
    <3>1. PICK i \in 1..n : id = <<p, i>> OBVIOUS
    <3>2. i \in 1..2 BY <2>2
    <3> QED BY <2>1, <3>1, <3>2 DEF CallIds
  <2>5. named \subseteq ids /\ waits \subseteq ids /\ ids \subseteq named \cup waits BY <2>4
  <2> QED BY <2>3, <2>5
<1> HIDE DEF done, d, k, ids, named, waits
<1>7. x \in Said /\ x.role = "assistant" /\ x.ids = ids
  <2>1. s \in Nat BY CompactionAssumption
  <2> QED BY <1>6, <2>1 DEF Message, Said
<1>8. rs \in Seq(Said) /\ Len(rs) = d /\ \A i \in 1..d : rs[i].role = "tool" /\ rs[i].ids = {done[i]}
  <2>1. s \in Nat BY CompactionAssumption
  <2>2. \A i \in 1..d : Message("tool", {done[i]}, s) \in Said
    BY <1>3, <1>6, <2>1 DEF Message, Said
  <2>3. rs \in [1..d -> Said] BY <2>2
  <2>4. rs \in Seq(Said) /\ Len(rs) = d BY <1>3, <2>3
  <2> QED BY <2>4 DEF Message
<1> HIDE DEF x, rs
<1>9. /\ new \in Seq(Said) /\ Len(new) = d + 1 /\ new[1] = x
      /\ \A i \in 1..d : new[i + 1] = rs[i]
  <2>1. <<x>> \in Seq(Said) /\ Len(<<x>>) = 1 /\ <<x>>[1] = x BY <1>7
  <2>2. /\ new \in Seq(Said) /\ Len(new) = Len(<<x>>) + Len(rs)
        /\ \A q \in 1..Len(<<x>>) : new[q] = <<x>>[q]
        /\ \A j \in 1..Len(rs) : new[Len(<<x>>) + j] = rs[j]
    BY <1>8, <2>1, Joined
  <2> HIDE DEF new
  <2>3. \A j \in 1..d : new[1 + j] = rs[j] /\ 1 + j = j + 1 BY <1>3, <1>8, <2>1, <2>2
  <2>4. 1 \in 1..Len(<<x>>) /\ 1 + d = d + 1 BY <1>3, <2>1
  <2> QED BY <1>8, <2>1, <2>2, <2>3, <2>4
<1> HIDE DEF new
<1>10. \A j \in 1..Len(new) : j = 1 \/ (j > 1 /\ j - 1 \in 1..d /\ new[j] = rs[j - 1])
  <2> TAKE j \in 1..Len(new)
  <2>1. j = 1 \/ (j > 1 /\ j - 1 \in 1..d /\ (j - 1) + 1 = j) BY <1>3, <1>9
  <2> QED BY <1>9, <2>1
\* A result of a call that does not wait.
<1>11. ASSUME NEW id \in named PROVE \E i \in 2..Len(new) : new[i].role = "tool" /\ id \in new[i].ids
  <2>1. PICK i \in 1..d : done[i] = id BY <1>3
  <2>2. i + 1 \in 2..Len(new) BY <1>3, <1>9
  <2>3. new[i + 1].role = "tool" /\ id \in new[i + 1].ids BY <1>8, <1>9, <2>1
  <2> QED BY <2>2, <2>3
<1>12. Len(log \o new) = Len(log) + Len(new) /\ (log \o new)[Len(log) + 1] = new[1] /\ Len(new) \in Nat
  <2>1. 1 \in 1..Len(new) BY <1>3, <1>9
  <2> QED BY <1>2, <1>9, <2>1, Joined
<1>13. ASSUME NEW id \in ids PROVE Called(log \o new, id) /\ id[1] > k
  <2>1. id[1] = p /\ p \in 1..Len(log \o new) /\ p > k
    BY <1>2, <1>3, <1>6, <1>9, <1>12
  <2>2. (log \o new)[p] = x BY <1>9, <1>12
  <2> QED BY <1>7, <2>1, <2>2 DEF Called
<1>14. \A j \in 1..Len(new) : new[j].role = "assistant" =>
         \A id \in new[j].ids :
           /\ id[1] = Len(log) + j
           /\ id \in waits \/ \E i \in (j + 1)..Len(new) : new[i].role = "tool" /\ id \in new[i].ids
  <2> SUFFICES ASSUME NEW j \in 1..Len(new), new[j].role = "assistant", NEW id \in new[j].ids
               PROVE  /\ id[1] = Len(log) + j
                      /\ id \in waits \/ \E i \in (j + 1)..Len(new) : new[i].role = "tool" /\ id \in new[i].ids
    OBVIOUS
  <2>1. j = 1 BY <1>8, <1>10
  <2>2. id \in ids BY <1>7, <1>9, <2>1
  <2>3. id \in waits \/ id \in named BY <1>6, <2>2
  <2> QED BY <1>6, <1>11, <2>1, <2>2, <2>3
<1>15. \A j \in 1..Len(new) : new[j].role = "tool" =>
         \A id \in new[j].ids : id[1] < Len(log) + j /\ Called(log \o new, id) /\ id[1] > k
  <2> SUFFICES ASSUME NEW j \in 1..Len(new), new[j].role = "tool", NEW id \in new[j].ids
               PROVE  id[1] < Len(log) + j /\ Called(log \o new, id) /\ id[1] > k
    OBVIOUS
  <2>1. j > 1 /\ j - 1 \in 1..d /\ new[j] = rs[j - 1] BY <1>7, <1>9, <1>10
  <2>2. id = done[j - 1] BY <1>8, <2>1
  <2>3. id \in ids BY <1>3, <1>6, <2>1, <2>2
  <2> QED BY <1>2, <1>6, <1>13, <2>1, <2>3
<1>16. \A id \in waits : Called(log \o new, id) /\ id[1] > k
  BY <1>6, <1>13
<1>17. Coherent(log \o new, k, waits)
  BY <1>2, <1>9, <1>14, <1>15, <1>16, GoesOn
<1>18. Len(log) + Len(new) <= MaxLog
  BY <1>1, <1>2, <1>3, <1>9
<1>19. /\ log' \in Seq(Said) /\ Len(log') <= MaxLog
       /\ compaction' = NoCheckpoint \/ compaction' \in 1..(Len(log') - 1)
       /\ ConversationKept'
  BY <1>1, <1>5, <1>9, <1>18, Grows
<1>20. log' # <<>>
  <2>1. Len(log') > 0 BY <1>2, <1>3, <1>5, <1>9, <1>12
  <2> QED BY <2>1
<1>21. phase' # "idle" => waits = {}
  BY <1>1 DEF waits
<1>22. Typed'
  BY <1>1, <1>6, <1>19, <1>20, <1>21 DEF Typed
<1> QED BY <1>1, <1>5, <1>17, <1>19, <1>22 DEF Inv, CoherenceInv, k

-----------------------------------------------------------------------------
(* The theorems.                                                           *)

LEMMA StepInv == Inv /\ [Next]_vars => Inv'
<1> SUFFICES ASSUME Inv, [Next]_vars PROVE Inv'
  OBVIOUS
<1>1. ASSUME NEW s \in Sizes, Say(Message("user", {}, s)) PROVE Inv'
  <2> DEFINE x == Message("user", {}, s)
  <2>1. x \in Said /\ x.role \in {"user", "command"} /\ x.ids = {} /\ Say(x)
    BY <1>1, CompactionAssumption DEF Message, Said
  <2> HIDE DEF x
  <2> QED BY <2>1, SayInv
<1>2. CASE Say(Command)
  <2>1. Command \in Said /\ Command.role \in {"user", "command"} /\ Command.ids = {}
    BY DEF Command, Message, Said
  <2> QED BY <1>2, <2>1, SayInv
<1>3. CASE Compact BY <1>3, CompactInv
<1>4. CASE Run BY <1>4, RunInv
<1>5. CASE ManualCompaction BY <1>5, ManualInv
<1>6. CASE ThresholdCompaction
  <2>1. CASE applyCompaction(messages) /\ phase' = "request" /\ log' = log
    BY <1>6, <2>1, ApplyInv DEF ThresholdCompaction
  <2>2. CASE CompactionFails
    BY <1>6, <2>2, SameInv DEF ThresholdCompaction, CompactionFails
  <2> QED BY <1>6, <2>1, <2>2 DEF ThresholdCompaction
<1>7. CASE NoCompaction
  BY <1>7, SameInv DEF NoCompaction
<1>8. CASE Overflow
  <2>1. CASE applyCompaction(messages) /\ phase' = phase /\ log' = log
    BY <1>8, <2>1, ApplyInv DEF Overflow
  <2>2. CASE CompactionFails
    BY <1>8, <2>2, SameInv DEF Overflow, CompactionFails
  <2> QED BY <1>8, <2>1, <2>2 DEF Overflow
<1>9. CASE RequestFails
  BY <1>9, SameInv DEF RequestFails
<1>10. ASSUME NEW n \in 0..2, NEW asks \in SUBSET (1..n), Answer(n, asks) PROVE Inv'
  BY <1>10, AnswerInv
<1>11. CASE UNCHANGED vars
  BY <1>11, SameInv DEF vars
<1> QED BY <1>1, <1>2, <1>3, <1>4, <1>5, <1>6, <1>7, <1>8, <1>9, <1>10, <1>11 DEF Next

LEMMA InvHolds == Spec => []Inv
<1>1. Init => Inv BY InitInv
<1>2. Inv /\ [Next]_vars => Inv' BY StepInv
<1> QED BY <1>1, <1>2, PTL DEF Spec

\* However often the conversation is compacted, by the caller, a command, the threshold or
\* an overflow, and however often the summarizer fails: the summary stands for the
\* beginning of it and the messages are the rest, in order (performCompaction).
THEOREM Kept == Spec => []ConversationKept
<1>1. Inv => ConversationKept BY DEF Inv
<1> QED BY <1>1, InvHolds, PTL

\* Agent.compact never cuts off a call whose approval is pending (findCompactionCut).
LEMMA InvKeepsPending ==
  ASSUME Inv PROVE PendingKept
<1> SUFFICES ASSUME NEW id \in pending PROVE id \in IdsOf(messages, "assistant")
  BY DEF PendingKept
<1>1. Called(log, id) /\ id[1] > Replaced(compaction)
  BY DEF Inv, CoherenceInv, Coherent
<1>2. log \in Seq(Said) /\ Len(log) \in Nat /\ Cuts(log, compaction) /\ messages = Mirror(log, compaction)
  BY Checkpoint, KeptIsMirror DEF Inv, Typed
<1>3. CASE compaction = NoCheckpoint
  <2>1. messages = log BY <1>2, <1>3 DEF Mirror
  <2>2. id[1] \in DOMAIN messages BY <1>1, <1>2, <2>1, LenProperties DEF Called
  <2> QED BY <1>1, <2>1, <2>2 DEF Called, IdsOf
<1>4. CASE compaction # NoCheckpoint
  <2> DEFINE i == id[1] - compaction + 1
  <2>1. compaction \in Nat /\ id[1] \in 1..Len(log) /\ id[1] > compaction
    BY <1>1, <1>4, Checkpoint DEF Called, Replaced
  <2>2. i \in 2..(Len(log) - compaction + 1) /\ i + compaction - 1 = id[1]
    BY <1>2, <2>1
  <2> HIDE DEF i
  <2>3. messages[i] = log[id[1]] /\ i \in 1..Len(messages) /\ DOMAIN messages = 1..Len(messages)
    <3>1. /\ messages \in Seq(Said \cup {Summary(SubSeq(log, 1, compaction))})
          /\ Len(messages) = Len(log) - compaction + 1
          /\ \A j \in 2..(Len(log) - compaction + 1) : messages[j] = log[j + compaction - 1]
      BY <1>2, <1>4, MirrorShape
    <3> QED BY <1>2, <2>1, <2>2, <3>1, LenProperties
  <2> QED BY <1>1, <2>3 DEF Called, IdsOf
<1> QED BY <1>3, <1>4

\* A call that waits for an approval stays in the conversation, whatever is compacted.
THEOREM PendingStays == Spec => []PendingKept
<1>1. Inv => PendingKept BY InvKeepsPending
<1> QED BY <1>1, InvHolds, PTL

\* Where the messages are in the conversation.
Offset == IF compaction = NoCheckpoint THEN 0 ELSE compaction - 1

LEMMA Places ==
  ASSUME Inv
  PROVE  /\ \E S : messages \in Seq(S)
         /\ Offset \in Nat
         /\ \A i \in 1..Len(messages) : messages[i].role \in {"assistant", "tool"} =>
              i + Offset \in 1..Len(log) /\ i + Offset > Replaced(compaction) /\ messages[i] = log[i + Offset]
         /\ \A q \in 1..Len(log) : q > Replaced(compaction) =>
              q - Offset \in 1..Len(messages) /\ messages[q - Offset] = log[q]
<1>1. log \in Seq(Said) /\ Len(log) \in Nat /\ Cuts(log, compaction) /\ messages = Mirror(log, compaction)
  BY Checkpoint, KeptIsMirror DEF Inv, Typed
<1>2. CASE compaction = NoCheckpoint
  <2>1. messages = log /\ Replaced(compaction) = 0 /\ Offset = 0 BY <1>1, <1>2 DEF Mirror, Replaced, Offset
  <2>2. \A i \in 1..Len(log) : i + 0 = i /\ i - 0 = i /\ i > 0 BY <1>1
  <2>3. \E S : messages \in Seq(S) BY <1>1, <2>1
  <2>4. \A i \in 1..Len(messages) : messages[i].role \in {"assistant", "tool"} =>
          i + Offset \in 1..Len(log) /\ i + Offset > Replaced(compaction) /\ messages[i] = log[i + Offset]
    BY <2>1, <2>2
  <2>5. \A q \in 1..Len(log) : q - Offset \in 1..Len(messages) /\ messages[q - Offset] = log[q]
    BY <2>1, <2>2
  <2> QED BY <2>1, <2>3, <2>4, <2>5
<1>3. CASE compaction # NoCheckpoint
  <2> DEFINE n == Len(log) - compaction + 1
  <2>1. compaction \in 1..Len(log) /\ Replaced(compaction) = compaction /\ Offset = compaction - 1
    BY <1>1, <1>3 DEF Cuts, Replaced, Offset
  <2>2. /\ messages \in Seq(Said \cup {Summary(SubSeq(log, 1, compaction))}) /\ Len(messages) = n
        /\ messages[1] = Summary(SubSeq(log, 1, compaction))
        /\ \A j \in 2..n : messages[j] = log[j + compaction - 1]
    BY <1>1, <1>3, MirrorShape
  <2>3. messages[1].role = "summary" BY <2>2 DEF Summary, Message
  <2>4. Offset \in Nat /\ \E S : messages \in Seq(S) BY <2>1, <2>2
  <2>5. ASSUME NEW i \in 1..Len(messages), messages[i].role \in {"assistant", "tool"}
        PROVE  i + Offset \in 1..Len(log) /\ i + Offset > Replaced(compaction) /\ messages[i] = log[i + Offset]
    <3>1. i # 1 BY <2>3, <2>5
    <3>2. i \in 2..n /\ i + compaction - 1 = i + Offset /\ i + Offset \in 1..Len(log) /\ i + Offset > compaction
      BY <1>1, <2>1, <2>2, <3>1
    <3> QED BY <2>1, <2>2, <3>2
  <2>6. ASSUME NEW q \in 1..Len(log), q > Replaced(compaction)
        PROVE  q - Offset \in 1..Len(messages) /\ messages[q - Offset] = log[q]
    <3>1. q - Offset \in 2..n /\ (q - Offset) + compaction - 1 = q /\ q - Offset \in 1..n
      BY <1>1, <2>1, <2>6
    <3> QED BY <2>2, <3>1
  <2> QED BY <2>4, <2>5, <2>6
<1> QED BY <1>2, <1>3

LEMMA IdsUpTo ==
  ASSUME NEW S, NEW l \in Seq(S), NEW i \in 1..Len(l), NEW j \in 1..i, NEW id, NEW role,
         l[j].role = role, id \in l[j].ids
  PROVE  id \in IdsOf(SubSeq(l, 1, i), role)
<1> DEFINE f == SubSeq(l, 1, i)
<1>1. Len(l) \in Nat /\ i \in Int /\ 1 \in Int /\ \A q \in 1..i : l[q] \in S
  BY LenProperties
<1>2. /\ f \in Seq(S) /\ Len(f) = IF 1 <= i THEN i - 1 + 1 ELSE 0
      /\ \A q \in 1..(i - 1 + 1) : f[q] = l[1 + q - 1]
  BY <1>1, SubSeqProperties
<1> HIDE DEF f
<1>3. Len(f) = i /\ j \in 1..(i - 1 + 1) /\ 1 + j - 1 = j
  BY <1>1, <1>2
<1>4. f[j] = l[j] /\ j \in DOMAIN f
  BY <1>2, <1>3, LenProperties
<1> QED BY <1>4 DEF IdsOf, f

LEMMA InvCoherent ==
  ASSUME Inv PROVE RequestCoherent
<1> SUFFICES ASSUME phase = "request", NEW i \in DOMAIN messages
             PROVE  /\ messages[i].role = "tool" => messages[i].ids \subseteq IdsOf(SubSeq(messages, 1, i), "assistant")
                    /\ messages[i].role = "assistant" => messages[i].ids \subseteq IdsOf(From(messages, i), "tool")
  BY DEF RequestCoherent
<1> DEFINE off == Offset
<1>1. /\ off \in Nat
      /\ \A n \in 1..Len(messages) : messages[n].role \in {"assistant", "tool"} =>
           n + off \in 1..Len(log) /\ n + off > Replaced(compaction) /\ messages[n] = log[n + off]
      /\ \A q \in 1..Len(log) : q > Replaced(compaction) =>
           q - off \in 1..Len(messages) /\ messages[q - off] = log[q]
  BY Places
<1> HIDE DEF off
<1>8. PICK S : messages \in Seq(S)
  BY Places
<1>2. pending = {} /\ Len(log) \in Nat /\ Replaced(compaction) \in Nat
  BY Checkpoint DEF Inv, Typed
<1>3. i \in 1..Len(messages) /\ Len(messages) \in Nat
  BY <1>8, LenProperties
<1> DEFINE q == i + off
           k == Replaced(compaction)
<1>4. messages[i].role \in {"assistant", "tool"} => q \in 1..Len(log) /\ q > k /\ messages[i] = log[q]
  BY <1>1, <1>3
<1>5. q \in 1..Len(log) => Answered(log, q, {}) /\ Following(log, q, k)
  BY <1>2 DEF Inv, CoherenceInv, Coherent
<1> HIDE DEF k
<1>6. ASSUME messages[i].role = "tool", NEW id \in messages[i].ids
      PROVE  id \in IdsOf(SubSeq(messages, 1, i), "assistant")
  <2>1. q \in 1..Len(log) /\ q > k /\ log[q].role = "tool" /\ id \in log[q].ids BY <1>4, <1>6
  <2> HIDE DEF q
  <2>2. id[1] < q /\ Called(log, id) /\ id[1] > k BY <1>5, <2>1 DEF Following
  <2>3. id[1] \in 1..Len(log) /\ log[id[1]].role = "assistant" /\ id \in log[id[1]].ids BY <2>2 DEF Called
  <2>4. id[1] - off \in 1..Len(messages) /\ messages[id[1] - off] = log[id[1]] BY <1>1, <2>2, <2>3 DEF k
  <2>5. id[1] - off \in 1..i BY <1>1, <1>3, <2>2, <2>3, <2>4 DEF q
  <2> DEFINE j == id[1] - off
  <2>6. j \in 1..i /\ messages[j].role = "assistant" /\ id \in messages[j].ids BY <2>3, <2>4, <2>5
  <2> HIDE DEF j
  <2> QED BY <1>8, <1>3, <2>6, IdsUpTo
<1>7. ASSUME messages[i].role = "assistant", NEW id \in messages[i].ids
      PROVE  id \in IdsOf(From(messages, i), "tool")
  <2>1. q \in 1..Len(log) /\ q > k /\ log[q].role = "assistant" /\ id \in log[q].ids BY <1>4, <1>7
  <2>2. PICK r \in (q + 1)..Len(log) : log[r].role = "tool" /\ id \in log[r].ids
    BY <1>5, <2>1 DEF Answered
  <2>3. r \in 1..Len(log) /\ r > k
    <3>1. k \in Nat BY <1>2 DEF k
    <3> QED BY <1>1, <1>2, <1>3, <2>1, <3>1
  <2>4. r - off \in 1..Len(messages) /\ messages[r - off] = log[r] BY <1>1, <2>3 DEF k
  <2>5. r - off \in i..Len(messages) BY <1>1, <1>2, <1>3, <2>3, <2>4
  <2>6. i \in 1..(Len(messages) + 1) BY <1>3
  <2> DEFINE j == r - off
  <2>7. j \in i..Len(messages) /\ messages[j].role = "tool" /\ id \in messages[j].ids BY <2>2, <2>4, <2>5
  <2> HIDE DEF j
  <2> QED BY <1>8, <2>6, <2>7, IdsFrom
<1> QED BY <1>6, <1>7

\* Every request holds a result for each tool call and, before each result, its call:
\* after any compactions, and with results that came after other messages (isValidCutRole,
\* hasValidToolCallResultPairs).
THEOREM Requested == Spec => []RequestCoherent
<1>1. Inv => RequestCoherent BY InvCoherent
<1> QED BY <1>1, InvHolds, PTL

-----------------------------------------------------------------------------
(* Parts from several sources, one after the other.                        *)

\* The recursion of FlattenSeq has its function.
LEMMA FlattenIs ==
  ASSUME NEW N \in Nat \ {0}, NEW seqs, Len(seqs) = N
  PROVE  \E g : /\ FlattenSeq(seqs) = g[N]
                /\ g = [i \in 1..N |-> IF i = 1 THEN seqs[i] ELSE g[i - 1] \o seqs[i]]
<1> DEFINE Solves(g, n) == g = [i \in 1..n |-> IF i = 1 THEN seqs[i] ELSE g[i - 1] \o seqs[i]]
           Bad == {n \in 1..N : ~\E g : Solves(g, n)}
<1>1. \E g : Solves(g, N)
  <2>1. Bad # {} => FALSE
    <3> SUFFICES ASSUME Bad # {} PROVE FALSE
      OBVIOUS
    <3>1. Bad \in SUBSET Nat
      <4> HIDE DEF Solves
      <4> QED
        OBVIOUS
    <3>2. PICK n \in Bad : \A y \in Bad : n <= y
      <4> HIDE DEF Bad
      <4> QED
        BY <3>1, Least
    <3>3. n \in 1..N /\ ~\E g : Solves(g, n)
      OBVIOUS
    <3>4. CASE n = 1
      <4> DEFINE g == [i \in 1..1 |-> seqs[1]]
      <4>1. g = [i \in 1..1 |-> IF i = 1 THEN seqs[i] ELSE g[i - 1] \o seqs[i]]
        <5>1. \A i \in 1..1 : i = 1
          OBVIOUS
        <5> QED
          BY <5>1
      <4>2. Solves(g, n)
        BY <3>4, <4>1
      <4> QED
        BY <3>3, <4>2
    <3>5. CASE n # 1
      <4>1. n - 1 \in 1..N /\ ~(n <= n - 1) /\ n \in Nat
        BY <3>3, <3>5
      <4>2. n - 1 \notin Bad
        <5> HIDE DEF Bad
        <5> QED
          BY <3>2, <4>1
      <4>3. PICK g : Solves(g, n - 1)
        BY <4>1, <4>2
      <4> DEFINE h == [i \in 1..n |-> IF i = n THEN g[n - 1] \o seqs[n] ELSE g[i]]
      <4>4. \A i \in 1..(n - 1) : g[i] = IF i = 1 THEN seqs[i] ELSE g[i - 1] \o seqs[i]
        BY <4>3
      <4>5. \A i \in 1..n : h[i] = IF i = 1 THEN seqs[i] ELSE h[i - 1] \o seqs[i]
        <5> TAKE i \in 1..n
        <5>1. CASE i = 1
          <6>1. 1 \in 1..(n - 1) /\ i # n
            BY <3>5, <4>1, <5>1
          <6> QED
            BY <4>4, <5>1, <6>1
        <5>2. CASE i # 1
          <6>1. i - 1 \in 1..(n - 1) /\ i - 1 \in 1..n /\ i - 1 # n
            BY <4>1, <5>2
          <6>2. h[i - 1] = g[i - 1]
            BY <6>1
          <6>3. CASE i = n
            BY <5>2, <6>2, <6>3
          <6>4. CASE i # n
            <7>1. i \in 1..(n - 1)
              BY <4>1, <6>4
            <7>2. h[i] = g[i]
              BY <6>4
            <7>3. g[i] = g[i - 1] \o seqs[i]
              BY <4>4, <5>2, <7>1
            <7> QED
              BY <5>2, <6>2, <7>2, <7>3
          <6> QED
            BY <6>3, <6>4
        <5> QED
          BY <5>1, <5>2
      <4>6. DOMAIN h = 1..n /\ h = [i \in 1..n |-> h[i]]
        OBVIOUS
      <4> HIDE DEF h
      <4>7. Solves(h, n)
        BY <4>5, <4>6
      <4> QED
        BY <3>3, <4>7
    <3> QED
      BY <3>4, <3>5
  <2> HIDE DEF Solves
  <2>2. N \in 1..N
    OBVIOUS
  <2> QED
    BY <2>1, <2>2
<1>2. FlattenSeq(seqs) = (CHOOSE g : Solves(g, N))[N]
  BY DEF FlattenSeq
<1>3. Solves((CHOOSE g : Solves(g, N)), N)
  BY <1>1
<1> QED
  BY <1>2, <1>3

LEMMA LeadsFlatten ==
  ASSUME NEW N \in Nat, NEW seqs, DOMAIN seqs = 1..N, seqs = [n \in 1..N |-> seqs[n]],
         NEW V, \A n \in 1..N : Leads(V[n - 1], seqs[n], V[n])
  PROVE  Leads(V[0], FlattenSeq(seqs), V[N])
<1>0. Len(seqs) = N
  <2>1. seqs \in [1..N -> {seqs[n] : n \in 1..N}]
    OBVIOUS
  <2>2. seqs \in Seq({seqs[n] : n \in 1..N})
    BY <2>1, SeqDef
  <2> QED
    BY <2>2, LenProperties
<1>1. CASE N = 0
  <2>1. seqs = <<>>
    BY <1>1, <1>0
  <2>2. FlattenSeq(seqs) = seqs
    BY <1>0, <1>1 DEF FlattenSeq
  <2> QED
    BY <1>1, <2>1, <2>2, LeadsNowhere
<1>2. CASE N # 0
  <2>0. N \in Nat \ {0}
    BY <1>2
  <2>1. PICK g : /\ FlattenSeq(seqs) = g[N]
                 /\ g = [i \in 1..N |-> IF i = 1 THEN seqs[i] ELSE g[i - 1] \o seqs[i]]
    BY <2>0, <1>0, FlattenIs
  <2> DEFINE Ok(n) == Leads(V[0], g[n], V[n])
             Bad == {n \in 1..N : ~Ok(n)}
  <2>2. Ok(1)
    <3>1. 1 \in 1..N /\ 1 - 1 = 0 /\ g[1] = seqs[1]
      BY <2>0, <2>1
    <3> QED
      BY <3>1
  <2>3. ASSUME NEW n \in 2..N, Ok(n - 1) PROVE Ok(n)
    <3>1. n \in 1..N /\ n # 1
      OBVIOUS
    <3>2. g[n] = g[n - 1] \o seqs[n]
      BY <2>1, <3>1
    <3> QED
      BY <2>3, <3>1, <3>2, LeadsOn
  <2> HIDE DEF Ok
  <2>4. Bad = {}
    <3> SUFFICES ASSUME Bad # {} PROVE FALSE
      OBVIOUS
    <3>1. PICK n \in Bad : \A m \in Bad : n <= m
      <4>1. Bad \in SUBSET Nat
        OBVIOUS
      <4> QED
        BY <4>1, Least
    <3>2. n # 1
      BY <2>2
    <3>3. n \in 2..N /\ n - 1 \in 1..N /\ ~(n <= n - 1)
      BY <3>2
    <3>4. Ok(n - 1)
      BY <3>1, <3>3
    <3> QED
      BY <3>3, <3>4, <2>3
  <2>5. Ok(N)
    BY <2>0, <2>4
  <2> QED
    BY <2>1, <2>5 DEF Ok
<1> QED
  BY <1>1, <1>2

\* What leads from one open stream to another fits any open stream that failed.
LEMMA LeadsFits ==
  ASSUME NEW s, NEW q, NEW t, Leads(s, q, t), s.phase = "open", t.phase = "open"
  PROVE  FitsAll(q) /\ \E S : q \in Seq(S)
<1>1. PICK S, V : /\ q \in Seq(S) /\ V[0] = s /\ V[Len(q)] = t
                  /\ \A k \in 1..Len(q) : Allowed(V[k - 1], q[k]) /\ V[k] = Apply(V[k - 1], q[k])
  BY DEF Leads
<1>2. Len(q) \in Nat
  BY <1>1, LenProperties
<1>3. ASSUME NEW k \in 1..Len(q) PROVE Fits(q[k])
  <2>1. Allowed(V[k - 1], q[k]) /\ V[k] = Apply(V[k - 1], q[k])
    BY <1>1
  <2>2. q[k].type # "finish"
    <3> SUFFICES ASSUME q[k].type = "finish" PROVE FALSE
      OBVIOUS
    <3>1. V[k].phase = "finished"
      BY <2>1 DEF Apply, State
    <3>2. k # Len(q)
      BY <3>1, <1>1
    <3>3. k + 1 \in 1..Len(q) /\ (k + 1) - 1 = k
      BY <3>2, <1>2
    <3>4. Allowed(V[k], q[k + 1])
      BY <3>3, <1>1
    <3> QED
      BY <3>1, <3>4 DEF Allowed
  <2>3. q[k].type # "stream-start"
    <3> SUFFICES ASSUME q[k].type = "stream-start" PROVE FALSE
      OBVIOUS
    <3>1. V[k - 1].phase = "fresh"
      BY <2>1 DEF Allowed
    <3>2. k - 1 # 0
      BY <3>1, <1>1
    <3>3. k - 1 \in 1..Len(q)
      BY <3>2, <1>2
    <3>4. Allowed(V[(k - 1) - 1], q[k - 1]) /\ V[k - 1] = Apply(V[(k - 1) - 1], q[k - 1])
      BY <3>3, <1>1
    <3>5. V[k - 1].phase # "fresh"
      BY <3>4 DEF Allowed, Apply, State
    <3> QED
      BY <3>1, <3>5
  <2> QED
    BY <2>1, <2>2, <2>3 DEF Fits, Allowed
<1> QED
  BY <1>1, <1>3 DEF FitsAll

-----------------------------------------------------------------------------
(* What is open and called in the attempt that runs, over what earlier      *)
(* attempts left.                                                          *)

OfAttempt(a) == {id \in Ids : Head(id) = a}
Past(a, old, gone) ==
  /\ \A b \in old : Head(b[2]) \in Nat /\ Head(b[2]) < a
  /\ \A id \in gone : Head(id) \in Nat /\ Head(id) < a
OwnBlocks(a, texts, thoughts, inputs) ==
  {<<"text", id>> : id \in texts} \cup {<<"reasoning", id>> : id \in thoughts}
  \cup {<<"tool-input", <<a, i>>>> : i \in inputs}
OwnCalls(a, made) == {<<a, i>> : i \in made}
Now(a, old, gone, texts, thoughts, inputs, made) ==
  State("open", old \cup OwnBlocks(a, texts, thoughts, inputs), gone \cup OwnCalls(a, made), FALSE)

LEMMA NowIs ==
  ASSUME NEW a, NEW old, NEW gone, NEW texts, NEW thoughts, NEW inputs, NEW made
  PROVE  /\ Now(a, old, gone, texts, thoughts, inputs, made).phase = "open"
         /\ Now(a, old, gone, texts, thoughts, inputs, made).errored = FALSE
         /\ Now(a, old, gone, texts, thoughts, inputs, made).open = old \cup OwnBlocks(a, texts, thoughts, inputs)
         /\ Now(a, old, gone, texts, thoughts, inputs, made).called = gone \cup OwnCalls(a, made)
         /\ Now(a, old, gone, texts, thoughts, inputs, made)
            = State("open", old \cup OwnBlocks(a, texts, thoughts, inputs), gone \cup OwnCalls(a, made), FALSE)
  BY DEF Now, State

LEMMA AttemptNames ==
  ASSUME NEW a \in Nat, NEW i \in Nat
  PROVE  <<a, i>> \in OfAttempt(a) /\ <<a, i>> \in Ids
<1>1. <<a, i>> \in Seq(Nat) /\ <<a, i>> # <<>> /\ Head(<<a, i>>) = a
  OBVIOUS
<1> QED
  BY <1>1 DEF OfAttempt, Ids, None

LEMMA NotPast ==
  ASSUME NEW a \in Nat, NEW old, NEW gone, Past(a, old, gone), NEW id \in OfAttempt(a), NEW kind
  PROVE  <<kind, id>> \notin old /\ id \notin gone /\ id \in Ids
<1>1. id \in Ids /\ Head(id) = a /\ ~(a < a)
  BY DEF OfAttempt
<1>2. <<kind, id>>[2] = id
  OBVIOUS
<1> QED
  BY <1>1, <1>2 DEF Past

LEMMA NoteLeads ==
  ASSUME NEW t, t.phase = "open", t.errored = FALSE, NEW type \in {"response-metadata", "source"},
         t = State(t.phase, t.open, t.called, t.errored)
  PROVE  Leads(t, <<Part(type, None)>>, t)
<1>1. Allowed(t, Part(type, None)) /\ Apply(t, Part(type, None)) = t
  BY NoteDoes
<1> QED
  BY <1>1, LeadsOne

LEMMA TextStarts ==
  ASSUME NEW a \in Nat, NEW old, NEW gone, Past(a, old, gone), NEW texts, NEW thoughts, NEW inputs, NEW made,
         NEW id \in OfAttempt(a), id \notin texts
  PROVE  Leads(Now(a, old, gone, texts, thoughts, inputs, made), <<Part("text-start", id)>>, Now(a, old, gone, texts \cup {id}, thoughts, inputs, made))
<1> DEFINE t == Now(a, old, gone, texts, thoughts, inputs, made)
           u == Now(a, old, gone, texts \cup {id}, thoughts, inputs, made)
<1>1. <<"text", id>> \notin old /\ id \in Ids
  BY NotPast
<1>2. /\ t.phase = "open" /\ t.errored = FALSE /\ t.open = old \cup OwnBlocks(a, texts, thoughts, inputs)
      /\ t.called = gone \cup OwnCalls(a, made)
  BY DEF Now, State
<1>3. <<"text", id>> \notin OwnBlocks(a, texts, thoughts, inputs)
  BY DEF OwnBlocks
<1>4. t.open \cup {<<"text", id>>} = old \cup OwnBlocks(a, texts \cup {id}, thoughts, inputs)
  BY <1>2 DEF OwnBlocks
<1>5. u = State("open", t.open \cup {<<"text", id>>}, t.called, t.errored)
  BY <1>2, <1>4 DEF Now
<1> HIDE DEF t, u
<1>6. KindOf("text-start") = "text" /\ "text-start" \in StartTypes
  BY KindsAre
<1>7. Allowed(t, Part("text-start", id)) /\ Apply(t, Part("text-start", id)) = u
  BY <1>1, <1>2, <1>3, <1>5, <1>6, StartDoes
<1>8. Leads(t, <<Part("text-start", id)>>, u)
  BY <1>7, LeadsOne
<1> QED
  BY <1>8 DEF t, u

LEMMA TextGrows ==
  ASSUME NEW a \in Nat, NEW old, NEW gone, Past(a, old, gone), NEW texts, NEW thoughts, NEW inputs, NEW made,
         NEW id \in OfAttempt(a), id \in texts
  PROVE  Leads(Now(a, old, gone, texts, thoughts, inputs, made), <<Part("text-delta", id)>>, Now(a, old, gone, texts, thoughts, inputs, made))
<1> DEFINE t == Now(a, old, gone, texts, thoughts, inputs, made)
<1>1. id \in Ids
  BY DEF OfAttempt
<1>0. <<"text", id>> \in old \cup OwnBlocks(a, texts, thoughts, inputs)
  BY DEF OwnBlocks
<1>2. /\ t.phase = "open" /\ t.errored = FALSE /\ <<"text", id>> \in t.open
      /\ t = State("open", t.open, t.called, t.errored)
  BY <1>0 DEF Now, State
<1> HIDE DEF t
<1>3. KindOf("text-delta") = "text" /\ "text-delta" \in DeltaTypes
  BY KindsAre
<1>4. Allowed(t, Part("text-delta", id)) /\ Apply(t, Part("text-delta", id)) = t
  BY <1>1, <1>2, <1>3, DeltaDoes
<1>5. Leads(t, <<Part("text-delta", id)>>, t)
  BY <1>4, LeadsOne
<1> QED
  BY <1>5 DEF t

LEMMA TextEnds ==
  ASSUME NEW a \in Nat, NEW old, NEW gone, Past(a, old, gone), NEW texts, NEW thoughts, NEW inputs, NEW made,
         NEW id \in OfAttempt(a), id \in texts
  PROVE  Leads(Now(a, old, gone, texts, thoughts, inputs, made), <<Part("text-end", id)>>, Now(a, old, gone, texts \ {id}, thoughts, inputs, made))
<1> DEFINE t == Now(a, old, gone, texts, thoughts, inputs, made)
           u == Now(a, old, gone, texts \ {id}, thoughts, inputs, made)
<1>1. <<"text", id>> \notin old /\ id \in Ids
  BY NotPast
<1>2. /\ t.phase = "open" /\ t.errored = FALSE /\ t.open = old \cup OwnBlocks(a, texts, thoughts, inputs)
      /\ t.called = gone \cup OwnCalls(a, made)
  BY DEF Now, State
<1>3. <<"text", id>> \in OwnBlocks(a, texts, thoughts, inputs)
  BY DEF OwnBlocks
<1>4. t.open \ {<<"text", id>>} = old \cup OwnBlocks(a, texts \ {id}, thoughts, inputs)
  BY <1>1, <1>2 DEF OwnBlocks
<1>5. u = State("open", t.open \ {<<"text", id>>}, t.called, t.errored)
  BY <1>2, <1>4 DEF Now
<1> HIDE DEF t, u
<1>6. KindOf("text-end") = "text" /\ "text-end" \in EndTypes
  BY KindsAre
<1>7. Allowed(t, Part("text-end", id)) /\ Apply(t, Part("text-end", id)) = u
  BY <1>1, <1>2, <1>3, <1>5, <1>6, EndDoes
<1>8. Leads(t, <<Part("text-end", id)>>, u)
  BY <1>7, LeadsOne
<1> QED
  BY <1>8 DEF t, u

LEMMA ThoughtStarts ==
  ASSUME NEW a \in Nat, NEW old, NEW gone, Past(a, old, gone), NEW texts, NEW thoughts, NEW inputs, NEW made,
         NEW id \in OfAttempt(a), id \notin thoughts
  PROVE  Leads(Now(a, old, gone, texts, thoughts, inputs, made), <<Part("reasoning-start", id)>>, Now(a, old, gone, texts, thoughts \cup {id}, inputs, made))
<1> DEFINE t == Now(a, old, gone, texts, thoughts, inputs, made)
           u == Now(a, old, gone, texts, thoughts \cup {id}, inputs, made)
<1>1. <<"reasoning", id>> \notin old /\ id \in Ids
  BY NotPast
<1>2. /\ t.phase = "open" /\ t.errored = FALSE /\ t.open = old \cup OwnBlocks(a, texts, thoughts, inputs)
      /\ t.called = gone \cup OwnCalls(a, made)
  BY DEF Now, State
<1>3. <<"reasoning", id>> \notin OwnBlocks(a, texts, thoughts, inputs)
  BY DEF OwnBlocks
<1>4. t.open \cup {<<"reasoning", id>>} = old \cup OwnBlocks(a, texts, thoughts \cup {id}, inputs)
  BY <1>2 DEF OwnBlocks
<1>5. u = State("open", t.open \cup {<<"reasoning", id>>}, t.called, t.errored)
  BY <1>2, <1>4 DEF Now
<1> HIDE DEF t, u
<1>6. KindOf("reasoning-start") = "reasoning" /\ "reasoning-start" \in StartTypes
  BY KindsAre
<1>7. Allowed(t, Part("reasoning-start", id)) /\ Apply(t, Part("reasoning-start", id)) = u
  BY <1>1, <1>2, <1>3, <1>5, <1>6, StartDoes
<1>8. Leads(t, <<Part("reasoning-start", id)>>, u)
  BY <1>7, LeadsOne
<1> QED
  BY <1>8 DEF t, u

LEMMA ThoughtGrows ==
  ASSUME NEW a \in Nat, NEW old, NEW gone, Past(a, old, gone), NEW texts, NEW thoughts, NEW inputs, NEW made,
         NEW id \in OfAttempt(a), id \in thoughts
  PROVE  Leads(Now(a, old, gone, texts, thoughts, inputs, made), <<Part("reasoning-delta", id)>>, Now(a, old, gone, texts, thoughts, inputs, made))
<1> DEFINE t == Now(a, old, gone, texts, thoughts, inputs, made)
<1>1. id \in Ids
  BY DEF OfAttempt
<1>0. <<"reasoning", id>> \in old \cup OwnBlocks(a, texts, thoughts, inputs)
  BY DEF OwnBlocks
<1>2. /\ t.phase = "open" /\ t.errored = FALSE /\ <<"reasoning", id>> \in t.open
      /\ t = State("open", t.open, t.called, t.errored)
  BY <1>0 DEF Now, State
<1> HIDE DEF t
<1>3. KindOf("reasoning-delta") = "reasoning" /\ "reasoning-delta" \in DeltaTypes
  BY KindsAre
<1>4. Allowed(t, Part("reasoning-delta", id)) /\ Apply(t, Part("reasoning-delta", id)) = t
  BY <1>1, <1>2, <1>3, DeltaDoes
<1>5. Leads(t, <<Part("reasoning-delta", id)>>, t)
  BY <1>4, LeadsOne
<1> QED
  BY <1>5 DEF t

LEMMA ThoughtEnds ==
  ASSUME NEW a \in Nat, NEW old, NEW gone, Past(a, old, gone), NEW texts, NEW thoughts, NEW inputs, NEW made,
         NEW id \in OfAttempt(a), id \in thoughts
  PROVE  Leads(Now(a, old, gone, texts, thoughts, inputs, made), <<Part("reasoning-end", id)>>, Now(a, old, gone, texts, thoughts \ {id}, inputs, made))
<1> DEFINE t == Now(a, old, gone, texts, thoughts, inputs, made)
           u == Now(a, old, gone, texts, thoughts \ {id}, inputs, made)
<1>1. <<"reasoning", id>> \notin old /\ id \in Ids
  BY NotPast
<1>2. /\ t.phase = "open" /\ t.errored = FALSE /\ t.open = old \cup OwnBlocks(a, texts, thoughts, inputs)
      /\ t.called = gone \cup OwnCalls(a, made)
  BY DEF Now, State
<1>3. <<"reasoning", id>> \in OwnBlocks(a, texts, thoughts, inputs)
  BY DEF OwnBlocks
<1>4. t.open \ {<<"reasoning", id>>} = old \cup OwnBlocks(a, texts, thoughts \ {id}, inputs)
  BY <1>1, <1>2 DEF OwnBlocks
<1>5. u = State("open", t.open \ {<<"reasoning", id>>}, t.called, t.errored)
  BY <1>2, <1>4 DEF Now
<1> HIDE DEF t, u
<1>6. KindOf("reasoning-end") = "reasoning" /\ "reasoning-end" \in EndTypes
  BY KindsAre
<1>7. Allowed(t, Part("reasoning-end", id)) /\ Apply(t, Part("reasoning-end", id)) = u
  BY <1>1, <1>2, <1>3, <1>5, <1>6, EndDoes
<1>8. Leads(t, <<Part("reasoning-end", id)>>, u)
  BY <1>7, LeadsOne
<1> QED
  BY <1>8 DEF t, u

LEMMA InputStarts ==
  ASSUME NEW a \in Nat, NEW old, NEW gone, Past(a, old, gone), NEW texts, NEW thoughts, NEW inputs, NEW made,
         NEW i \in Nat, i \notin inputs
  PROVE  Leads(Now(a, old, gone, texts, thoughts, inputs, made), <<Part("tool-input-start", <<a, i>>)>>, Now(a, old, gone, texts, thoughts, inputs \cup {i}, made))
<1> DEFINE t == Now(a, old, gone, texts, thoughts, inputs, made)
           u == Now(a, old, gone, texts, thoughts, inputs \cup {i}, made)
<1>1. <<"tool-input", <<a, i>>>> \notin old /\ <<a, i>> \in Ids
  BY NotPast, AttemptNames
<1>2. /\ t.phase = "open" /\ t.errored = FALSE /\ t.open = old \cup OwnBlocks(a, texts, thoughts, inputs)
      /\ t.called = gone \cup OwnCalls(a, made)
  BY DEF Now, State
<1>3. <<"tool-input", <<a, i>>>> \notin OwnBlocks(a, texts, thoughts, inputs)
  BY DEF OwnBlocks
<1>4. t.open \cup {<<"tool-input", <<a, i>>>>} = old \cup OwnBlocks(a, texts, thoughts, inputs \cup {i})
  BY <1>2 DEF OwnBlocks
<1>5. u = State("open", t.open \cup {<<"tool-input", <<a, i>>>>}, t.called, t.errored)
  BY <1>2, <1>4 DEF Now
<1> HIDE DEF t, u
<1>6. KindOf("tool-input-start") = "tool-input" /\ "tool-input-start" \in StartTypes
  BY KindsAre
<1>7. Allowed(t, Part("tool-input-start", <<a, i>>)) /\ Apply(t, Part("tool-input-start", <<a, i>>)) = u
  BY <1>1, <1>2, <1>3, <1>5, <1>6, StartDoes
<1>8. Leads(t, <<Part("tool-input-start", <<a, i>>)>>, u)
  BY <1>7, LeadsOne
<1> QED
  BY <1>8 DEF t, u

LEMMA InputGrows ==
  ASSUME NEW a \in Nat, NEW old, NEW gone, Past(a, old, gone), NEW texts, NEW thoughts, NEW inputs, NEW made,
         NEW i \in Nat, i \in inputs
  PROVE  Leads(Now(a, old, gone, texts, thoughts, inputs, made), <<Part("tool-input-delta", <<a, i>>)>>, Now(a, old, gone, texts, thoughts, inputs, made))
<1> DEFINE t == Now(a, old, gone, texts, thoughts, inputs, made)
<1>1. <<a, i>> \in Ids
  BY AttemptNames
<1>0. <<"tool-input", <<a, i>>>> \in old \cup OwnBlocks(a, texts, thoughts, inputs)
  BY DEF OwnBlocks
<1>2. /\ t.phase = "open" /\ t.errored = FALSE /\ <<"tool-input", <<a, i>>>> \in t.open
      /\ t = State("open", t.open, t.called, t.errored)
  BY <1>0 DEF Now, State
<1> HIDE DEF t
<1>3. KindOf("tool-input-delta") = "tool-input" /\ "tool-input-delta" \in DeltaTypes
  BY KindsAre
<1>4. Allowed(t, Part("tool-input-delta", <<a, i>>)) /\ Apply(t, Part("tool-input-delta", <<a, i>>)) = t
  BY <1>1, <1>2, <1>3, DeltaDoes
<1>5. Leads(t, <<Part("tool-input-delta", <<a, i>>)>>, t)
  BY <1>4, LeadsOne
<1> QED
  BY <1>5 DEF t

LEMMA InputEnds ==
  ASSUME NEW a \in Nat, NEW old, NEW gone, Past(a, old, gone), NEW texts, NEW thoughts, NEW inputs, NEW made,
         NEW i \in Nat, i \in inputs
  PROVE  Leads(Now(a, old, gone, texts, thoughts, inputs, made), <<Part("tool-input-end", <<a, i>>)>>, Now(a, old, gone, texts, thoughts, inputs \ {i}, made))
<1> DEFINE t == Now(a, old, gone, texts, thoughts, inputs, made)
           u == Now(a, old, gone, texts, thoughts, inputs \ {i}, made)
<1>1. <<"tool-input", <<a, i>>>> \notin old /\ <<a, i>> \in Ids
  BY NotPast, AttemptNames
<1>2. /\ t.phase = "open" /\ t.errored = FALSE /\ t.open = old \cup OwnBlocks(a, texts, thoughts, inputs)
      /\ t.called = gone \cup OwnCalls(a, made)
  BY DEF Now, State
<1>3. <<"tool-input", <<a, i>>>> \in OwnBlocks(a, texts, thoughts, inputs)
  BY DEF OwnBlocks
<1>4. t.open \ {<<"tool-input", <<a, i>>>>} = old \cup OwnBlocks(a, texts, thoughts, inputs \ {i})
  <2>1. OwnBlocks(a, texts, thoughts, inputs \ {i}) = OwnBlocks(a, texts, thoughts, inputs) \ {<<"tool-input", <<a, i>>>>}
    <3> DEFINE others == {<<"text", id>> : id \in texts} \cup {<<"reasoning", id>> : id \in thoughts}
               Blocks(js) == {<<"tool-input", <<a, j>>>> : j \in js}
    <3>1. \A j : <<"tool-input", <<a, j>>>> = <<"tool-input", <<a, i>>>> => j = i
      OBVIOUS
    <3>2. Blocks(inputs \ {i}) = Blocks(inputs) \ {<<"tool-input", <<a, i>>>>}
      BY <3>1
    <3>3. <<"tool-input", <<a, i>>>> \notin others
      OBVIOUS
    <3>4. \A js : OwnBlocks(a, texts, thoughts, js) = others \cup Blocks(js)
      BY DEF OwnBlocks
    <3> HIDE DEF others, Blocks
    <3> QED
      BY <3>2, <3>3, <3>4
  <2>2. ASSUME NEW mine, NEW b, b \notin old PROVE (old \cup mine) \ {b} = old \cup (mine \ {b})
    BY <2>2
  <2> QED
    BY <1>1, <1>2, <2>1, <2>2
<1>5. u = State("open", t.open \ {<<"tool-input", <<a, i>>>>}, t.called, t.errored)
  BY <1>2, <1>4 DEF Now
<1> HIDE DEF t, u
<1>6. KindOf("tool-input-end") = "tool-input" /\ "tool-input-end" \in EndTypes
  BY KindsAre
<1>7. Allowed(t, Part("tool-input-end", <<a, i>>)) /\ Apply(t, Part("tool-input-end", <<a, i>>)) = u
  BY <1>1, <1>2, <1>3, <1>5, <1>6, EndDoes
<1>8. Leads(t, <<Part("tool-input-end", <<a, i>>)>>, u)
  BY <1>7, LeadsOne
<1> QED
  BY <1>8 DEF t, u

LEMMA CallMade ==
  ASSUME NEW a \in Nat, NEW old, NEW gone, Past(a, old, gone), NEW texts, NEW thoughts, NEW inputs, NEW made,
         NEW i \in Nat, i \notin inputs, i \notin made, NEW data
  PROVE  Leads(Now(a, old, gone, texts, thoughts, inputs, made), <<PartOf("tool-call", <<a, i>>, data)>>, Now(a, old, gone, texts, thoughts, inputs, made \cup {i}))
<1> DEFINE t == Now(a, old, gone, texts, thoughts, inputs, made)
           u == Now(a, old, gone, texts, thoughts, inputs, made \cup {i})
<1>1. <<"tool-input", <<a, i>>>> \notin old /\ <<a, i>> \in Ids /\ <<a, i>> \notin gone
  BY NotPast, AttemptNames
<1>2. /\ t.phase = "open" /\ t.errored = FALSE /\ t.open = old \cup OwnBlocks(a, texts, thoughts, inputs)
      /\ t.called = gone \cup OwnCalls(a, made)
  BY DEF Now, State
<1>3. <<"tool-input", <<a, i>>>> \notin t.open
  BY <1>1, <1>2 DEF OwnBlocks
<1>4. <<a, i>> \notin t.called /\ t.called \cup {<<a, i>>} = gone \cup OwnCalls(a, made \cup {i})
  BY <1>1, <1>2 DEF OwnCalls
<1>5. u = State("open", t.open, t.called \cup {<<a, i>>}, t.errored)
  BY <1>2, <1>4 DEF Now
<1> HIDE DEF t, u
<1>6. Allowed(t, PartOf("tool-call", <<a, i>>, data)) /\ Apply(t, PartOf("tool-call", <<a, i>>, data)) = u
  BY <1>1, <1>2, <1>3, <1>4, <1>5, CallDoes
<1>7. Leads(t, <<PartOf("tool-call", <<a, i>>, data)>>, u)
  BY <1>6, LeadsOne
<1> QED
  BY <1>7 DEF t, u

-----------------------------------------------------------------------------
(* What a stream owes while an attempt runs.                               *)

OwedAt(m, q, a, texts, thoughts, inputs, made) ==
  \E old, gone, t : /\ Leads(m, q, t) /\ t.phase = "open" /\ t.errored \in BOOLEAN /\ Past(a, old, gone)
                    /\ ~t.errored => t = Now(a, old, gone, texts, thoughts, inputs, made)

\* Parts are enqueued.
LEMMA OwesOn ==
  ASSUME NEW m, NEW q, NEW a, NEW texts, NEW thoughts, NEW inputs, NEW made,
         OwedAt(m, q, a, texts, thoughts, inputs, made),
         NEW out, NEW texts2, NEW thoughts2, NEW inputs2, NEW made2,
         \A old, gone : Past(a, old, gone) =>
           Leads(Now(a, old, gone, texts, thoughts, inputs, made), out, Now(a, old, gone, texts2, thoughts2, inputs2, made2))
  PROVE  OwedAt(m, q \o out, a, texts2, thoughts2, inputs2, made2)
<1>1. PICK old, gone, t : /\ Leads(m, q, t) /\ t.phase = "open" /\ t.errored \in BOOLEAN /\ Past(a, old, gone)
                          /\ ~t.errored => t = Now(a, old, gone, texts, thoughts, inputs, made)
  BY DEF OwedAt
<1> DEFINE s == Now(a, old, gone, texts, thoughts, inputs, made)
           u == Now(a, old, gone, texts2, thoughts2, inputs2, made2)
<1>2. Leads(s, out, u)
  BY <1>1
<1>3. s.phase = "open" /\ u.phase = "open" /\ u.errored \in BOOLEAN
  BY DEF Now, State
<1> HIDE DEF s, u
<1>4. CASE ~t.errored
  <2>1. t = s
    BY <1>1, <1>4 DEF s
  <2>2. Leads(m, q \o out, u)
    BY <1>1, <1>2, <2>1, LeadsOn
  <2> QED
    BY <2>2, <1>1, <1>3 DEF OwedAt, u
<1>5. CASE t.errored
  <2>1. Failing(t)
    BY <1>1, <1>5 DEF Failing
  <2>2. FitsAll(out) /\ \E S : out \in Seq(S)
    BY <1>2, <1>3, LeadsFits
  <2>3. PICK w : Leads(t, out, w) /\ Failing(w)
    BY <2>1, <2>2, LeadsFailed
  <2>4. Leads(m, q \o out, w) /\ w.phase = "open" /\ w.errored = TRUE
    BY <2>3, <1>1, LeadsOn DEF Failing
  <2> QED
    BY <2>4, <1>1 DEF OwedAt
<1> QED
  BY <1>1, <1>4, <1>5

\* An error part is enqueued.
LEMMA OwesError ==
  ASSUME NEW m, NEW q, NEW a, NEW texts, NEW thoughts, NEW inputs, NEW made,
         OwedAt(m, q, a, texts, thoughts, inputs, made),
         NEW texts2, NEW thoughts2, NEW inputs2, NEW made2
  PROVE  OwedAt(m, q \o <<Part("error", None)>>, a, texts2, thoughts2, inputs2, made2)
<1>1. PICK old, gone, t : Leads(m, q, t) /\ t.phase = "open" /\ Past(a, old, gone)
  BY DEF OwedAt
<1> DEFINE p == Part("error", None)
<1>2. Allowed(t, p) /\ Failing(Apply(t, p))
  BY <1>1, ErrorDoes
<1> HIDE DEF p
<1>3. Leads(m, q \o <<p>>, Apply(t, p))
  BY <1>1, <1>2, LeadsOne, LeadsOn
<1>4. OwedAt(m, q \o <<p>>, a, texts2, thoughts2, inputs2, made2)
  BY <1>1, <1>2, <1>3 DEF OwedAt, Failing
<1> QED
  BY <1>4 DEF p

\* What is closed at the end, and the finish.
LEMMA OwesFinish ==
  ASSUME NEW m, NEW q, NEW a \in Nat, NEW texts, NEW thoughts, NEW inputs, NEW made,
         OwedAt(m, q, a, texts, thoughts, inputs, made),
         NEW out, NEW thoughts2, NEW inputs2, NEW made2, NEW data,
         \A old, gone : Past(a, old, gone) =>
           Leads(Now(a, old, gone, texts, thoughts, inputs, made), out, Now(a, old, gone, {}, thoughts2, inputs2, made2))
  PROVE  \E w : Leads(m, q \o (out \o <<PartOf("finish", <<a>>, data)>>), w)
<1> DEFINE p == PartOf("finish", <<a>>, data)
<1>1. PICK old, gone, t : /\ Leads(m, q, t) /\ t.phase = "open" /\ t.errored \in BOOLEAN /\ Past(a, old, gone)
                          /\ ~t.errored => t = Now(a, old, gone, texts, thoughts, inputs, made)
  BY DEF OwedAt
<1> DEFINE s == Now(a, old, gone, texts, thoughts, inputs, made)
           u == Now(a, old, gone, {}, thoughts2, inputs2, made2)
<1>2. Leads(s, out, u)
  BY <1>1
<1>3. s.phase = "open" /\ u.phase = "open"
  BY DEF Now, State
<1>4. \A b \in u.open : b[1] = "text" => Head(b[2]) # a
  <2>1. u.open = old \cup OwnBlocks(a, {}, thoughts2, inputs2)
    BY DEF Now, State
  <2>2. \A b \in OwnBlocks(a, {}, thoughts2, inputs2) : b[1] # "text"
    BY DEF OwnBlocks
  <2>3. \A b \in old : Head(b[2]) # a
    <3>1. \A x \in Nat : x < a => x # a
      OBVIOUS
    <3> QED
      BY <1>1, <3>1 DEF Past
  <2> HIDE DEF u
  <2> QED
    BY <2>1, <2>2, <2>3
<1>5. <<a>> \in Ids /\ Head(<<a>>) = a
  BY DEF Ids, None
<1> HIDE DEF s, u, p
<1>6. \E v : /\ Leads(t, out, v) /\ v.phase = "open"
             /\ ~v.errored => \A b \in v.open : b[1] = "text" => Head(b[2]) # a
  <2>1. CASE ~t.errored
    BY <2>1, <1>1, <1>2, <1>3, <1>4 DEF s
  <2>2. CASE t.errored
    <3>1. Failing(t)
      BY <1>1, <2>2 DEF Failing
    <3>2. FitsAll(out) /\ \E S : out \in Seq(S)
      BY <1>2, <1>3, LeadsFits
    <3> QED
      BY <3>1, <3>2, LeadsFailed DEF Failing
  <2> QED
    BY <1>1, <2>1, <2>2
<1>7. PICK v : /\ Leads(t, out, v) /\ v.phase = "open"
               /\ ~v.errored => \A b \in v.open : b[1] = "text" => Head(b[2]) # a
  BY <1>6
<1>8. Allowed(v, p)
  BY <1>5, <1>7, FinishDoes DEF p
<1>9. Leads(t, out \o <<p>>, Apply(v, p))
  BY <1>7, <1>8, LeadsOne, LeadsOn
<1>10. Leads(m, q \o (out \o <<p>>), Apply(v, p))
  BY <1>1, <1>9, LeadsOn
<1> QED
  BY <1>10 DEF p

\* The next attempt.
LEMMA OwesNext ==
  ASSUME NEW m, NEW q, NEW a \in Nat, NEW texts \in SUBSET OfAttempt(a), NEW thoughts \in SUBSET OfAttempt(a),
         NEW inputs \in SUBSET Nat, NEW made \in SUBSET Nat,
         OwedAt(m, q, a, texts, thoughts, inputs, made)
  PROVE  OwedAt(m, q, a + 1, {}, {}, {}, {})
<1>1. PICK old, gone, t : /\ Leads(m, q, t) /\ t.phase = "open" /\ t.errored \in BOOLEAN /\ Past(a, old, gone)
                          /\ ~t.errored => t = Now(a, old, gone, texts, thoughts, inputs, made)
  BY DEF OwedAt
<1> DEFINE o == old \cup OwnBlocks(a, texts, thoughts, inputs)
           g == gone \cup OwnCalls(a, made)
<1>2. OwnBlocks(a + 1, {}, {}, {}) = {} /\ OwnCalls(a + 1, {}) = {}
  BY DEF OwnBlocks, OwnCalls
<1>3. Past(a + 1, o, g)
  <2>1. \A b \in OwnBlocks(a, texts, thoughts, inputs) : Head(b[2]) = a
    <3>1. \A b \in OwnBlocks(a, texts, thoughts, inputs) : b[2] \in OfAttempt(a)
      BY AttemptNames DEF OwnBlocks
    <3> QED
      BY <3>1 DEF OfAttempt
  <2>2. \A id \in OwnCalls(a, made) : Head(id) = a
    <3>1. \A id \in OwnCalls(a, made) : id \in OfAttempt(a)
      BY AttemptNames DEF OwnCalls
    <3> QED
      BY <3>1 DEF OfAttempt
  <2>3. a < a + 1
    OBVIOUS
  <2>4. \A x \in Nat : x < a => x < a + 1
    OBVIOUS
  <2> QED
    BY <1>1, <2>1, <2>2, <2>3, <2>4 DEF Past
<1>4. ~t.errored => t = Now(a + 1, o, g, {}, {}, {}, {})
  <2>1. Now(a, old, gone, texts, thoughts, inputs, made) = State("open", o, g, FALSE)
    BY DEF Now
  <2>2. Now(a + 1, o, g, {}, {}, {}, {}) = State("open", o, g, FALSE)
    BY <1>2 DEF Now
  <2> QED
    BY <1>1, <2>1, <2>2
<1> HIDE DEF o, g
<1> QED
  BY <1>1, <1>3, <1>4 DEF OwedAt

-----------------------------------------------------------------------------
(* CopilotChat.                                                            *)

ChatParser(calls, first, reasoning, text, opaque, finish) ==
  [calls |-> calls, first |-> first, reasoning |-> reasoning, text |-> text, opaque |-> opaque, finish |-> finish]
ChatAnswer(totals, sent, begun, reasoning, content, opaque, finish) ==
  [totals |-> totals, sent |-> sent, begun |-> begun, reasoning |-> reasoning, content |-> content,
   opaque |-> opaque, finish |-> finish]
CallRecord(pieces, done) == [pieces |-> pieces, done |-> done]
CallRecords == {None} \cup {CallRecord(pieces, done) : pieces \in Nat, done \in BOOLEAN}

OpenIn(calls) == {k \in DOMAIN calls : calls[k] # None /\ ~calls[k].done}
DoneIn(calls) == {k \in DOMAIN calls : calls[k] # None /\ calls[k].done}
Only(if, id) == IF if THEN {id} ELSE {}

Answering ==
  \E totals \in Seq(Nat) : \E sent, begun, reasoning, content, opaque, finish :
    answer = ChatAnswer(totals, sent, begun, reasoning, content, opaque, finish)
Parsing ==
  \E calls \in [DOMAIN answer.totals -> CallRecords] : \E reasoning, text \in BOOLEAN : \E first, opaque, finish :
    parser = ChatParser(calls, first, reasoning, text, opaque, finish)
ChatTyped == Answering /\ Parsing
ChatOwed ==
  OwedAt(Mark(view), queue, 1, Only(parser.text, TextId), Only(parser.reasoning, TextId),
         OpenIn(parser.calls), DoneIn(parser.calls))
ChatInv == ChatTyped /\ ChatOwed

LEMMA ChatIs ==
  ASSUME ChatTyped
  PROVE  /\ answer.totals \in Seq(Nat) /\ DOMAIN answer.totals = 1..Len(answer.totals) /\ Len(answer.totals) \in Nat
         /\ parser.calls \in [DOMAIN answer.totals -> CallRecords] /\ parser.reasoning \in BOOLEAN /\ parser.text \in BOOLEAN
<1>1. PICK totals \in Seq(Nat) : \E sent, begun, reasoning, content, opaque, finish :
        answer = ChatAnswer(totals, sent, begun, reasoning, content, opaque, finish)
  BY DEF ChatTyped, Answering
<1>2. answer.totals = totals
  BY <1>1 DEF ChatAnswer
<1>3. DOMAIN answer.totals = 1..Len(answer.totals) /\ Len(answer.totals) \in Nat
  BY <1>1, <1>2, LenProperties
<1>4. PICK calls \in [DOMAIN answer.totals -> CallRecords] : \E reasoning, text \in BOOLEAN : \E first, opaque, finish :
        parser = ChatParser(calls, first, reasoning, text, opaque, finish)
  BY DEF ChatTyped, Parsing
<1>5. PICK reasoning \in BOOLEAN, text \in BOOLEAN : \E first, opaque, finish :
        parser = ChatParser(calls, first, reasoning, text, opaque, finish)
  BY <1>4
<1>6. parser.calls = calls /\ parser.reasoning = reasoning /\ parser.text = text
  BY <1>5 DEF ChatParser
<1> QED
  BY <1>1, <1>2, <1>3, <1>4, <1>5, <1>6

LEMMA TextIdIs == TextId \in OfAttempt(1) /\ \A k \in Nat : ToolId(k) = <<1, k>>
<1>1. 0 \in Nat /\ 1 \in Nat
  OBVIOUS
<1> QED
  BY <1>1, AttemptNames DEF TextId, ToolId

LEMMA RecordIs ==
  ASSUME NEW pieces, NEW done \in BOOLEAN
  PROVE  /\ CallRecord(pieces, done) # None /\ CallRecord(pieces, done).pieces = pieces
         /\ CallRecord(pieces, done).done = done
<1>1. "done" \in DOMAIN CallRecord(pieces, done) /\ DOMAIN None = 1..0
  BY DEF CallRecord, None
<1>2. "done" \notin 1..0
  OBVIOUS
<1>3. CallRecord(pieces, done) # None
  BY <1>1, <1>2
<1> QED
  BY <1>3 DEF CallRecord

\* The arguments of a call are complete: its input ends, and it is made.
LEMMA CallCompletes ==
  ASSUME NEW old, NEW gone, Past(1, old, gone), NEW texts, NEW thoughts, NEW inputs, NEW made,
         NEW k \in Nat, NEW call, k \in inputs, k \notin made
  PROVE  Leads(Now(1, old, gone, texts, thoughts, inputs, made), CompleteCall(call, k),
               Now(1, old, gone, texts, thoughts, inputs \ {k}, made \cup {k}))
<1> DEFINE p == Part("tool-input-end", <<1, k>>)
           data == CallWith(call.pieces = answer.totals[k])
           r == PartOf("tool-call", <<1, k>>, data)
           t == Now(1, old, gone, texts, thoughts, inputs, made)
           u == Now(1, old, gone, texts, thoughts, inputs \ {k}, made)
           v == Now(1, old, gone, texts, thoughts, inputs \ {k}, made \cup {k})
<1>1. CompleteCall(call, k) = <<p, r>>
  BY DEF CompleteCall, ToolId
<1>2. Leads(t, <<p>>, u)
  BY InputEnds
<1>3. k \notin inputs \ {k}
  OBVIOUS
<1> HIDE DEF data
<1>4. Leads(u, <<r>>, v)
  BY <1>3, CallMade
<1> HIDE DEF p, r, t, u, v
<1>5. Leads(t, <<p, r>>, v)
  BY <1>2, <1>4, LeadsOn, PairIs
<1> QED
  BY <1>1, <1>5 DEF t, v

LEMMA AfterIs ==
  ASSUME ChatTyped, NEW k \in DOMAIN answer.totals
  PROVE  LET call == parser.calls[k]
         IN  /\ k \in Nat /\ k \in DOMAIN parser.calls
             /\ call = None \/ \E pieces \in Nat, done \in BOOLEAN : call = CallRecord(pieces, done)
             /\ CallAfter(k) # None /\ CallAfter(k) \in CallRecords /\ CallAfter(k).done \in BOOLEAN
             /\ IF call # None /\ call.done THEN CallAfter(k).done = TRUE
                ELSE CallAfter(k).done = Parsable(Grown(call, k), k)
<1> DEFINE call == parser.calls[k]
           g == Grown(call, k)
           n == (IF call = None THEN 0 ELSE call.pieces) + (IF answer.sent[k] < answer.totals[k] THEN 1 ELSE 0)
<1>1. k \in Nat /\ k \in DOMAIN parser.calls /\ call \in CallRecords
  BY ChatIs
<1>2. call = None \/ \E pieces \in Nat, done \in BOOLEAN : call = CallRecord(pieces, done)
  BY <1>1 DEF CallRecords
<1>3. call # None => call.pieces \in Nat /\ call.done \in BOOLEAN
  BY <1>2, RecordIs
<1>4. n \in Nat
  <2> DEFINE x == IF call = None THEN 0 ELSE call.pieces
             y == IF answer.sent[k] < answer.totals[k] THEN 1 ELSE 0
  <2>1. x \in Nat
    BY <1>3
  <2>2. y \in Nat
    OBVIOUS
  <2> HIDE DEF x, y
  <2>3. x + y \in Nat
    BY <2>1, <2>2
  <2> QED
    BY <2>3 DEF x, y
<1>5. g = CallRecord(n, FALSE)
  BY DEF Grown, CallRecord
<1>6. Parsable(g, k) \in BOOLEAN
  BY DEF Parsable
<1>7. CASE call # None /\ call.done
  <2>1. CallAfter(k) = call
    BY <1>7 DEF CallAfter
  <2> QED
    BY <2>1, <1>1, <1>2, <1>3, <1>7
<1>8. CASE ~(call # None /\ call.done)
  <2> DEFINE b == Parsable(g, k)
  <2>1. CallAfter(k) = [g EXCEPT !.done = b]
    BY <1>8 DEF CallAfter
  <2> HIDE DEF b, n, g
  <2>2. CallAfter(k) = CallRecord(n, b)
    BY <2>1, <1>5 DEF CallRecord
  <2>3. b \in BOOLEAN
    BY <1>6 DEF b
  <2>4. CallAfter(k) # None /\ CallAfter(k).done = b /\ CallAfter(k) \in CallRecords
    BY <2>2, <2>3, <1>4, RecordIs DEF CallRecords
  <2> QED
    BY <2>3, <2>4, <1>1, <1>2, <1>8 DEF b, g
<1> QED
  BY <1>7, <1>8

\* The parts of one call, from where it was to where it is.
LEMMA CallLeads ==
  ASSUME ChatTyped, NEW k \in DOMAIN answer.totals, NEW old, NEW gone, Past(1, old, gone),
         NEW texts, NEW thoughts, NEW inputs, NEW made,
         k \in inputs <=> parser.calls[k] # None /\ ~parser.calls[k].done,
         k \in made <=> parser.calls[k] # None /\ parser.calls[k].done
  PROVE  Leads(Now(1, old, gone, texts, thoughts, inputs, made), PartsOfCall(k),
               Now(1, old, gone, texts, thoughts,
                   IF CallAfter(k).done THEN inputs \ {k} ELSE inputs \cup {k},
                   IF CallAfter(k).done THEN made \cup {k} ELSE made))
<1> DEFINE call == parser.calls[k]
           T(i, m) == Now(1, old, gone, texts, thoughts, i, m)
           end == T(IF CallAfter(k).done THEN inputs \ {k} ELSE inputs \cup {k},
                    IF CallAfter(k).done THEN made \cup {k} ELSE made)
<1>1. /\ k \in Nat /\ CallAfter(k).done \in BOOLEAN
      /\ call = None \/ \E pieces \in Nat, done \in BOOLEAN : call = CallRecord(pieces, done)
      /\ IF call # None /\ call.done THEN CallAfter(k).done = TRUE
         ELSE CallAfter(k).done = Parsable(Grown(call, k), k)
  BY AfterIs
<1>2. CASE call # None /\ call.done
  <2>1. PartsOfCall(k) = <<>>
    BY <1>2 DEF PartsOfCall
  <2>2. inputs \ {k} = inputs /\ made \cup {k} = made /\ CallAfter(k).done = TRUE
    BY <1>1, <1>2
  <2>3. end = T(inputs, made)
    BY <2>2
  <2>4. Leads(T(inputs, made), <<>>, T(inputs, made))
    BY LeadsNowhere
  <2> QED
    BY <2>1, <2>3, <2>4
<1>3. CASE ~(call # None /\ call.done)
  <2> DEFINE grown == Grown(call, k)
             begins == IF call = None THEN <<Part("tool-input-start", ToolId(k))>> ELSE << >>
             grows == IF call # None \/ grown.pieces > 0 THEN <<Part("tool-input-delta", ToolId(k))>> ELSE << >>
             ends == IF Parsable(grown, k) THEN CompleteCall(grown, k) ELSE << >>
             mid == inputs \cup {k}
  <2>1. PartsOfCall(k) = begins \o grows \o ends
    BY <1>3 DEF PartsOfCall, CallParts
  <2>2. ToolId(k) = <<1, k>>
    BY DEF ToolId
  <2>3. Leads(T(inputs, made), begins, T(mid, made))
    <3>1. CASE call = None
      <4>1. k \notin inputs
        BY <3>1
      <4>2. Leads(T(inputs, made), <<Part("tool-input-start", <<1, k>>)>>, T(mid, made))
        BY <4>1, <1>1, InputStarts
      <4> QED
        BY <4>2, <3>1, <2>2
    <3>2. CASE call # None
      <4>1. mid = inputs
        BY <3>2, <1>3
      <4> QED
        BY <4>1, <3>2, LeadsNowhere
    <3> QED
      BY <3>1, <3>2
  <2>4. Leads(T(mid, made), grows, T(mid, made))
    <3>1. Leads(T(mid, made), <<Part("tool-input-delta", <<1, k>>)>>, T(mid, made))
      <4>1. k \in mid
        OBVIOUS
      <4> HIDE DEF mid
      <4> QED
        BY <4>1, <1>1, InputGrows
    <3>2. Leads(T(mid, made), <<>>, T(mid, made))
      BY LeadsNowhere
    <3> HIDE DEF T, mid, grown
    <3> QED
      BY <3>1, <3>2, <2>2
  <2>5. k \in mid /\ k \notin made /\ mid \ {k} = inputs \ {k}
    BY <1>3
  <2>6. Leads(T(mid, made), ends, end)
    <3>1. CASE Parsable(grown, k)
      <4>1. CallAfter(k).done = TRUE
        BY <1>1, <1>3, <3>1
      <4>2. end = T(mid \ {k}, made \cup {k})
        BY <4>1, <2>5
      <4>3. Leads(T(mid, made), CompleteCall(grown, k), T(mid \ {k}, made \cup {k}))
        <5> HIDE DEF mid, grown
        <5> QED
          BY <2>5, <1>1, CallCompletes
      <4> HIDE DEF T, mid, grown, end
      <4> QED
        BY <4>2, <4>3, <3>1
    <3>2. CASE ~Parsable(grown, k)
      <4>1. CallAfter(k).done = FALSE
        BY <1>1, <1>3, <3>2 DEF Parsable
      <4>2. end = T(mid, made)
        BY <4>1
      <4> QED
        BY <4>2, <3>2, LeadsNowhere
    <3> QED
      BY <3>1, <3>2
  <2> HIDE DEF T, mid, grown, end, begins, grows, ends
  <2>7. Leads(T(inputs, made), begins \o grows \o ends, end)
    BY <2>3, <2>4, <2>6, LeadsOn
  <2> QED
    BY <2>1, <2>7 DEF T, end
<1> QED
  BY <1>2, <1>3

\* One call of a map of calls moves.
LEMMA CallMoves ==
  ASSUME NEW calls, NEW k \in DOMAIN calls, NEW x, x # None, x.done \in BOOLEAN,
         NEW next, DOMAIN next = DOMAIN calls, next[k] = x, \A j \in DOMAIN calls : j # k => next[j] = calls[j]
  PROVE  /\ OpenIn(next) = IF x.done THEN OpenIn(calls) \ {k} ELSE OpenIn(calls) \cup {k}
         /\ DoneIn(next) = IF x.done THEN DoneIn(calls) \cup {k} ELSE DoneIn(calls) \ {k}
<1>1. CASE x.done
  BY <1>1 DEF OpenIn, DoneIn
<1>2. CASE ~x.done
  BY <1>2 DEF OpenIn, DoneIn
<1> QED
  BY <1>1, <1>2

\* The calls after the first n pieces of a delta.
After(d, n) == [k \in DOMAIN parser.calls |-> IF \E m \in 1..n : d.calls[m] = k THEN CallAfter(k) ELSE parser.calls[k]]

LEMMA DeltaIs ==
  ASSUME ChatTyped, NEW d \in Deltas
  PROVE  /\ d.reasoning \in BOOLEAN /\ d.content \in BOOLEAN
         /\ Len(d.calls) \in Nat /\ DOMAIN d.calls = 1..Len(d.calls)
         /\ d.calls = <<>> <=> Len(d.calls) = 0
         /\ \A n \in DOMAIN d.calls : d.calls[n] \in DOMAIN answer.totals
         /\ \A m, n \in DOMAIN d.calls : d.calls[m] = d.calls[n] => m = n
<1>1. d.reasoning \in BOOLEAN /\ d.content \in BOOLEAN /\ d.calls \in {<< >>, <<1>>, <<2>>, <<1, 2>>}
  BY DEF Deltas
<1>2. \A n \in DOMAIN d.calls : d.calls[n] \in DOMAIN answer.totals
  BY DEF Deltas
<1>3. /\ Len(d.calls) \in Nat /\ DOMAIN d.calls = 1..Len(d.calls)
      /\ d.calls = <<>> <=> Len(d.calls) = 0
      /\ \A m, n \in DOMAIN d.calls : d.calls[m] = d.calls[n] => m = n
  <2> DEFINE c == d.calls
  <2> HIDE DEF c
  <2>1. c \in {<< >>, <<1>>, <<2>>, <<1, 2>>}
    BY <1>1 DEF c
  <2>2. c \in Seq(Nat)
    <3>1. << >> \in Seq(Nat) /\ <<1>> \in Seq(Nat) /\ <<2>> \in Seq(Nat) /\ <<1, 2>> \in Seq(Nat)
      OBVIOUS
    <3> QED
      BY <2>1, <3>1
  <2>3. Len(c) \in Nat /\ DOMAIN c = 1..Len(c)
    BY <2>2, LenProperties
  <2>4. c = <<>> <=> Len(c) = 0
    BY <2>2, EmptySeq
  <2>5. ASSUME NEW m \in DOMAIN c, NEW n \in DOMAIN c, c[m] = c[n] PROVE m = n
    <3>1. CASE c = <<>>
      BY <3>1, <2>3, <2>4
    <3>2. CASE c = <<1>> \/ c = <<2>>
      BY <3>2, <2>3
    <3>3. CASE c = <<1, 2>>
      BY <3>3, <2>3, <2>5
    <3> QED
      BY <2>1, <3>1, <3>2, <3>3
  <2> QED
    BY <2>3, <2>4, <2>5 DEF c
<1> QED
  BY <1>1, <1>2, <1>3

LEMMA CallsLead ==
  ASSUME ChatTyped, NEW d \in Deltas, NEW old, NEW gone, Past(1, old, gone), NEW texts, NEW thoughts
  PROVE  Leads(Now(1, old, gone, texts, thoughts, OpenIn(parser.calls), DoneIn(parser.calls)),
               FlattenSeq([n \in DOMAIN d.calls |-> PartsOfCall(d.calls[n])]),
               Now(1, old, gone, texts, thoughts, OpenIn(After(d, Len(d.calls))), DoneIn(After(d, Len(d.calls)))))
<1> DEFINE N == Len(d.calls)
           seqs == [n \in 1..N |-> PartsOfCall(d.calls[n])]
           V == [n \in 0..N |-> Now(1, old, gone, texts, thoughts, OpenIn(After(d, n)), DoneIn(After(d, n)))]
<1>1. /\ N \in Nat /\ DOMAIN d.calls = 1..N /\ \A n \in 1..N : d.calls[n] \in DOMAIN answer.totals
      /\ \A m, n \in 1..N : d.calls[m] = d.calls[n] => m = n
  BY DeltaIs
<1>2. parser.calls \in [DOMAIN answer.totals -> CallRecords]
  BY ChatIs
<1>3. ASSUME NEW n \in 1..N PROVE Leads(V[n - 1], seqs[n], V[n])
  <2> DEFINE k == d.calls[n]
             c == After(d, n - 1)
             e == After(d, n)
             I == OpenIn(c)
             M == DoneIn(c)
  <2>1. k \in DOMAIN answer.totals /\ k \in DOMAIN parser.calls
    BY <1>1, <1>2
  <2>2. n - 1 \in 0..N /\ n \in 0..N
    BY <1>1
  <2>3. V[n - 1] = Now(1, old, gone, texts, thoughts, I, M)
    BY <2>2
  <2>4. V[n] = Now(1, old, gone, texts, thoughts, OpenIn(e), DoneIn(e))
    BY <2>2
  <2>5. DOMAIN c = DOMAIN parser.calls /\ DOMAIN e = DOMAIN parser.calls
    BY DEF After
  <2>6. c[k] = parser.calls[k]
    <3>1. ~\E m \in 1..(n - 1) : d.calls[m] = k
      <4>1. \A m \in 1..(n - 1) : m \in 1..N /\ m # n
        BY <1>1
      <4> QED
        BY <4>1, <1>1
    <3> QED
      BY <3>1, <2>1 DEF After
  <2>7. e[k] = CallAfter(k)
    <3>1. n \in 1..n
      BY <1>1
    <3> QED
      BY <3>1, <2>1 DEF After
  <2>8. ASSUME NEW j \in DOMAIN parser.calls, j # k PROVE e[j] = c[j]
    <3>1. (\E m \in 1..n : d.calls[m] = j) <=> \E m \in 1..(n - 1) : d.calls[m] = j
      <4>1. \A m \in 1..n : m \in 1..(n - 1) \/ m = n
        BY <1>1
      <4>2. \A m \in 1..(n - 1) : m \in 1..n
        BY <1>1
      <4> QED
        BY <4>1, <4>2, <2>8
    <3> QED
      BY <3>1 DEF After
  <2>9. CallAfter(k) # None /\ CallAfter(k).done \in BOOLEAN
    BY <2>1, AfterIs
  <2> HIDE DEF c, e, k, V
  <2>10. /\ OpenIn(e) = IF CallAfter(k).done THEN OpenIn(c) \ {k} ELSE OpenIn(c) \cup {k}
         /\ DoneIn(e) = IF CallAfter(k).done THEN DoneIn(c) \cup {k} ELSE DoneIn(c) \ {k}
    BY <2>1, <2>5, <2>7, <2>8, <2>9, CallMoves
  <2>11. /\ k \in I <=> parser.calls[k] # None /\ ~parser.calls[k].done
         /\ k \in M <=> parser.calls[k] # None /\ parser.calls[k].done
    BY <2>1, <2>5, <2>6 DEF OpenIn, DoneIn
  <2> HIDE DEF I, M
  <2>12. Leads(Now(1, old, gone, texts, thoughts, I, M), PartsOfCall(k),
               Now(1, old, gone, texts, thoughts,
                   IF CallAfter(k).done THEN I \ {k} ELSE I \cup {k},
                   IF CallAfter(k).done THEN M \cup {k} ELSE M))
    BY <2>1, <2>11, CallLeads
  <2>13. ~CallAfter(k).done => k \notin M
    BY <2>1, <2>11 DEF CallAfter
  <2>14. /\ OpenIn(e) = IF CallAfter(k).done THEN I \ {k} ELSE I \cup {k}
         /\ DoneIn(e) = IF CallAfter(k).done THEN M \cup {k} ELSE M
    <3>1. ~CallAfter(k).done => M \ {k} = M
      BY <2>13
    <3> QED
      BY <2>10, <3>1 DEF I, M
  <2>15. seqs[n] = PartsOfCall(k)
    BY DEF k
  <2> HIDE DEF seqs
  <2> QED
    BY <2>3, <2>4, <2>12, <2>14, <2>15
<1>4. DOMAIN seqs = 1..N /\ seqs = [n \in 1..N |-> seqs[n]]
  OBVIOUS
<1>5. V[0] = Now(1, old, gone, texts, thoughts, OpenIn(parser.calls), DoneIn(parser.calls))
  <2>1. 0 \in 0..N
    BY <1>1
  <2>2. After(d, 0) = parser.calls
    <3>1. 1..0 = {}
      OBVIOUS
    <3>2. After(d, 0) = [k \in DOMAIN parser.calls |-> parser.calls[k]]
      BY <3>1 DEF After
    <3> QED
      BY <3>2, <1>2
  <2> QED
    BY <2>1, <2>2
<1>6. V[N] = Now(1, old, gone, texts, thoughts, OpenIn(After(d, N)), DoneIn(After(d, N)))
  <2>1. N \in 0..N
    BY <1>1
  <2> QED
    BY <2>1
<1>7. [n \in DOMAIN d.calls |-> PartsOfCall(d.calls[n])] = seqs
  BY <1>1
<1> HIDE DEF V, seqs
<1>8. Leads(V[0], FlattenSeq(seqs), V[N])
  BY <1>1, <1>3, <1>4, LeadsFlatten
<1> QED
  BY <1>5, <1>6, <1>7, <1>8

\* What a delta enqueues besides its calls.
LEMMA FirstLeads ==
  ASSUME NEW a, NEW old, NEW gone, NEW texts, NEW thoughts, NEW inputs, NEW made
  PROVE  Leads(Now(a, old, gone, texts, thoughts, inputs, made), FirstParts, Now(a, old, gone, texts, thoughts, inputs, made))
<1> DEFINE t == Now(a, old, gone, texts, thoughts, inputs, made)
<1>1. t.phase = "open" /\ t.errored = FALSE /\ t = State(t.phase, t.open, t.called, t.errored)
  BY DEF Now, State
<1> HIDE DEF t
<1>2. Leads(t, <<Part("response-metadata", None)>>, t)
  BY <1>1, NoteLeads
<1>3. Leads(t, <<>>, t)
  BY LeadsNowhere
<1>4. Leads(t, FirstParts, t)
  BY <1>2, <1>3 DEF FirstParts
<1> QED
  BY <1>4 DEF t

LEMMA ReasoningLeads ==
  ASSUME parser.reasoning \in BOOLEAN, NEW d, d.reasoning \in BOOLEAN,
         NEW old, NEW gone, Past(1, old, gone), NEW texts, NEW inputs, NEW made
  PROVE  Leads(Now(1, old, gone, texts, Only(parser.reasoning, TextId), inputs, made), ReasoningParts(d),
               Now(1, old, gone, texts, Only(ReasoningActive(d), TextId), inputs, made))
<1> DEFINE T(h) == Now(1, old, gone, texts, h, inputs, made)
<1>1. TextId \in OfAttempt(1)
  BY TextIdIs
<1>2. CASE ~d.reasoning
  <2>1. ReasoningParts(d) = <<>> /\ (ReasoningActive(d) = parser.reasoning)
    BY <1>2 DEF ReasoningParts, ReasoningActive
  <2> QED
    BY <2>1, LeadsNowhere
<1>3. CASE d.reasoning
  <2> DEFINE begins == IF parser.reasoning THEN << >> ELSE <<Part("reasoning-start", TextId)>>
             grows == <<Part("reasoning-delta", TextId)>>
  <2>1. ReasoningParts(d) = begins \o grows /\ Only(ReasoningActive(d), TextId) = {TextId}
    BY <1>3 DEF ReasoningParts, ReasoningActive, Only
  <2>2. Leads(T(Only(parser.reasoning, TextId)), begins, T({TextId}))
    <3>1. CASE parser.reasoning
      BY <3>1, LeadsNowhere DEF Only
    <3>2. CASE ~parser.reasoning
      <4>1. Leads(T({}), <<Part("reasoning-start", TextId)>>, T({} \cup {TextId}))
        <5>1. TextId \notin {}
          OBVIOUS
        <5> QED
          BY <1>1, <5>1, ThoughtStarts
      <4>2. {} \cup {TextId} = {TextId} /\ Only(parser.reasoning, TextId) = {}
        BY <3>2 DEF Only
      <4> QED
        BY <3>2, <4>1, <4>2
    <3> QED
      BY <3>1, <3>2
  <2>3. Leads(T({TextId}), grows, T({TextId}))
    <3>1. TextId \in {TextId}
      OBVIOUS
    <3> QED
      BY <1>1, <3>1, ThoughtGrows
  <2> HIDE DEF T, begins, grows
  <2>4. Leads(T(Only(parser.reasoning, TextId)), begins \o grows, T({TextId}))
    BY <2>2, <2>3, LeadsOn
  <2> QED
    BY <2>1, <2>4 DEF T
<1> QED
  BY <1>2, <1>3

\* The reasoning ends before something else begins.
LEMMA ThoughtMayEnd ==
  ASSUME NEW ends \in BOOLEAN, NEW active \in BOOLEAN, ends => active,
         NEW old, NEW gone, Past(1, old, gone), NEW texts, NEW inputs, NEW made
  PROVE  Leads(Now(1, old, gone, texts, Only(active, TextId), inputs, made),
               IF ends THEN <<Part("reasoning-end", TextId)>> ELSE << >>,
               Now(1, old, gone, texts, Only(active /\ ~ends, TextId), inputs, made))
<1>1. TextId \in OfAttempt(1)
  BY TextIdIs
<1>2. CASE ends
  <2>1. Leads(Now(1, old, gone, texts, {TextId}, inputs, made), <<Part("reasoning-end", TextId)>>,
              Now(1, old, gone, texts, {TextId} \ {TextId}, inputs, made))
    <3>1. TextId \in {TextId}
      OBVIOUS
    <3> QED
      BY <1>1, <3>1, ThoughtEnds
  <2>2. {TextId} \ {TextId} = {} /\ Only(active, TextId) = {TextId} /\ Only(active /\ ~ends, TextId) = {}
    BY <1>2 DEF Only
  <2> QED
    BY <1>2, <2>1, <2>2
<1>3. CASE ~ends
  <2>1. Only(active /\ ~ends, TextId) = Only(active, TextId)
    BY <1>3 DEF Only
  <2> QED
    BY <1>3, <2>1, LeadsNowhere
<1> QED
  BY <1>2, <1>3

LEMMA ContentLeads ==
  ASSUME parser.text \in BOOLEAN, parser.reasoning \in BOOLEAN, NEW d, d.content \in BOOLEAN, d.reasoning \in BOOLEAN,
         NEW old, NEW gone, Past(1, old, gone), NEW inputs, NEW made
  PROVE  Leads(Now(1, old, gone, Only(parser.text, TextId), Only(ReasoningActive(d), TextId), inputs, made), ContentParts(d),
               Now(1, old, gone, Only(parser.text \/ d.content, TextId), Only(ReasoningActive(d) /\ ~EndsBeforeText(d), TextId), inputs, made))
<1> DEFINE T(x, h) == Now(1, old, gone, x, h, inputs, made)
           thoughts == Only(ReasoningActive(d) /\ ~EndsBeforeText(d), TextId)
           texts == Only(parser.text, TextId)
<1>1. TextId \in OfAttempt(1) /\ ReasoningActive(d) \in BOOLEAN /\ EndsBeforeText(d) \in BOOLEAN
      /\ (EndsBeforeText(d) => ReasoningActive(d))
  BY TextIdIs DEF ReasoningActive, EndsBeforeText
<1>2. CASE ~d.content
  <2>1. ContentParts(d) = <<>> /\ ~EndsBeforeText(d)
    BY <1>2 DEF ContentParts, EndsBeforeText
  <2>2. thoughts = Only(ReasoningActive(d), TextId) /\ Only(parser.text \/ d.content, TextId) = texts
    BY <1>2, <2>1 DEF Only
  <2> HIDE DEF thoughts, texts
  <2>3. Leads(T(texts, thoughts), <<>>, T(texts, thoughts))
    BY LeadsNowhere
  <2> QED
    BY <2>1, <2>2, <2>3 DEF texts, thoughts
<1>3. CASE d.content
  <2> DEFINE closes == IF EndsBeforeText(d) THEN <<Part("reasoning-end", TextId)>> ELSE << >>
             begins == IF parser.text THEN << >> ELSE <<Part("text-start", TextId)>>
             grows == <<Part("text-delta", TextId)>>
  <2>1. ContentParts(d) = closes \o begins \o grows /\ Only(parser.text \/ d.content, TextId) = {TextId}
    BY <1>3 DEF ContentParts, Only
  <2>2. Leads(T(texts, Only(ReasoningActive(d), TextId)), closes, T(texts, thoughts))
    <3> DEFINE e == EndsBeforeText(d)
               r == ReasoningActive(d)
    <3> HIDE DEF texts, e, r
    <3>1. e \in BOOLEAN /\ r \in BOOLEAN /\ (e => r)
      BY <1>1 DEF e, r
    <3>2. Leads(T(texts, Only(r, TextId)), IF e THEN <<Part("reasoning-end", TextId)>> ELSE << >>, T(texts, Only(r /\ ~e, TextId)))
      BY <3>1, ThoughtMayEnd
    <3> QED
      BY <3>2 DEF e, r
  <2> HIDE DEF thoughts
  <2>3. Leads(T(texts, thoughts), begins, T({TextId}, thoughts))
    <3>1. CASE parser.text
      BY <3>1, LeadsNowhere DEF Only
    <3>2. CASE ~parser.text
      <4>1. Leads(T({}, thoughts), <<Part("text-start", TextId)>>, T({} \cup {TextId}, thoughts))
        <5>1. TextId \notin {}
          OBVIOUS
        <5> QED
          BY <1>1, <5>1, TextStarts
      <4>2. {} \cup {TextId} = {TextId} /\ texts = {}
        BY <3>2 DEF Only
      <4> QED
        BY <3>2, <4>1, <4>2
    <3> QED
      BY <3>1, <3>2
  <2>4. Leads(T({TextId}, thoughts), grows, T({TextId}, thoughts))
    <3>1. TextId \in {TextId}
      OBVIOUS
    <3> QED
      BY <1>1, <3>1, TextGrows
  <2> HIDE DEF T, closes, begins, grows, texts
  <2>5. Leads(T(texts, Only(ReasoningActive(d), TextId)), closes \o begins \o grows, T({TextId}, thoughts))
    BY <2>2, <2>3, <2>4, LeadsOn
  <2> QED
    BY <2>1, <2>5 DEF T, texts, thoughts
<1> QED
  BY <1>2, <1>3

LEMMA ToolsLead ==
  ASSUME ChatTyped, NEW d \in Deltas, NEW old, NEW gone, Past(1, old, gone), NEW texts
  PROVE  Leads(Now(1, old, gone, texts, Only(ReasoningActive(d) /\ ~EndsBeforeText(d), TextId),
                   OpenIn(parser.calls), DoneIn(parser.calls)),
               ToolParts(d),
               Now(1, old, gone, texts, Only(ReasoningActive(d) /\ ~EndsBeforeText(d) /\ d.calls = << >>, TextId),
                   OpenIn(After(d, Len(d.calls))), DoneIn(After(d, Len(d.calls)))))
<1> DEFINE active == ReasoningActive(d) /\ ~EndsBeforeText(d)
           ends == EndsBeforeCalls(d)
           closes == IF ends THEN <<Part("reasoning-end", TextId)>> ELSE << >>
           calls == FlattenSeq([n \in DOMAIN d.calls |-> PartsOfCall(d.calls[n])])
           I == OpenIn(parser.calls)
           M == DoneIn(parser.calls)
           s == Now(1, old, gone, texts, Only(active, TextId), I, M)
           t == Now(1, old, gone, texts, Only(active /\ ~ends, TextId), I, M)
           u == Now(1, old, gone, texts, Only(active /\ ~ends, TextId), OpenIn(After(d, Len(d.calls))), DoneIn(After(d, Len(d.calls))))
<1>1. active \in BOOLEAN /\ ends \in BOOLEAN /\ (ends <=> active /\ d.calls # << >>)
  BY ChatIs, DeltaIs DEF ReasoningActive, EndsBeforeText, EndsBeforeCalls
<1>2. Leads(s, closes, t)
  <2> HIDE DEF active, ends, I, M
  <2>1. Leads(Now(1, old, gone, texts, Only(active, TextId), I, M), IF ends THEN <<Part("reasoning-end", TextId)>> ELSE << >>,
              Now(1, old, gone, texts, Only(active /\ ~ends, TextId), I, M))
    BY <1>1, ThoughtMayEnd
  <2> QED
    BY <2>1
<1>3. Leads(t, calls, u)
  <2> DEFINE h == Only(active /\ ~ends, TextId)
  <2> HIDE DEF h
  <2>1. Leads(Now(1, old, gone, texts, h, OpenIn(parser.calls), DoneIn(parser.calls)),
              FlattenSeq([n \in DOMAIN d.calls |-> PartsOfCall(d.calls[n])]),
              Now(1, old, gone, texts, h, OpenIn(After(d, Len(d.calls))), DoneIn(After(d, Len(d.calls)))))
    BY CallsLead
  <2> QED
    BY <2>1 DEF h
<1>4. ToolParts(d) = closes \o calls
  BY DEF ToolParts
<1>5. u = Now(1, old, gone, texts, Only(ReasoningActive(d) /\ ~EndsBeforeText(d) /\ d.calls = << >>, TextId),
              OpenIn(After(d, Len(d.calls))), DoneIn(After(d, Len(d.calls))))
  <2>1. Only(active /\ ~ends, TextId) = Only(ReasoningActive(d) /\ ~EndsBeforeText(d) /\ d.calls = << >>, TextId)
    <3>1. (active /\ ~ends) <=> (ReasoningActive(d) /\ ~EndsBeforeText(d) /\ d.calls = << >>)
      BY <1>1
    <3> QED
      BY <3>1 DEF Only
  <2> QED
    BY <2>1
<1> HIDE DEF s, t, u, closes, calls
<1>6. Leads(s, closes \o calls, u)
  BY <1>2, <1>3, LeadsOn
<1> QED
  BY <1>4, <1>5, <1>6 DEF s

LEMMA AdvancedIs == ASSUME Answering, NEW d, answer' = Advanced(d) PROVE Answering' /\ answer'.totals = answer.totals
<1>1. PICK totals \in Seq(Nat) : \E sent, begun, reasoning, content, opaque, finish :
        answer = ChatAnswer(totals, sent, begun, reasoning, content, opaque, finish)
  BY DEF Answering
<1>2. PICK sent, begun, reasoning, content, opaque, finish :
        answer = ChatAnswer(totals, sent, begun, reasoning, content, opaque, finish)
  BY <1>1
<1>5. \E a, b, c, e, f : answer' = ChatAnswer(totals, a, b, c, e, f, finish)
  <2> DEFINE a == [k \in DOMAIN answer.sent |->
                     IF \E n \in DOMAIN d.calls : d.calls[n] = k /\ answer.sent[k] < answer.totals[k]
                     THEN answer.sent[k] + 1 ELSE answer.sent[k]]
             b == Len(SelectSeq(d.calls, LAMBDA k : k > answer.begun)) + answer.begun
             c == IF d.reasoning THEN answer.reasoning + 1 ELSE answer.reasoning
             e == IF d.content THEN answer.content + 1 ELSE answer.content
             f == answer.opaque \/ d.opaque
  <2>1. answer' = [answer EXCEPT !.sent = a, !.begun = b, !.reasoning = c, !.content = e, !.opaque = f]
    BY DEF Advanced
  <2> HIDE DEF a, b, c, e, f
  <2>2. answer' = ChatAnswer(totals, a, b, c, e, f, finish)
    BY <1>2, <2>1 DEF ChatAnswer
  <2> QED
    BY <2>2
<1>6. answer'.totals = totals /\ answer.totals = totals
  BY <1>2, <1>5 DEF ChatAnswer
<1> QED
  BY <1>1, <1>5, <1>6 DEF Answering

LEMMA ParsingNext ==
  ASSUME ChatTyped, Answering', answer'.totals = answer.totals,
         NEW calls \in [DOMAIN answer.totals -> CallRecords], NEW reasoning \in BOOLEAN, NEW text \in BOOLEAN,
         NEW first, NEW opaque, NEW finish, parser' = ChatParser(calls, first, reasoning, text, opaque, finish)
  PROVE  ChatTyped' /\ parser'.calls = calls /\ parser'.reasoning = reasoning /\ parser'.text = text
<1>1. calls \in [DOMAIN answer'.totals -> CallRecords]
  OBVIOUS
<1>2. Parsing'
  BY <1>1 DEF Parsing
<1>3. parser'.calls = calls /\ parser'.reasoning = reasoning /\ parser'.text = text
  BY DEF ChatParser
<1> QED
  BY <1>2, <1>3 DEF ChatTyped

LEMMA DeltaKeeps == ASSUME ChatInv, NEW d \in Deltas, DeltaChunk(d) PROVE ChatInv'
<1> DEFINE C == After(d, Len(d.calls))
           r == ReasoningActive(d) /\ ~EndsBeforeText(d) /\ d.calls = << >>
           x == parser.text \/ d.content
           out == FirstParts \o ReasoningParts(d) \o ContentParts(d) \o ToolParts(d)
<1>0. ChatTyped /\ parser.reasoning \in BOOLEAN /\ parser.text \in BOOLEAN /\ d.reasoning \in BOOLEAN /\ d.content \in BOOLEAN
  BY ChatIs, DeltaIs DEF ChatInv
<1>1. UNCHANGED view /\ answer' = Advanced(d) /\ queue' = queue \o out
  BY DEF DeltaChunk, Emit
<1>2. Answering' /\ answer'.totals = answer.totals
  BY <1>0, <1>1, AdvancedIs DEF ChatTyped
<1>3. C \in [DOMAIN answer.totals -> CallRecords]
  <2>1. parser.calls \in [DOMAIN answer.totals -> CallRecords]
    BY <1>0, ChatIs
  <2>2. \A k \in DOMAIN answer.totals : CallAfter(k) \in CallRecords
    BY <1>0, AfterIs
  <2> QED
    BY <2>1, <2>2 DEF After
<1>4. r \in BOOLEAN /\ x \in BOOLEAN
  BY <1>0
<1>5. \E first, opaque, finish : parser' = ChatParser(C, first, r, x, opaque, finish)
  <2>1. PICK calls, first, reasoning, text, opaque, finish : parser = ChatParser(calls, first, reasoning, text, opaque, finish)
    BY <1>0 DEF ChatTyped, Parsing
  <2>2. [k \in DOMAIN parser.calls |-> IF k \in ToSet(d.calls) THEN CallAfter(k) ELSE parser.calls[k]] = C
    <3>1. DOMAIN d.calls = 1..Len(d.calls)
      BY <1>0, DeltaIs
    <3>2. \A k : k \in ToSet(d.calls) <=> \E m \in 1..Len(d.calls) : d.calls[m] = k
      BY <3>1 DEF ToSet
    <3> QED
      BY <3>2 DEF After
  <2>3. parser' = [parser EXCEPT !.first = FALSE, !.opaque = parser.opaque \/ d.opaque, !.reasoning = r,
                                 !.text = x, !.calls = C]
    BY <2>2 DEF DeltaChunk
  <2> HIDE DEF r, x, C
  <2>4. parser' = ChatParser(C, FALSE, r, x, parser.opaque \/ d.opaque, finish)
    BY <2>1, <2>3 DEF ChatParser
  <2> QED
    BY <2>4
<1> HIDE DEF r, x, C
<1>6. ChatTyped' /\ parser'.calls = C /\ parser'.reasoning = r /\ parser'.text = x
  BY <1>0, <1>2, <1>3, <1>4, <1>5, ParsingNext
<1>7. \A old, gone : Past(1, old, gone) =>
        Leads(Now(1, old, gone, Only(parser.text, TextId), Only(parser.reasoning, TextId), OpenIn(parser.calls), DoneIn(parser.calls)),
              out,
              Now(1, old, gone, Only(x, TextId), Only(r, TextId), OpenIn(C), DoneIn(C)))
  <2> SUFFICES ASSUME NEW old, NEW gone, Past(1, old, gone)
               PROVE  Leads(Now(1, old, gone, Only(parser.text, TextId), Only(parser.reasoning, TextId), OpenIn(parser.calls), DoneIn(parser.calls)),
                            out,
                            Now(1, old, gone, Only(x, TextId), Only(r, TextId), OpenIn(C), DoneIn(C)))
    OBVIOUS
  <2> DEFINE I == OpenIn(parser.calls)
             M == DoneIn(parser.calls)
             T(t, h) == Now(1, old, gone, Only(t, TextId), Only(h, TextId), I, M)
             end == Now(1, old, gone, Only(x, TextId), Only(r, TextId), OpenIn(C), DoneIn(C))
             mid == ReasoningActive(d) /\ ~EndsBeforeText(d)
  <2>1. Leads(T(parser.text, parser.reasoning), FirstParts, T(parser.text, parser.reasoning))
    BY FirstLeads
  <2>2. Leads(T(parser.text, parser.reasoning), ReasoningParts(d), T(parser.text, ReasoningActive(d)))
    <3> HIDE DEF I, M
    <3> QED
      BY <1>0, ReasoningLeads
  <2>3. Leads(T(parser.text, ReasoningActive(d)), ContentParts(d), T(x, mid))
    <3> HIDE DEF I, M
    <3>1. Leads(Now(1, old, gone, Only(parser.text, TextId), Only(ReasoningActive(d), TextId), I, M), ContentParts(d),
                Now(1, old, gone, Only(parser.text \/ d.content, TextId), Only(ReasoningActive(d) /\ ~EndsBeforeText(d), TextId), I, M))
      BY <1>0, ContentLeads
    <3> QED
      BY <3>1 DEF x
  <2>4. Leads(T(x, mid), ToolParts(d), end)
    <3> DEFINE t == Only(x, TextId)
    <3> HIDE DEF t
    <3>1. Leads(Now(1, old, gone, t, Only(ReasoningActive(d) /\ ~EndsBeforeText(d), TextId), OpenIn(parser.calls), DoneIn(parser.calls)),
                ToolParts(d),
                Now(1, old, gone, t, Only(ReasoningActive(d) /\ ~EndsBeforeText(d) /\ d.calls = << >>, TextId),
                    OpenIn(After(d, Len(d.calls))), DoneIn(After(d, Len(d.calls)))))
      BY <1>0, ToolsLead
    <3> QED
      BY <3>1 DEF t, r, C
  <2> HIDE DEF T, end, mid
  <2>5. Leads(T(parser.text, parser.reasoning), out, end)
    BY <2>1, <2>2, <2>3, <2>4, LeadsOn
  <2> QED
    BY <2>5 DEF T, end
<1> HIDE DEF out
<1>8. OwedAt(Mark(view), queue \o out, 1, Only(x, TextId), Only(r, TextId), OpenIn(C), DoneIn(C))
  BY <1>7, OwesOn DEF ChatInv, ChatOwed
<1>9. ChatOwed'
  BY <1>1, <1>6, <1>8 DEF ChatOwed
<1> QED
  BY <1>6, <1>9 DEF ChatInv

\* The calls still open at the end are made, one after the other.
LEMMA UnfinishedLead ==
  ASSUME ChatTyped, NEW old, NEW gone, Past(1, old, gone), NEW texts, NEW thoughts
  PROVE  Leads(Now(1, old, gone, texts, thoughts, OpenIn(parser.calls), DoneIn(parser.calls)), UnfinishedParts,
               Now(1, old, gone, texts, thoughts, OpenIn(parser.calls) \ 1..Len(answer.totals),
                   DoneIn(parser.calls) \cup (OpenIn(parser.calls) \cap 1..Len(answer.totals))))
<1> DEFINE N == Len(answer.totals)
           I == OpenIn(parser.calls)
           M == DoneIn(parser.calls)
           seqs == [k \in 1..N |-> IF parser.calls[k] # None /\ ~parser.calls[k].done
                                   THEN CompleteCall(parser.calls[k], k) ELSE << >>]
           V == [k \in 0..N |-> Now(1, old, gone, texts, thoughts, I \ 1..k, M \cup (I \cap 1..k))]
<1>1. N \in Nat /\ DOMAIN parser.calls = 1..N
  BY ChatIs
<1>2. \A k \in 1..N : /\ k \in I <=> parser.calls[k] # None /\ ~parser.calls[k].done
                      /\ k \in I => k \notin M
  BY <1>1 DEF OpenIn, DoneIn
<1> HIDE DEF I, M
<1>3. ASSUME NEW k \in 1..N PROVE Leads(V[k - 1], seqs[k], V[k])
  <2> DEFINE J == I \ 1..(k - 1)
             L == M \cup (I \cap 1..(k - 1))
  <2>1. k \in Nat /\ k - 1 \in 0..N /\ k \in 0..N /\ k \notin 1..(k - 1)
    BY <1>1
  <2>2. 1..k = (1..(k - 1)) \cup {k}
    BY <1>1
  <2>3. V[k - 1] = Now(1, old, gone, texts, thoughts, J, L)
    BY <2>1
  <2>4. V[k] = Now(1, old, gone, texts, thoughts, I \ 1..k, M \cup (I \cap 1..k))
    BY <2>1
  <2>5. CASE k \in I
    <3>1. k \in J /\ k \notin L
      BY <1>2, <2>1, <2>5
    <3>2. I \ 1..k = J \ {k} /\ M \cup (I \cap 1..k) = L \cup {k}
      BY <2>2, <2>5
    <3>3. seqs[k] = CompleteCall(parser.calls[k], k)
      BY <1>2, <2>5
    <3> HIDE DEF J, L, V, seqs
    <3>4. Leads(Now(1, old, gone, texts, thoughts, J, L), CompleteCall(parser.calls[k], k),
                Now(1, old, gone, texts, thoughts, J \ {k}, L \cup {k}))
      <4> DEFINE call == parser.calls[k]
      <4> HIDE DEF call
      <4>1. Leads(Now(1, old, gone, texts, thoughts, J, L), CompleteCall(call, k),
                  Now(1, old, gone, texts, thoughts, J \ {k}, L \cup {k}))
        BY <2>1, <3>1, CallCompletes
      <4> QED
        BY <4>1 DEF call
    <3> QED
      BY <2>3, <2>4, <3>2, <3>3, <3>4
  <2>6. CASE k \notin I
    <3>1. I \ 1..k = J /\ M \cup (I \cap 1..k) = L
      BY <2>2, <2>6
    <3>2. seqs[k] = <<>>
      BY <1>2, <2>6
    <3> HIDE DEF J, L, V, seqs
    <3> QED
      BY <2>3, <2>4, <3>1, <3>2, LeadsNowhere
  <2> QED
    BY <2>5, <2>6
<1>4. DOMAIN seqs = 1..N /\ seqs = [k \in 1..N |-> seqs[k]]
  OBVIOUS
<1>5. V[0] = Now(1, old, gone, texts, thoughts, I, M)
  <2>1. 0 \in 0..N
    BY <1>1
  <2>2. 1..0 = {} /\ I \ {} = I /\ M \cup (I \cap {}) = M
    OBVIOUS
  <2> QED
    BY <2>1, <2>2
<1>6. V[N] = Now(1, old, gone, texts, thoughts, I \ 1..N, M \cup (I \cap 1..N))
  <2>1. N \in 0..N
    BY <1>1
  <2> QED
    BY <2>1
<1>7. UnfinishedParts = FlattenSeq(seqs)
  BY <1>1 DEF UnfinishedParts
<1> HIDE DEF V, seqs
<1>8. Leads(V[0], FlattenSeq(seqs), V[N])
  BY <1>1, <1>3, <1>4, LeadsFlatten
<1> QED
  BY <1>5, <1>6, <1>7, <1>8 DEF I, M

\* What a stream that ends still closes.
LEMMA ChatFlushLeads == ASSUME ChatInv, ChatFlush PROVE \E w : Leads(Mark(view'), queue', w)
<1> DEFINE I == OpenIn(parser.calls)
           M == DoneIn(parser.calls)
           x == parser.text
           r == parser.reasoning
           A == IF r THEN <<Part("reasoning-end", TextId)>> ELSE << >>
           B == IF x THEN <<Part("text-end", TextId)>> ELSE << >>
           out == A \o B \o UnfinishedParts
           f == <<PartOf("finish", <<1>>, parser.finish)>>
<1>0. ChatTyped /\ r \in BOOLEAN /\ x \in BOOLEAN
  BY ChatIs DEF ChatInv
<1>1. UNCHANGED view /\ queue' = queue \o (out \o f)
  BY DEF ChatFlush, Emit
<1> DEFINE J == I \ 1..Len(answer.totals)
           L == M \cup (I \cap 1..Len(answer.totals))
<1>2. \A old, gone : Past(1, old, gone) =>
        Leads(Now(1, old, gone, Only(x, TextId), Only(r, TextId), I, M), out, Now(1, old, gone, {}, {}, J, L))
  <2> SUFFICES ASSUME NEW old, NEW gone, Past(1, old, gone)
               PROVE  Leads(Now(1, old, gone, Only(x, TextId), Only(r, TextId), I, M), out, Now(1, old, gone, {}, {}, J, L))
    OBVIOUS
  <2> DEFINE T(t, h) == Now(1, old, gone, t, h, I, M)
             end == Now(1, old, gone, {}, {}, J, L)
  <2>0. TextId \in OfAttempt(1) /\ TextId \in {TextId} /\ {TextId} \ {TextId} = {}
    BY TextIdIs
  <2>1. Leads(T(Only(x, TextId), Only(r, TextId)), A, T(Only(x, TextId), {}))
    <3> DEFINE t == Only(x, TextId)
    <3> HIDE DEF I, M, t
    <3>1. Leads(T(t, Only(r, TextId)), IF r THEN <<Part("reasoning-end", TextId)>> ELSE << >>, T(t, Only(r /\ ~r, TextId)))
      BY <1>0, ThoughtMayEnd
    <3>2. Only(r /\ ~r, TextId) = {}
      BY DEF Only
    <3> HIDE DEF T
    <3> QED
      BY <3>1, <3>2 DEF t
  <2>2. Leads(T(Only(x, TextId), {}), B, T({}, {}))
    <3>1. CASE x
      <4>1. Leads(T({TextId}, {}), <<Part("text-end", TextId)>>, T({TextId} \ {TextId}, {}))
        <5> HIDE DEF I, M
        <5> QED
          BY <2>0, TextEnds
      <4> HIDE DEF T
      <4> QED
        BY <3>1, <4>1, <2>0 DEF Only
    <3>2. CASE ~x
      <4> HIDE DEF T
      <4> QED
        BY <3>2, LeadsNowhere DEF Only
    <3> QED
      BY <3>1, <3>2
  <2>3. Leads(T({}, {}), UnfinishedParts, end)
    BY <1>0, UnfinishedLead
  <2> HIDE DEF T, end, A, B
  <2>4. Leads(T(Only(x, TextId), Only(r, TextId)), out, end)
    BY <2>1, <2>2, <2>3, LeadsOn
  <2> QED
    BY <2>4 DEF T, end
<1> HIDE DEF out, J, L, A, B
<1>3. OwedAt(Mark(view), queue, 1, Only(x, TextId), Only(r, TextId), I, M)
  BY DEF ChatInv, ChatOwed
<1> HIDE DEF I, M, x, r
<1>4. \E w : Leads(Mark(view), queue \o (out \o f), w)
  <2> DEFINE data == parser.finish
  <2> HIDE DEF data
  <2>1. 1 \in Nat
    OBVIOUS
  <2>2. \E w : Leads(Mark(view), queue \o (out \o <<PartOf("finish", <<1>>, data)>>), w)
    BY <1>2, <1>3, <2>1, OwesFinish
  <2> QED
    BY <2>2 DEF data
<1> QED
  BY <1>1, <1>4

\* The parser's calls and blocks stay as they are.
LEMMA ChatStays ==
  ASSUME ChatTyped, Answering', answer'.totals = answer.totals,
         parser' = parser \/ \E x, y : parser' = [parser EXCEPT !.finish = x, !.first = y] \/ parser' = [parser EXCEPT !.finish = x]
  PROVE  ChatTyped' /\ parser'.calls = parser.calls /\ parser'.reasoning = parser.reasoning /\ parser'.text = parser.text
<1>1. PICK calls \in [DOMAIN answer.totals -> CallRecords], reasoning \in BOOLEAN, text \in BOOLEAN : \E first, opaque, finish :
        parser = ChatParser(calls, first, reasoning, text, opaque, finish)
  BY DEF ChatTyped, Parsing
<1>2. PICK first, opaque, finish : parser = ChatParser(calls, first, reasoning, text, opaque, finish)
  BY <1>1
<1>3. \E y, x : parser' = ChatParser(calls, y, reasoning, text, opaque, x)
  <2>1. CASE parser' = parser
    BY <2>1, <1>2
  <2>2. ASSUME NEW x, NEW y, parser' = [parser EXCEPT !.finish = x, !.first = y]
        PROVE  parser' = ChatParser(calls, y, reasoning, text, opaque, x)
    BY <2>2, <1>2 DEF ChatParser
  <2>3. ASSUME NEW x, parser' = [parser EXCEPT !.finish = x]
        PROVE  parser' = ChatParser(calls, first, reasoning, text, opaque, x)
    BY <2>3, <1>2 DEF ChatParser
  <2> QED
    BY <2>1, <2>2, <2>3
<1>4. ChatTyped' /\ parser'.calls = calls /\ parser'.reasoning = reasoning /\ parser'.text = text
  <2>1. PICK y, x : parser' = ChatParser(calls, y, reasoning, text, opaque, x)
    BY <1>3
  <2>2. calls \in [DOMAIN answer.totals -> CallRecords] /\ reasoning \in BOOLEAN /\ text \in BOOLEAN
    BY <1>1
  <2> QED
    BY <2>1, <2>2, ParsingNext
<1> QED
  BY <1>2, <1>4 DEF ChatParser

LEMMA AnsweringNext ==
  ASSUME Answering, answer' = answer \/ \E x : answer' = [answer EXCEPT !.finish = x]
  PROVE  Answering' /\ answer'.totals = answer.totals
<1>1. PICK totals \in Seq(Nat) : \E sent, begun, reasoning, content, opaque, finish :
        answer = ChatAnswer(totals, sent, begun, reasoning, content, opaque, finish)
  BY DEF Answering
<1>2. PICK sent, begun, reasoning, content, opaque, finish :
        answer = ChatAnswer(totals, sent, begun, reasoning, content, opaque, finish)
  BY <1>1
<1>3. \E x : answer' = ChatAnswer(totals, sent, begun, reasoning, content, opaque, x)
  <2>1. CASE answer' = answer
    BY <2>1, <1>2
  <2>2. ASSUME NEW x, answer' = [answer EXCEPT !.finish = x]
        PROVE  answer' = ChatAnswer(totals, sent, begun, reasoning, content, opaque, x)
    BY <2>2, <1>2 DEF ChatAnswer
  <2> QED
    BY <2>1, <2>2
<1>4. PICK x : answer' = ChatAnswer(totals, sent, begun, reasoning, content, opaque, x)
  BY <1>3
<1>5. answer'.totals = totals /\ answer.totals = totals
  BY <1>2, <1>4 DEF ChatAnswer
<1> QED
  BY <1>4, <1>5 DEF Answering

\* Nothing happens to the message but an error, a note or nothing at all.
LEMMA ChatEmits ==
  ASSUME ChatInv, ChatTyped', parser'.calls = parser.calls, parser'.reasoning = parser.reasoning,
         parser'.text = parser.text, UNCHANGED view,
         queue' = queue \/ queue' = queue \o <<Part("error", None)>> \/ queue' = queue \o FirstParts
  PROVE  ChatInv'
<1> DEFINE x == Only(parser.text, TextId)
           r == Only(parser.reasoning, TextId)
           I == OpenIn(parser.calls)
           M == DoneIn(parser.calls)
<1>1. OwedAt(Mark(view), queue, 1, x, r, I, M)
  BY DEF ChatInv, ChatOwed
<1>2. x' = x /\ r' = r /\ I' = I /\ M' = M
  OBVIOUS
<1> HIDE DEF x, r, I, M
<1>3. OwedAt(Mark(view), queue', 1, x, r, I, M)
  <2>1. CASE queue' = queue
    BY <1>1, <2>1
  <2>2. CASE queue' = queue \o <<Part("error", None)>>
    BY <1>1, <2>2, OwesError
  <2>3. CASE queue' = queue \o FirstParts
    <3> DEFINE out == FirstParts
    <3>1. \A old, gone : Past(1, old, gone) =>
            Leads(Now(1, old, gone, x, r, I, M), out, Now(1, old, gone, x, r, I, M))
      BY FirstLeads
    <3> HIDE DEF out
    <3>2. OwedAt(Mark(view), queue \o out, 1, x, r, I, M)
      BY <1>1, <3>1, OwesOn
    <3> QED
      BY <3>2, <2>3 DEF out
  <2> QED
    BY <2>1, <2>2, <2>3
<1>4. ChatOwed'
  BY <1>3 DEF ChatOwed, x, r, I, M
<1> QED
  BY <1>4 DEF ChatInv

LEMMA ChatKeep ==
  ASSUME ChatInv, ChatNext
  PROVE  /\ UNCHANGED provider
         /\ Over \/ (UNCHANGED view /\ IF wire' = "closed" THEN \E w : Leads(Mark(view'), queue', w) ELSE ChatInv')
<1>0. ChatTyped /\ Answering
  BY DEF ChatInv, ChatTyped
<1>1. CASE ChatErrorChunk
  <2>1. Answering' /\ answer'.totals = answer.totals
    BY <1>0, <1>1, AnsweringNext DEF ChatErrorChunk
  <2>2. ChatTyped' /\ parser'.calls = parser.calls /\ parser'.reasoning = parser.reasoning /\ parser'.text = parser.text
    BY <1>0, <1>1, <2>1, ChatStays DEF ChatErrorChunk
  <2>3. ChatInv'
    BY <1>1, <2>2, ChatEmits DEF ChatErrorChunk, Emit
  <2> QED
    BY <1>1, <2>3 DEF ChatErrorChunk
<1>2. CASE FinishChunk
  <2>1. /\ \E x : answer' = [answer EXCEPT !.finish = x]
        /\ \E x, y : parser' = [parser EXCEPT !.finish = x, !.first = y]
        /\ queue' = queue \o FirstParts /\ wire' = "done" /\ UNCHANGED <<provider, view>>
    BY <1>2 DEF FinishChunk, Emit
  <2>2. Answering' /\ answer'.totals = answer.totals
    BY <1>0, <2>1, AnsweringNext
  <2>3. ChatTyped' /\ parser'.calls = parser.calls /\ parser'.reasoning = parser.reasoning /\ parser'.text = parser.text
    BY <1>0, <2>1, <2>2, ChatStays
  <2>4. ChatInv'
    BY <2>1, <2>3, ChatEmits
  <2> QED
    BY <2>1, <2>4
<1>3. CASE ChatCutShort
  <2>1. Answering' /\ answer'.totals = answer.totals
    BY <1>0, <1>3, AnsweringNext DEF ChatCutShort
  <2>2. ChatTyped' /\ parser'.calls = parser.calls /\ parser'.reasoning = parser.reasoning /\ parser'.text = parser.text
    BY <1>0, <1>3, <2>1, ChatStays DEF ChatCutShort
  <2>3. ChatInv'
    BY <1>3, <2>2, ChatEmits DEF ChatCutShort
  <2> QED
    BY <1>3, <2>3 DEF ChatCutShort
<1>4. CASE ChatFlush
  BY <1>4, ChatFlushLeads DEF ChatFlush
<1>5. ASSUME NEW d \in Deltas, DeltaChunk(d) PROVE UNCHANGED <<provider, view, wire>> /\ ChatInv'
  BY <1>5, DeltaKeeps DEF DeltaChunk
<1>6. ASSUME NEW d \in Deltas, DeltaThrows(d) PROVE UNCHANGED provider /\ Over
  BY <1>6 DEF DeltaThrows
<1>7. ASSUME NEW d \in Deltas, UnparsableDelta(d) PROVE UNCHANGED <<provider, view, wire>> /\ ChatInv'
  <2>1. Answering' /\ answer'.totals = answer.totals
    BY <1>0, <1>7, AdvancedIs DEF UnparsableDelta
  <2>2. ChatTyped' /\ parser'.calls = parser.calls /\ parser'.reasoning = parser.reasoning /\ parser'.text = parser.text
    <3>1. \E x : parser' = [parser EXCEPT !.finish = x]
      BY <1>7 DEF UnparsableDelta
    <3> QED
      BY <1>0, <2>1, <3>1, ChatStays
  <2>3. ChatInv'
    BY <1>7, <2>2, ChatEmits DEF UnparsableDelta, Emit
  <2> QED
    BY <1>7, <2>3 DEF UnparsableDelta
<1>8. \A d : DeltaChunk(d) \/ UnparsableDelta(d) => wire # "closed"
  BY DEF DeltaChunk, UnparsableDelta, Sending
<1> QED
  BY <1>1, <1>2, <1>3, <1>4, <1>5, <1>6, <1>7, <1>8 DEF ChatNext

-----------------------------------------------------------------------------
(* Blocks closed one after the other.                                      *)

LEMMA LeadsSingle ==
  ASSUME NEW s, NEW p, NEW t, Leads(s, <<p>>, t)
  PROVE  Allowed(s, p) /\ t = Apply(s, p)
<1> DEFINE q == <<p>>
<1>1. q # <<>> /\ Head(q) = p /\ Tail(q) = <<>>
  OBVIOUS
<1> HIDE DEF q
<1>2. Leads(s, q, t)
  BY DEF q
<1>3. Allowed(s, Head(q)) /\ Leads(Apply(s, Head(q)), Tail(q), t)
  BY <1>1, <1>2, LeadsLess
<1>4. Allowed(s, p) /\ Leads(Apply(s, p), <<>>, t)
  BY <1>1, <1>3
<1> QED
  BY <1>4, LeadsEmpty

LEMMA LeadsChain ==
  ASSUME NEW N \in Nat, NEW S, NEW q \in Seq(S), Len(q) = N, NEW V,
         \A n \in 1..N : Leads(V[n - 1], <<q[n]>>, V[n])
  PROVE  Leads(V[0], q, V[N])
<1>1. \A n \in 1..N : Allowed(V[n - 1], q[n]) /\ V[n] = Apply(V[n - 1], q[n])
  BY LeadsSingle
<1> QED
  BY <1>1 DEF Leads

LEMMA ThoughtsEnd ==
  ASSUME NEW a \in Nat, NEW old, NEW gone, Past(a, old, gone), NEW texts, NEW thoughts \in SUBSET OfAttempt(a), NEW inputs, NEW made,
         NEW N \in Nat, NEW ids \in [1..N -> thoughts], \A m, n \in 1..N : ids[m] = ids[n] => m = n
  PROVE  Leads(Now(a, old, gone, texts, thoughts, inputs, made), ReasoningEnds(ids),
               Now(a, old, gone, texts, thoughts \ {ids[n] : n \in 1..N}, inputs, made))
<1> DEFINE gap(n) == {ids[m] : m \in 1..n}
           V == [n \in 0..N |-> Now(a, old, gone, texts, thoughts \ gap(n), inputs, made)]
           q == ReasoningEnds(ids)
<1>1. q = [n \in 1..N |-> Part("reasoning-end", ids[n])]
  BY DEF ReasoningEnds
<1>2. q \in Seq({q[n] : n \in 1..N}) /\ Len(q) = N /\ \A n \in 1..N : q[n] = Part("reasoning-end", ids[n])
  <2> DEFINE S == {q[n] : n \in 1..N}
  <2>1. q \in [1..N -> S]
    BY <1>1
  <2>2. \A n \in 1..N : q[n] = Part("reasoning-end", ids[n])
    BY <1>1
  <2> HIDE DEF q, S
  <2>3. q \in Seq(S)
    BY <2>1, SeqDef
  <2>4. Len(q) = N
    BY <2>1, <2>3, LenProperties
  <2> QED
    BY <2>2, <2>3, <2>4 DEF S
<1>3. ASSUME NEW n \in 1..N PROVE Leads(V[n - 1], <<q[n]>>, V[n])
  <2> DEFINE h == thoughts \ gap(n - 1)
             id == ids[n]
  <2>1. n - 1 \in 0..N /\ n \in 0..N
    OBVIOUS
  <2>2. V[n - 1] = Now(a, old, gone, texts, h, inputs, made)
    BY <2>1
  <2>3. V[n] = Now(a, old, gone, texts, thoughts \ gap(n), inputs, made)
    BY <2>1
  <2>4. id \in thoughts /\ id \in OfAttempt(a)
    OBVIOUS
  <2>5. id \notin gap(n - 1)
    <3>1. \A m \in 1..(n - 1) : m \in 1..N /\ m # n
      OBVIOUS
    <3> QED
      BY <3>1
  <2>6. gap(n) = gap(n - 1) \cup {id}
    <3>1. 1..n = (1..(n - 1)) \cup {n}
      OBVIOUS
    <3> QED
      BY <3>1
  <2> HIDE DEF gap, V, id, q
  <2>7. id \in h /\ h \ {id} = thoughts \ gap(n)
    BY <2>4, <2>5, <2>6
  <2> HIDE DEF h
  <2>8. Leads(Now(a, old, gone, texts, h, inputs, made), <<Part("reasoning-end", id)>>,
              Now(a, old, gone, texts, h \ {id}, inputs, made))
    BY <2>4, <2>7, ThoughtEnds
  <2>9. q[n] = Part("reasoning-end", id)
    BY <1>2 DEF id
  <2> QED
    BY <2>2, <2>3, <2>7, <2>8, <2>9
<1>4. V[0] = Now(a, old, gone, texts, thoughts, inputs, made)
  <2>1. 0 \in 0..N /\ gap(0) = {} /\ thoughts \ {} = thoughts
    OBVIOUS
  <2> HIDE DEF gap
  <2>2. V[0] = Now(a, old, gone, texts, thoughts \ gap(0), inputs, made)
    BY <2>1
  <2> QED
    BY <2>1, <2>2
<1>5. V[N] = Now(a, old, gone, texts, thoughts \ gap(N), inputs, made)
  <2>1. N \in 0..N
    OBVIOUS
  <2> HIDE DEF gap
  <2> QED
    BY <2>1
<1> HIDE DEF V, q, gap
<1>6. Leads(V[0], q, V[N])
  BY <1>2, <1>3, LeadsChain
<1> QED
  BY <1>4, <1>5, <1>6 DEF q, gap

TextsClosed(ids) == [n \in DOMAIN ids |-> Part("text-end", ids[n])]

LEMMA TextsEnd ==
  ASSUME NEW a \in Nat, NEW old, NEW gone, Past(a, old, gone), NEW texts \in SUBSET OfAttempt(a), NEW thoughts, NEW inputs, NEW made,
         NEW N \in Nat, NEW ids \in [1..N -> texts], \A m, n \in 1..N : ids[m] = ids[n] => m = n
  PROVE  Leads(Now(a, old, gone, texts, thoughts, inputs, made), TextsClosed(ids),
               Now(a, old, gone, texts \ {ids[n] : n \in 1..N}, thoughts, inputs, made))
<1> DEFINE gap(n) == {ids[m] : m \in 1..n}
           V == [n \in 0..N |-> Now(a, old, gone, texts \ gap(n), thoughts, inputs, made)]
           q == TextsClosed(ids)
<1>1. q = [n \in 1..N |-> Part("text-end", ids[n])]
  BY DEF TextsClosed
<1>2. q \in Seq({q[n] : n \in 1..N}) /\ Len(q) = N /\ \A n \in 1..N : q[n] = Part("text-end", ids[n])
  <2> DEFINE S == {q[n] : n \in 1..N}
  <2>1. q \in [1..N -> S]
    BY <1>1
  <2>2. \A n \in 1..N : q[n] = Part("text-end", ids[n])
    BY <1>1
  <2> HIDE DEF q, S
  <2>3. q \in Seq(S)
    BY <2>1, SeqDef
  <2>4. Len(q) = N
    BY <2>1, <2>3, LenProperties
  <2> QED
    BY <2>2, <2>3, <2>4 DEF S
<1>3. ASSUME NEW n \in 1..N PROVE Leads(V[n - 1], <<q[n]>>, V[n])
  <2> DEFINE h == texts \ gap(n - 1)
             id == ids[n]
  <2>1. n - 1 \in 0..N /\ n \in 0..N
    OBVIOUS
  <2>2. V[n - 1] = Now(a, old, gone, h, thoughts, inputs, made)
    BY <2>1
  <2>3. V[n] = Now(a, old, gone, texts \ gap(n), thoughts, inputs, made)
    BY <2>1
  <2>4. id \in texts /\ id \in OfAttempt(a)
    OBVIOUS
  <2>5. id \notin gap(n - 1)
    <3>1. \A m \in 1..(n - 1) : m \in 1..N /\ m # n
      OBVIOUS
    <3> QED
      BY <3>1
  <2>6. gap(n) = gap(n - 1) \cup {id}
    <3>1. 1..n = (1..(n - 1)) \cup {n}
      OBVIOUS
    <3> QED
      BY <3>1
  <2> HIDE DEF gap, V, id, q
  <2>7. id \in h /\ h \ {id} = texts \ gap(n)
    BY <2>4, <2>5, <2>6
  <2> HIDE DEF h
  <2>8. Leads(Now(a, old, gone, h, thoughts, inputs, made), <<Part("text-end", id)>>,
              Now(a, old, gone, h \ {id}, thoughts, inputs, made))
    BY <2>4, <2>7, TextEnds
  <2>9. q[n] = Part("text-end", id)
    BY <1>2 DEF id
  <2> QED
    BY <2>2, <2>3, <2>7, <2>8, <2>9
<1>4. V[0] = Now(a, old, gone, texts, thoughts, inputs, made)
  <2>1. 0 \in 0..N /\ gap(0) = {} /\ texts \ {} = texts
    OBVIOUS
  <2> HIDE DEF gap
  <2>2. V[0] = Now(a, old, gone, texts \ gap(0), thoughts, inputs, made)
    BY <2>1
  <2> QED
    BY <2>1, <2>2
<1>5. V[N] = Now(a, old, gone, texts \ gap(N), thoughts, inputs, made)
  <2>1. N \in 0..N
    OBVIOUS
  <2> HIDE DEF gap
  <2> QED
    BY <2>1
<1> HIDE DEF V, q, gap
<1>6. Leads(V[0], q, V[N])
  BY <1>2, <1>3, LeadsChain
<1> QED
  BY <1>4, <1>5, <1>6 DEF q, gap

\* An order of a finite set runs through all of it.
LEMMA OrderIs ==
  ASSUME NEW S, IsFiniteSet(S), NEW order \in Orders(S)
  PROVE  \E N \in Nat : /\ order \in [1..N -> S] /\ \A m, n \in 1..N : order[m] = order[n] => m = n
                        /\ S \ {order[n] : n \in 1..N} = {}
<1> DEFINE N == Cardinality(S)
<1>1. N \in Nat
  BY FS_CardinalityType
<1>2. order \in [1..N -> S] /\ IsInjective(order)
  BY DEF Orders
<1> HIDE DEF N
<1>3. order \in Injection(1..N, S)
  BY <1>2 DEF Injection
<1>4. Cardinality(1..N) = N
  <2>1. 1 \in Int /\ N \in Int /\ (IF 1 > N THEN 0 ELSE N - 1 + 1) = N
    BY <1>1
  <2> QED
    BY <2>1, FS_Interval
<1>5. order \in Surjection(1..N, S)
  BY <1>3, <1>4, FS_Injection DEF N
<1>6. \A s \in S : \E n \in 1..N : order[n] = s
  BY <1>5 DEF Surjection
<1>7. \A m, n \in 1..N : order[m] = order[n] => m = n
  BY <1>2 DEF IsInjective
<1> QED
  BY <1>1, <1>2, <1>6, <1>7

-----------------------------------------------------------------------------
(* CodexStream.                                                            *)

CodexParser(transport, attempt, opens, store, started, productive, text, reasoning, items, tools, made) ==
  [transport |-> transport, attempt |-> attempt, opens |-> opens, store |-> store,
   started |-> started, productive |-> productive, text |-> text, reasoning |-> reasoning,
   items |-> items, tools |-> tools, hasFunctionCall |-> made]

CodexTypes == {"function_call", "web_search_call", "message", "summary", "summary_no_start",
               "reasoning_text", "reasoning_empty"}
Events(kind) ==
  CASE kind = "function_call" -> 3 [] kind = "web_search_call" -> 2 [] kind = "message" -> 4
    [] kind = "summary" -> 8 [] kind = "summary_no_start" -> 4 [] kind = "reasoning_text" -> 2
    [] OTHER -> 1
\* The place of an event among those of its item.
CodexPlaced(kind, n, e) ==
  /\ e.part \in {0, 1} /\ (e.part = 1 => kind = "summary" /\ n >= 4)
  /\ e.type = "added" => n = 0
  /\ e.type = "done" => n = Events(kind) - 1
  /\ e.type = "arguments_delta" => n = 1 /\ kind = "function_call"
  /\ e.type = "text_delta" => kind = "message"
  /\ e.type \in {"part_added", "part_done", "summary_delta", "reasoning_delta"} =>
       kind \in {"summary", "summary_no_start", "reasoning_text"}
  /\ e.type = "reasoning_delta" => e.part = 0
  /\ e.type = "part_added" /\ e.part = 1 => n = 4
  /\ e.type = "summary_delta" /\ e.part = 1 => n = 5

LEMMA CodexEventsAre ==
  /\ DOMAIN CodexEventsOf = CodexTypes
  /\ \A kind \in CodexTypes :
       /\ Len(CodexEventsOf[kind]) = Events(kind)
       /\ \A n \in 0..(Events(kind) - 1) : CodexPlaced(kind, n, CodexEventsOf[kind][n + 1])
<1>1. DOMAIN CodexEventsOf = CodexTypes
  BY DEF CodexEventsOf, CodexTypes
<1>2. /\ CodexEventsOf["function_call"] = <<At("added", 0), At("arguments_delta", 0), At("done", 0)>>
      /\ CodexEventsOf["web_search_call"] = <<At("added", 0), At("done", 0)>>
      /\ CodexEventsOf["message"] = <<At("added", 0), At("text_delta", 0), At("text_delta", 0), At("done", 0)>>
      /\ CodexEventsOf["summary"] = <<At("added", 0), At("part_added", 0), At("summary_delta", 0), At("part_done", 0),
                                      At("part_added", 1), At("summary_delta", 1), At("part_done", 1), At("done", 0)>>
      /\ CodexEventsOf["summary_no_start"] = <<At("part_added", 0), At("summary_delta", 0), At("part_done", 0), At("done", 0)>>
      /\ CodexEventsOf["reasoning_text"] = <<At("reasoning_delta", 0), At("done", 0)>>
      /\ CodexEventsOf["reasoning_empty"] = <<At("done", 0)>>
  BY DEF CodexEventsOf
<1>3. \A x, y : At(x, y).type = x /\ At(x, y).part = y
  BY DEF At
<1> QED
  <2> SUFFICES ASSUME NEW kind \in CodexTypes
               PROVE  /\ Len(CodexEventsOf[kind]) = Events(kind)
                      /\ \A n \in 0..(Events(kind) - 1) : CodexPlaced(kind, n, CodexEventsOf[kind][n + 1])
    BY <1>1
  <2>1. CASE kind = "function_call"
    BY <2>1, <1>2, <1>3 DEF Events, CodexPlaced
  <2>2. CASE kind = "web_search_call"
    BY <2>2, <1>2, <1>3 DEF Events, CodexPlaced
  <2>3. CASE kind = "message"
    BY <2>3, <1>2, <1>3 DEF Events, CodexPlaced
  <2>4. CASE kind = "summary"
    BY <2>4, <1>2, <1>3 DEF Events, CodexPlaced
  <2>5. CASE kind = "summary_no_start"
    BY <2>5, <1>2, <1>3 DEF Events, CodexPlaced
  <2>6. CASE kind = "reasoning_text"
    BY <2>6, <1>2, <1>3 DEF Events, CodexPlaced
  <2>7. CASE kind = "reasoning_empty"
    BY <2>7, <1>2, <1>3 DEF Events, CodexPlaced
  <2> QED
    BY <2>1, <2>2, <2>3, <2>4, <2>5, <2>6, <2>7 DEF CodexTypes

Indices == DOMAIN answer.items
CodexAnswering ==
  \E items \in Seq(CodexTypes) : \E sent \in [DOMAIN items -> Nat] : \E ends :
    answer = [items |-> items, sent |-> sent, ends |-> ends]
CodexFar ==
  /\ CodexAnswering
  /\ \A i \in Indices : answer.sent[i] <= Events(Kind(i))

\* The calls whose arguments are being sent, and those made.
Collecting == {i \in Indices : Kind(i) = "function_call" /\ answer.sent[i] \in {1, 2}}
MadeCalls == {i \in Indices : Kind(i) \in {"function_call", "web_search_call"} /\ answer.sent[i] = Events(Kind(i))}

\* No later part of an item is open before it starts.
LaterParts(thoughts) ==
  \A i \in Indices : PartOfItem(i, 1) \in thoughts => Kind(i) = "summary" /\ answer.sent[i] >= 5

CodexParsing ==
  \E attempt \in Nat : \E text, reasoning \in SUBSET OfAttempt(attempt) :
  \E states : \E items \in [Indices -> states] :
  \E transport, opens, store, started, productive, made :
    /\ parser = CodexParser(transport, attempt, opens, store, started, productive, text, reasoning, items, Collecting, made)
    /\ IsFiniteSet(text) /\ IsFiniteSet(reasoning)
CodexTyped == CodexFar /\ CodexParsing /\ LaterParts(parser.reasoning)
CodexOwed == OwedAt(Mark(view), queue, parser.attempt, parser.text, parser.reasoning, parser.tools, MadeCalls)
CodexInv == CodexTyped /\ CodexOwed

LEMMA CodexAnswerIs ==
  ASSUME CodexAnswering
  PROVE  /\ answer.items \in Seq(CodexTypes) /\ Indices = 1..Len(answer.items) /\ Len(answer.items) \in Nat
         /\ answer.sent \in [Indices -> Nat] /\ \A i \in Indices : Kind(i) \in CodexTypes /\ i \in Nat
         /\ \A sent \in [Indices -> Nat] : answer' = [answer EXCEPT !.sent = sent] =>
              CodexAnswering' /\ answer'.items = answer.items /\ answer'.sent = sent /\ Indices' = Indices
<1>0. PICK items \in Seq(CodexTypes) : \E sent \in [DOMAIN items -> Nat] : \E ends :
        answer = [items |-> items, sent |-> sent, ends |-> ends]
  BY DEF CodexAnswering
<1>1. PICK sent \in [DOMAIN items -> Nat] : \E ends : answer = [items |-> items, sent |-> sent, ends |-> ends]
  BY <1>0
<1>2. answer.items = items /\ answer.sent = sent
  BY <1>1
<1>3. Indices = 1..Len(items) /\ Len(items) \in Nat /\ DOMAIN items = 1..Len(items)
  BY <1>1, <1>2, LenProperties DEF Indices
<1>4. \A i \in Indices : Kind(i) \in CodexTypes /\ i \in Nat
  BY <1>1, <1>2, <1>3 DEF Kind
<1>5. ASSUME NEW s \in [Indices -> Nat], answer' = [answer EXCEPT !.sent = s]
      PROVE  CodexAnswering' /\ answer'.items = answer.items /\ answer'.sent = s /\ Indices' = Indices
  <2>0. PICK ends : answer = [items |-> items, sent |-> sent, ends |-> ends]
    BY <1>1
  <2>1. answer' = [items |-> items, sent |-> s, ends |-> ends]
    BY <2>0, <1>5
  <2>2. s \in [DOMAIN items -> Nat]
    BY <1>3
  <2>3. answer'.items = items /\ answer'.sent = s
    BY <2>1
  <2>4. CodexAnswering'
    BY <2>1, <2>2 DEF CodexAnswering
  <2> QED
    BY <2>3, <2>4, <1>2 DEF Indices
<1> QED
  BY <1>1, <1>2, <1>3, <1>4, <1>5

LEMMA CodexParserIs ==
  ASSUME CodexParsing
  PROVE  /\ parser.attempt \in Nat /\ parser.text \in SUBSET OfAttempt(parser.attempt) /\ parser.reasoning \in SUBSET OfAttempt(parser.attempt)
         /\ IsFiniteSet(parser.text) /\ IsFiniteSet(parser.reasoning) /\ parser.tools = Collecting
         /\ \E states : parser.items \in [Indices -> states]
         /\ parser = CodexParser(parser.transport, parser.attempt, parser.opens, parser.store, parser.started, parser.productive,
                                 parser.text, parser.reasoning, parser.items, parser.tools, parser.hasFunctionCall)
<1>1. PICK attempt \in Nat : \E text, reasoning \in SUBSET OfAttempt(attempt) :
        \E states : \E items \in [Indices -> states] :
        \E transport, opens, store, started, productive, made :
        /\ parser = CodexParser(transport, attempt, opens, store, started, productive, text, reasoning, items, Collecting, made)
        /\ IsFiniteSet(text) /\ IsFiniteSet(reasoning)
  BY DEF CodexParsing
<1>2. PICK text \in SUBSET OfAttempt(attempt), reasoning \in SUBSET OfAttempt(attempt) :
        \E states : \E items \in [Indices -> states] :
        \E transport, opens, store, started, productive, made :
        /\ parser = CodexParser(transport, attempt, opens, store, started, productive, text, reasoning, items, Collecting, made)
        /\ IsFiniteSet(text) /\ IsFiniteSet(reasoning)
  BY <1>1
<1>3. PICK states : \E items \in [Indices -> states] :
        \E transport, opens, store, started, productive, made :
        /\ parser = CodexParser(transport, attempt, opens, store, started, productive, text, reasoning, items, Collecting, made)
        /\ IsFiniteSet(text) /\ IsFiniteSet(reasoning)
  BY <1>2
<1>4. PICK items \in [Indices -> states] :
        \E transport, opens, store, started, productive, made :
        /\ parser = CodexParser(transport, attempt, opens, store, started, productive, text, reasoning, items, Collecting, made)
        /\ IsFiniteSet(text) /\ IsFiniteSet(reasoning)
  BY <1>3
<1>5. PICK transport, opens, store, started, productive, made :
        /\ parser = CodexParser(transport, attempt, opens, store, started, productive, text, reasoning, items, Collecting, made)
        /\ IsFiniteSet(text) /\ IsFiniteSet(reasoning)
  BY <1>4
<1> DEFINE tools == Collecting
<1> HIDE DEF tools
<1>6. parser = CodexParser(transport, attempt, opens, store, started, productive, text, reasoning, items, tools, made)
  BY <1>5 DEF tools
<1>7. /\ parser.attempt = attempt /\ parser.text = text /\ parser.reasoning = reasoning /\ parser.tools = tools
      /\ parser.items = items /\ parser.transport = transport /\ parser.opens = opens /\ parser.store = store
      /\ parser.started = started /\ parser.productive = productive /\ parser.hasFunctionCall = made
  BY <1>6 DEF CodexParser
<1> QED
  BY <1>5, <1>6, <1>7 DEF tools

LEMMA CodexParserNext ==
  ASSUME NEW attempt \in Nat, NEW text \in SUBSET OfAttempt(attempt), NEW reasoning \in SUBSET OfAttempt(attempt),
         IsFiniteSet(text), IsFiniteSet(reasoning), NEW states, NEW items, items \in [Indices' -> states],
         NEW transport, NEW opens, NEW store, NEW started, NEW productive, NEW made,
         parser' = CodexParser(transport, attempt, opens, store, started, productive, text, reasoning, items, Collecting', made)
  PROVE  /\ CodexParsing' /\ parser'.attempt = attempt /\ parser'.text = text /\ parser'.reasoning = reasoning
         /\ parser'.tools = Collecting'
<1> DEFINE tools == Collecting'
<1>1. CodexParsing'
  BY DEF CodexParsing
<1> HIDE DEF tools
<1>2. parser' = CodexParser(transport, attempt, opens, store, started, productive, text, reasoning, items, tools, made)
  BY DEF tools
<1>3. parser'.attempt = attempt /\ parser'.text = text /\ parser'.reasoning = reasoning /\ parser'.tools = tools
  BY <1>2 DEF CodexParser
<1> QED
  BY <1>1, <1>3 DEF tools

LEMMA ReadyIs ==
  ASSUME CodexTyped, NEW i \in Ready
  PROVE  /\ i \in Indices /\ i \in Nat /\ Kind(i) \in CodexTypes /\ answer.sent[i] \in 0..(Events(Kind(i)) - 1)
         /\ CodexPlaced(Kind(i), answer.sent[i], Upcoming(i)) /\ parser.attempt \in Nat
         /\ Of(i) = <<parser.attempt, i>> /\ Of(i) \in OfAttempt(parser.attempt)
         /\ \A part \in Nat : /\ PartOfItem(i, part) \in OfAttempt(parser.attempt) /\ PartOfItem(i, part) # Of(i)
                              /\ \A j \in Nat, k \in Nat : PartOfItem(j, k) = PartOfItem(i, part) => j = i /\ k = part
<1>1. /\ i \in Indices /\ i \in Nat /\ Kind(i) \in CodexTypes /\ answer.sent[i] \in Nat
      /\ answer.sent[i] <= Events(Kind(i)) /\ ~Sent(i)
  BY CodexAnswerIs DEF CodexTyped, CodexFar, Ready, MayFollow, Indices
<1>2. Len(CodexEventsOf[Kind(i)]) = Events(Kind(i)) /\ Events(Kind(i)) \in Nat
  BY <1>1, CodexEventsAre DEF Events
<1>3. answer.sent[i] \in 0..(Events(Kind(i)) - 1)
  BY <1>1, <1>2 DEF Sent
<1>4. CodexPlaced(Kind(i), answer.sent[i], Upcoming(i))
  BY <1>1, <1>3, CodexEventsAre DEF Upcoming
<1>5. parser.attempt \in Nat
  BY CodexParserIs DEF CodexTyped
<1> DEFINE a == parser.attempt
<1> HIDE DEF a
<1>6. a \in Nat /\ Of(i) = <<a, i>> /\ \A j, k : PartOfItem(j, k) = <<a, j, k>>
  BY <1>5 DEF a, Of, PartOfItem
<1>7. Of(i) \in OfAttempt(a)
  BY <1>1, <1>6, AttemptNames
<1>8. ASSUME NEW part \in Nat
      PROVE  /\ <<a, i, part>> \in OfAttempt(a) /\ <<a, i, part>> # <<a, i>>
             /\ \A j \in Nat, k \in Nat : <<a, j, k>> = <<a, i, part>> => j = i /\ k = part
  <2>1. <<a, i, part>> \in Seq(Nat) /\ <<a, i, part>> # <<>> /\ Head(<<a, i, part>>) = a
    BY <1>1, <1>6
  <2>2. Len(<<a, i, part>>) = 3 /\ Len(<<a, i>>) = 2
    OBVIOUS
  <2>3. \A j \in Nat, k \in Nat : <<a, j, k>> = <<a, i, part>> => j = i /\ k = part
    OBVIOUS
  <2> QED
    BY <2>1, <2>2, <2>3 DEF OfAttempt, Ids, None
<1> QED
  BY <1>1, <1>3, <1>4, <1>5, <1>6, <1>7, <1>8 DEF a

LEMMA SentNext ==
  ASSUME CodexTyped, NEW i \in Ready, answer' = [answer EXCEPT !.sent[i] = @ + 1]
  PROVE  /\ CodexFar' /\ Indices' = Indices /\ \A j : Kind(j)' = Kind(j)
         /\ answer'.sent[i] = answer.sent[i] + 1 /\ \A j \in Indices : j # i => answer'.sent[j] = answer.sent[j]
         /\ Collecting' = IF Kind(i) # "function_call" THEN Collecting
                          ELSE IF answer.sent[i] \in {0, 1} THEN Collecting \cup {i} ELSE Collecting \ {i}
         /\ MadeCalls' = IF Kind(i) \in {"function_call", "web_search_call"} /\ answer.sent[i] = Events(Kind(i)) - 1
                         THEN MadeCalls \cup {i} ELSE MadeCalls
         /\ i \notin MadeCalls /\ (i \in Collecting <=> Kind(i) = "function_call" /\ answer.sent[i] \in {1, 2})
<1>1. /\ i \in Indices /\ answer.sent[i] \in 0..(Events(Kind(i)) - 1) /\ Events(Kind(i)) \in Nat
      /\ Events("function_call") = 3
  BY ReadyIs DEF Events
<1> DEFINE s == [answer.sent EXCEPT ![i] = answer.sent[i] + 1]
<1>2. answer.sent \in [Indices -> Nat] /\ answer' = [answer EXCEPT !.sent = s]
  BY CodexAnswerIs DEF CodexTyped, CodexFar
<1>3. s \in [Indices -> Nat] /\ s[i] = answer.sent[i] + 1 /\ \A j \in Indices : j # i => s[j] = answer.sent[j]
  BY <1>1, <1>2
<1> HIDE DEF s
<1>4. CodexAnswering' /\ answer'.items = answer.items /\ answer'.sent = s /\ Indices' = Indices
  BY <1>2, <1>3, CodexAnswerIs DEF CodexTyped, CodexFar
<1>5. \A j : Kind(j)' = Kind(j)
  BY <1>4 DEF Kind
<1>6. CodexFar'
  <2>1. ASSUME NEW j \in Indices PROVE s[j] <= Events(Kind(j))
    <3>1. CASE j = i
      BY <3>1, <1>1, <1>3
    <3>2. CASE j # i
      BY <3>2, <1>3 DEF CodexTyped, CodexFar
    <3> QED
      BY <3>1, <3>2
  <2> QED
    BY <2>1, <1>4, <1>5 DEF CodexFar
<1>7. Collecting' = {j \in Indices : Kind(j) = "function_call" /\ s[j] \in {1, 2}}
  BY <1>4, <1>5 DEF Collecting
<1>8. MadeCalls' = {j \in Indices : Kind(j) \in {"function_call", "web_search_call"} /\ s[j] = Events(Kind(j))}
  BY <1>4, <1>5 DEF MadeCalls
<1>9. Collecting' = IF Kind(i) # "function_call" THEN Collecting
                    ELSE IF answer.sent[i] \in {0, 1} THEN Collecting \cup {i} ELSE Collecting \ {i}
  <2>1. CASE Kind(i) # "function_call"
    BY <2>1, <1>3, <1>7 DEF Collecting
  <2>2. CASE Kind(i) = "function_call" /\ answer.sent[i] \in {0, 1}
    BY <2>2, <1>1, <1>3, <1>7 DEF Collecting
  <2>3. CASE Kind(i) = "function_call" /\ answer.sent[i] \notin {0, 1}
    <3>1. answer.sent[i] = 2
      BY <2>3, <1>1
    <3> QED
      BY <2>3, <3>1, <1>1, <1>3, <1>7 DEF Collecting
  <2> QED
    BY <2>1, <2>2, <2>3
<1>10. MadeCalls' = IF Kind(i) \in {"function_call", "web_search_call"} /\ answer.sent[i] = Events(Kind(i)) - 1
                    THEN MadeCalls \cup {i} ELSE MadeCalls
  <2>1. s[i] = Events(Kind(i)) <=> answer.sent[i] = Events(Kind(i)) - 1
    BY <1>1, <1>3
  <2>2. answer.sent[i] # Events(Kind(i))
    BY <1>1
  <2> QED
    BY <2>1, <2>2, <1>1, <1>3, <1>8 DEF MadeCalls
<1>11. i \notin MadeCalls /\ (i \in Collecting <=> Kind(i) = "function_call" /\ answer.sent[i] \in {1, 2})
  BY <1>1 DEF MadeCalls, Collecting
<1> QED
  BY <1>3, <1>4, <1>5, <1>6, <1>9, <1>10, <1>11

\* What a handler makes of the parser.
Turned(next, text, reasoning) ==
  \E states : \E items \in [Indices -> states] : \E tools, made :
    next = CodexParser(parser.transport, parser.attempt, parser.opens, parser.store, parser.started, parser.productive,
                       text, reasoning, items, tools, made)

LEMMA StepKeeps ==
  ASSUME CodexInv, NEW i \in Ready, NEW types, NEW next, NEW out, Step(i, types, next, out),
         NEW text \in SUBSET OfAttempt(parser.attempt), NEW reasoning \in SUBSET OfAttempt(parser.attempt),
         IsFiniteSet(text), IsFiniteSet(reasoning),
         Turned(next, text, reasoning), next.tools = Collecting',
         \A j \in Indices : PartOfItem(j, 1) \in reasoning =>
           PartOfItem(j, 1) \in parser.reasoning \/ (j = i /\ Kind(i) = "summary" /\ answer.sent[i] >= 4),
         \A old, gone : Past(parser.attempt, old, gone) =>
           Leads(Now(parser.attempt, old, gone, parser.text, parser.reasoning, Collecting, MadeCalls), out,
                 Now(parser.attempt, old, gone, text, reasoning, Collecting', MadeCalls'))
  PROVE  CodexInv'
<1>0. CodexTyped
  BY DEF CodexInv
<1>1. /\ answer' = [answer EXCEPT !.sent[i] = @ + 1] /\ queue' = queue \o out /\ UNCHANGED view
      /\ parser' = [next EXCEPT !.started = TRUE, !.productive = @ \/ out # << >>]
  BY DEF Step, Emit
<1>2. /\ CodexFar' /\ Indices' = Indices /\ (\A j : Kind(j)' = Kind(j))
      /\ answer'.sent[i] = answer.sent[i] + 1 /\ \A j \in Indices : j # i => answer'.sent[j] = answer.sent[j]
  BY <1>0, <1>1, SentNext
<1> DEFINE tools == Collecting'
           calls == MadeCalls'
           a == parser.attempt
<1> HIDE DEF tools, calls, a
<1>11. PICK states : \E items \in [Indices -> states] : \E ts, made :
        next = CodexParser(parser.transport, parser.attempt, parser.opens, parser.store, parser.started, parser.productive,
                           text, reasoning, items, ts, made)
  BY DEF Turned
<1>12. PICK items \in [Indices -> states] : \E ts, made :
        next = CodexParser(parser.transport, parser.attempt, parser.opens, parser.store, parser.started, parser.productive,
                           text, reasoning, items, ts, made)
  BY <1>11
<1>3. PICK ts, made :
        next = CodexParser(parser.transport, parser.attempt, parser.opens, parser.store, parser.started, parser.productive,
                           text, reasoning, items, ts, made)
  BY <1>12
<1>4. ts = tools
  <2>1. next.tools = ts
    BY <1>3 DEF CodexParser
  <2> QED
    BY <2>1 DEF tools
<1>5. \E x : parser' = CodexParser(parser.transport, a, parser.opens, parser.store, TRUE, x, text, reasoning, items, tools, made)
  <2> DEFINE x == next.productive \/ out # << >>
  <2>1. parser' = [next EXCEPT !.started = TRUE, !.productive = x]
    BY <1>1
  <2> HIDE DEF x
  <2>2. parser' = CodexParser(parser.transport, a, parser.opens, parser.store, TRUE, x, text, reasoning, items, tools, made)
    BY <1>3, <1>4, <2>1 DEF CodexParser, a
  <2> QED
    BY <2>2
<1>6. a \in Nat /\ text \in SUBSET OfAttempt(a) /\ reasoning \in SUBSET OfAttempt(a)
  BY <1>0, CodexParserIs DEF a, CodexTyped
<1>7. /\ CodexParsing' /\ parser'.attempt = a /\ parser'.text = text /\ parser'.reasoning = reasoning /\ parser'.tools = tools
  <2>1. PICK x : parser' = CodexParser(parser.transport, a, parser.opens, parser.store, TRUE, x, text, reasoning, items, Collecting', made)
    BY <1>5 DEF tools
  <2>2. items \in [Indices' -> states]
    BY <1>2
  <2> QED
    BY <1>6, <2>1, <2>2, CodexParserNext DEF tools
<1>8. LaterParts(parser.reasoning)'
  <2>1. \A j, k : PartOfItem(j, k)' = PartOfItem(j, k)
    BY <1>7 DEF PartOfItem, a
  <2> SUFFICES ASSUME NEW j \in Indices, PartOfItem(j, 1) \in reasoning
               PROVE  Kind(j) = "summary" /\ answer'.sent[j] >= 5
    BY <1>2, <1>7, <2>1 DEF LaterParts
  <2>2. answer.sent \in [Indices -> Nat]
    BY <1>0, CodexAnswerIs DEF CodexTyped, CodexFar
  <2>3. CASE PartOfItem(j, 1) \in parser.reasoning
    <3>1. Kind(j) = "summary" /\ answer.sent[j] >= 5
      BY <2>3, <1>0 DEF CodexTyped, LaterParts
    <3> QED
      BY <3>1, <1>2, <2>2
  <2>4. CASE PartOfItem(j, 1) \notin parser.reasoning
    <3>1. j = i /\ Kind(i) = "summary" /\ answer.sent[i] >= 4
      BY <2>4
    <3> QED
      BY <3>1, <1>2, <2>2
  <2> QED
    BY <2>3, <2>4
<1>9. CodexOwed'
  <2> DEFINE g == Collecting
             c == MadeCalls
             x == parser.text
             r == parser.reasoning
  <2>1. OwedAt(Mark(view), queue, a, x, r, g, c)
    BY <1>0, CodexParserIs DEF CodexInv, CodexOwed, CodexTyped, a
  <2>2. \A old, gone : Past(a, old, gone) =>
          Leads(Now(a, old, gone, x, r, g, c), out, Now(a, old, gone, text, reasoning, tools, calls))
    BY DEF a, tools, calls
  <2> HIDE DEF g, c, x, r
  <2>3. OwedAt(Mark(view), queue \o out, a, text, reasoning, tools, calls)
    BY <2>1, <2>2, OwesOn
  <2> QED
    BY <2>3, <1>1, <1>7 DEF CodexOwed, calls
<1> QED
  BY <1>2, <1>7, <1>8, <1>9 DEF CodexInv, CodexTyped

-----------------------------------------------------------------------------
(* What the handlers of an item make of the parser and of the stream.      *)

\* The parser, with other reasoning open and other states of one item.
Reopened(reasoning, i, v) == [parser EXCEPT !.reasoning = reasoning, !.items[i] = v]

LEMMA Turns ==
  ASSUME CodexTyped, NEW text, NEW reasoning, NEW tools, NEW made
  PROVE  /\ Turned(parser, parser.text, parser.reasoning) /\ parser.tools = Collecting
         /\ Turned([parser EXCEPT !.text = text], text, parser.reasoning) /\ [parser EXCEPT !.text = text].tools = Collecting
         /\ Turned([parser EXCEPT !.reasoning = reasoning], parser.text, reasoning)
         /\ [parser EXCEPT !.reasoning = reasoning].tools = Collecting
         /\ Turned([parser EXCEPT !.tools = tools], parser.text, parser.reasoning) /\ [parser EXCEPT !.tools = tools].tools = tools
         /\ Turned([parser EXCEPT !.tools = tools, !.hasFunctionCall = made], parser.text, parser.reasoning)
         /\ [parser EXCEPT !.tools = tools, !.hasFunctionCall = made].tools = tools
<1> DEFINE transport == parser.transport
           attempt == parser.attempt
           opens == parser.opens
           store == parser.store
           started == parser.started
           productive == parser.productive
           x == parser.text
           h == parser.reasoning
           items == parser.items
           g == parser.tools
           m == parser.hasFunctionCall
<1>1. g = Collecting /\ \E states : items \in [Indices -> states]
  BY CodexParserIs DEF CodexTyped
<1>2. PICK states : items \in [Indices -> states]
  BY <1>1
<1>3. parser = CodexParser(transport, attempt, opens, store, started, productive, x, h, items, g, m)
  BY CodexParserIs DEF CodexTyped
<1> HIDE DEF transport, attempt, opens, store, started, productive, x, h, items, g, m
<1>5. \A t, r, k, gg, mm : \A ss : k \in [Indices -> ss] =>
        Turned(CodexParser(transport, attempt, opens, store, started, productive, t, r, k, gg, mm), t, r)
  <2> SUFFICES ASSUME NEW t, NEW r, NEW k, NEW gg, NEW mm, NEW ss, k \in [Indices -> ss]
               PROVE  Turned(CodexParser(transport, attempt, opens, store, started, productive, t, r, k, gg, mm), t, r)
    OBVIOUS
  <2> QED
    BY DEF Turned, transport, attempt, opens, store, started, productive
<1>6. [parser EXCEPT !.text = text] = CodexParser(transport, attempt, opens, store, started, productive, text, h, items, g, m)
  BY <1>3 DEF CodexParser
<1>7. [parser EXCEPT !.reasoning = reasoning] = CodexParser(transport, attempt, opens, store, started, productive, x, reasoning, items, g, m)
  BY <1>3 DEF CodexParser
<1>9. [parser EXCEPT !.tools = tools] = CodexParser(transport, attempt, opens, store, started, productive, x, h, items, tools, m)
  BY <1>3 DEF CodexParser
<1>10. [parser EXCEPT !.tools = tools, !.hasFunctionCall = made]
         = CodexParser(transport, attempt, opens, store, started, productive, x, h, items, tools, made)
  <2> DEFINE pp == [parser EXCEPT !.tools = tools]
  <2>1. [parser EXCEPT !.tools = tools, !.hasFunctionCall = made] = [pp EXCEPT !.hasFunctionCall = made]
    OBVIOUS
  <2>2. pp = CodexParser(transport, attempt, opens, store, started, productive, x, h, items, tools, m)
    BY <1>9
  <2> HIDE DEF pp
  <2>3. [pp EXCEPT !.hasFunctionCall = made] = CodexParser(transport, attempt, opens, store, started, productive, x, h, items, tools, made)
    BY <2>2 DEF CodexParser
  <2> QED
    BY <2>1, <2>3
<1>11. \A t, r, k, gg, mm : CodexParser(transport, attempt, opens, store, started, productive, t, r, k, gg, mm).tools = gg
  BY DEF CodexParser
<1>12. x = parser.text /\ h = parser.reasoning
  BY DEF x, h
<1>13. Turned(parser, x, h) /\ parser.tools = g
  <2>1. Turned(CodexParser(transport, attempt, opens, store, started, productive, x, h, items, g, m), x, h)
    BY <1>2, <1>5
  <2> QED
    BY <1>3, <1>11, <2>1
<1>14. Turned([parser EXCEPT !.text = text], text, h) /\ [parser EXCEPT !.text = text].tools = g
  <2>1. Turned(CodexParser(transport, attempt, opens, store, started, productive, text, h, items, g, m), text, h)
    BY <1>2, <1>5
  <2> QED
    BY <1>6, <1>11, <1>13, <2>1
<1>15. Turned([parser EXCEPT !.reasoning = reasoning], x, reasoning) /\ [parser EXCEPT !.reasoning = reasoning].tools = g
  <2>1. Turned(CodexParser(transport, attempt, opens, store, started, productive, x, reasoning, items, g, m), x, reasoning)
    BY <1>2, <1>5
  <2> QED
    BY <1>7, <1>11, <1>13, <2>1
<1>18. Turned([parser EXCEPT !.tools = tools], x, h) /\ [parser EXCEPT !.tools = tools].tools = tools
  <2>1. Turned(CodexParser(transport, attempt, opens, store, started, productive, x, h, items, tools, m), x, h)
    BY <1>2, <1>5
  <2> QED
    BY <1>9, <1>11, <2>1
<1>19. /\ Turned([parser EXCEPT !.tools = tools, !.hasFunctionCall = made], x, h)
       /\ [parser EXCEPT !.tools = tools, !.hasFunctionCall = made].tools = tools
  <2>1. Turned(CodexParser(transport, attempt, opens, store, started, productive, x, h, items, tools, made), x, h)
    BY <1>2, <1>5
  <2> QED
    BY <1>10, <1>11, <2>1
<1> QED
  BY <1>1, <1>12, <1>13, <1>14, <1>15, <1>18, <1>19

LEMMA TurnsItem ==
  ASSUME CodexTyped, NEW i \in Indices, NEW reasoning, NEW v
  PROVE  Turned(Reopened(reasoning, i, v), parser.text, reasoning) /\ Reopened(reasoning, i, v).tools = Collecting
<1> DEFINE transport == parser.transport
           attempt == parser.attempt
           opens == parser.opens
           store == parser.store
           started == parser.started
           productive == parser.productive
           x == parser.text
           h == parser.reasoning
           items == parser.items
           g == parser.tools
           m == parser.hasFunctionCall
<1>1. g = Collecting /\ \E states : items \in [Indices -> states]
  BY CodexParserIs DEF CodexTyped
<1>2. PICK states : items \in [Indices -> states]
  BY <1>1
<1>3. parser = CodexParser(transport, attempt, opens, store, started, productive, x, h, items, g, m)
  BY CodexParserIs DEF CodexTyped
<1> DEFINE more == [items EXCEPT ![i] = v]
<1>4. more \in [Indices -> states \cup {v}]
  BY <1>2
<1> HIDE DEF transport, attempt, opens, store, started, productive, x, h, items, g, m, more
<1>5. \A t, r, k, gg, mm : \A ss : k \in [Indices -> ss] =>
        Turned(CodexParser(transport, attempt, opens, store, started, productive, t, r, k, gg, mm), t, r)
  <2> SUFFICES ASSUME NEW t, NEW r, NEW k, NEW gg, NEW mm, NEW ss, k \in [Indices -> ss]
               PROVE  Turned(CodexParser(transport, attempt, opens, store, started, productive, t, r, k, gg, mm), t, r)
    OBVIOUS
  <2> QED
    BY DEF Turned, transport, attempt, opens, store, started, productive
<1>7. [parser EXCEPT !.reasoning = reasoning] = CodexParser(transport, attempt, opens, store, started, productive, x, reasoning, items, g, m)
  BY <1>3 DEF CodexParser
<1>8. Reopened(reasoning, i, v)
        = CodexParser(transport, attempt, opens, store, started, productive, x, reasoning, more, g, m)
  <2> DEFINE pp == [parser EXCEPT !.reasoning = reasoning]
  <2>1. Reopened(reasoning, i, v) = [pp EXCEPT !.items[i] = v]
    BY DEF Reopened
  <2>2. pp = CodexParser(transport, attempt, opens, store, started, productive, x, reasoning, items, g, m)
    BY <1>7
  <2> HIDE DEF pp
  <2>3. [pp EXCEPT !.items[i] = v] = CodexParser(transport, attempt, opens, store, started, productive, x, reasoning, more, g, m)
    BY <1>2, <2>2 DEF CodexParser, more
  <2> QED
    BY <2>1, <2>3
<1>11. \A t, r, k, gg, mm : CodexParser(transport, attempt, opens, store, started, productive, t, r, k, gg, mm).tools = gg
  BY DEF CodexParser
<1>12. x = parser.text /\ h = parser.reasoning
  BY DEF x, h
<1>13. Turned(parser, x, h) /\ parser.tools = g
  <2>1. Turned(CodexParser(transport, attempt, opens, store, started, productive, x, h, items, g, m), x, h)
    BY <1>2, <1>5
  <2> QED
    BY <1>3, <1>11, <2>1
<1>17. Turned(Reopened(reasoning, i, v), x, reasoning) /\ Reopened(reasoning, i, v).tools = g
  <2>1. Turned(CodexParser(transport, attempt, opens, store, started, productive, x, reasoning, more, g, m), x, reasoning)
    BY <1>4, <1>5
  <2> QED
    BY <1>8, <1>11, <2>1
<1> QED
  BY <1>1, <1>12, <1>17

\* The ids of an item are apart.
LEMMA PartsApart ==
  ASSUME NEW i \in Nat, NEW j \in Nat, NEW k \in Nat, NEW l \in Nat
  PROVE  PartOfItem(j, k) # Of(i) /\ (PartOfItem(j, k) = PartOfItem(i, l) => j = i /\ k = l)
<1>1. PartOfItem(j, k) # Of(i)
  <2>1. Len(PartOfItem(j, k)) = 3 /\ Len(Of(i)) = 2
    BY DEF PartOfItem, Of
  <2> QED
    BY <2>1
<1> QED
  BY <1>1 DEF PartOfItem

\* What a block that is closed or opened leaves true of the reasoning that is open.
LEMMA FewerThoughts ==
  ASSUME CodexTyped, NEW h \in SUBSET parser.reasoning
  PROVE  h \in SUBSET OfAttempt(parser.attempt) /\ IsFiniteSet(h) /\ \A j \in Indices : PartOfItem(j, 1) \in h => PartOfItem(j, 1) \in parser.reasoning
<1>1. parser.reasoning \in SUBSET OfAttempt(parser.attempt) /\ IsFiniteSet(parser.reasoning)
  BY CodexParserIs DEF CodexTyped
<1> QED
  BY <1>1, FS_Subset

Fresher(i, id) ==
  id = Of(i) \/ \E part \in {0, 1} : id = PartOfItem(i, part) /\ (part = 1 => Kind(i) = "summary" /\ answer.sent[i] >= 4)

LEMMA NewThought ==
  ASSUME CodexTyped, NEW i \in Ready, NEW h \in SUBSET parser.reasoning, NEW id, Fresher(i, id)
  PROVE  /\ id \in OfAttempt(parser.attempt) /\ h \cup {id} \in SUBSET OfAttempt(parser.attempt) /\ IsFiniteSet(h \cup {id})
         /\ \A j \in Indices : PartOfItem(j, 1) \in h \cup {id} =>
              PartOfItem(j, 1) \in parser.reasoning \/ (j = i /\ Kind(i) = "summary" /\ answer.sent[i] >= 4)
<1>1. h \in SUBSET OfAttempt(parser.attempt) /\ IsFiniteSet(h)
  BY FewerThoughts
<1>2. id \in OfAttempt(parser.attempt)
  BY ReadyIs DEF Fresher
<1>3. IsFiniteSet(h \cup {id})
  BY <1>1, FS_AddElement
<1>4. ASSUME NEW j \in Indices, PartOfItem(j, 1) = id
      PROVE  j = i /\ Kind(i) = "summary" /\ answer.sent[i] >= 4
  <2>1. i \in Nat /\ j \in Nat /\ 0 \in Nat /\ 1 \in Nat
    BY ReadyIs, CodexAnswerIs DEF CodexTyped, CodexFar
  <2>2. PartOfItem(j, 1) # Of(i) /\ PartOfItem(j, 1) # PartOfItem(i, 0)
    BY <2>1, PartsApart
  <2>3. id = PartOfItem(i, 1) /\ Kind(i) = "summary" /\ answer.sent[i] >= 4
    BY <1>4, <2>2 DEF Fresher
  <2>4. PartOfItem(j, 1) = PartOfItem(i, 1) => j = i
    BY <2>1, PartsApart
  <2> QED
    BY <1>4, <2>3, <2>4
<1> QED
  BY <1>1, <1>2, <1>3, <1>4

\* The summary parts in some states, one or two or none of those open.
LEMMA PartsInIs ==
  ASSUME NEW i \in Nat, NEW states
  PROVE  \E N \in Nat : /\ PartsIn(i, states) \in [1..N -> parser.reasoning]
                        /\ \A m, n \in 1..N : PartsIn(i, states)[m] = PartsIn(i, states)[n] => m = n
                        /\ ToSet(PartsIn(i, states)) = {PartsIn(i, states)[n] : n \in 1..N}
                        /\ ToSet(PartsIn(i, states)) \subseteq parser.reasoning
<1> DEFINE p == PartOfItem(i, 0)
           r == PartOfItem(i, 1)
           A == parser.items[i][0] \in states /\ p \in parser.reasoning
           B == parser.items[i][1] \in states /\ r \in parser.reasoning
           q == PartsIn(i, states)
           h == parser.reasoning
<1>1. q = (IF A THEN <<p>> ELSE << >>) \o (IF B THEN <<r>> ELSE << >>)
  BY DEF PartsIn
<1>2. p # r
  BY PartsApart
<1>3. (A => p \in h) /\ (B => r \in h)
  OBVIOUS
<1> HIDE DEF p, r, A, B, q, h
<1>4. ASSUME NEW s, NEW N \in Nat, s = q, s \in [1..N -> h], \A m, n \in 1..N : s[m] = s[n] => m = n
      PROVE  \E K \in Nat : /\ q \in [1..K -> h] /\ \A m, n \in 1..K : q[m] = q[n] => m = n
                            /\ ToSet(q) = {q[n] : n \in 1..K} /\ ToSet(q) \subseteq h
  <2>1. DOMAIN q = 1..N
    BY <1>4
  <2> QED
    BY <1>4, <2>1 DEF ToSet
<1>5. CASE A /\ B
  <2>1. q = <<p, r>>
    BY <1>1, <1>5, PairIs
  <2>2. <<p, r>> \in [1..2 -> h] /\ \A m, n \in 1..2 : <<p, r>>[m] = <<p, r>>[n] => m = n
    BY <1>2, <1>3, <1>5
  <2> QED
    BY <2>1, <2>2, <1>4, 2 \in Nat DEF q, h
<1>6. CASE A /\ ~B
  <2>1. q = <<p>>
    <3>1. <<p>> \o << >> = <<p>>
      OBVIOUS
    <3> QED
      BY <1>1, <1>6, <3>1
  <2>2. <<p>> \in [1..1 -> h] /\ \A m, n \in 1..1 : <<p>>[m] = <<p>>[n] => m = n
    BY <1>3, <1>6
  <2> QED
    BY <2>1, <2>2, <1>4, 1 \in Nat DEF q, h
<1>7. CASE ~A /\ B
  <2>1. q = <<r>>
    <3>1. << >> \o <<r>> = <<r>>
      OBVIOUS
    <3> QED
      BY <1>1, <1>7, <3>1
  <2>2. <<r>> \in [1..1 -> h] /\ \A m, n \in 1..1 : <<r>>[m] = <<r>>[n] => m = n
    BY <1>3, <1>7
  <2> QED
    BY <2>1, <2>2, <1>4, 1 \in Nat DEF q, h
<1>8. CASE ~A /\ ~B
  <2>1. q = << >>
    <3>1. << >> \o << >> = << >>
      OBVIOUS
    <3> QED
      BY <1>1, <1>8, <3>1
  <2>2. << >> \in [1..0 -> h] /\ \A m, n \in 1..0 : << >>[m] = << >>[n] => m = n
    OBVIOUS
  <2> QED
    BY <2>1, <2>2, <1>4, 0 \in Nat DEF q, h
<1> QED
  BY <1>5, <1>6, <1>7, <1>8 DEF q, h

\* A block of text that grows, opened first if it is not open.
LEMMA TextSaid ==
  ASSUME NEW a \in Nat, NEW old, NEW gone, Past(a, old, gone), NEW texts, NEW thoughts, NEW inputs, NEW made, NEW id \in OfAttempt(a)
  PROVE  Leads(Now(a, old, gone, texts, thoughts, inputs, made),
               (IF id \in texts THEN << >> ELSE <<Part("text-start", id)>>) \o <<Part("text-delta", id)>>,
               Now(a, old, gone, texts \cup {id}, thoughts, inputs, made))
<1> DEFINE t == texts \cup {id}
           s == Now(a, old, gone, texts, thoughts, inputs, made)
           u == Now(a, old, gone, t, thoughts, inputs, made)
           b == IF id \in texts THEN << >> ELSE <<Part("text-start", id)>>
<1>1. CASE id \in texts
  <2>1. t = texts
    BY <1>1
  <2> HIDE DEF t
  <2> QED
    BY <1>1, <2>1, LeadsNowhere, TextGrows, LeadsOn
<1>2. CASE id \notin texts
  <2>1. Leads(s, <<Part("text-start", id)>>, u)
    BY <1>2, TextStarts
  <2>2. id \in t
    OBVIOUS
  <2> HIDE DEF t
  <2>3. Leads(u, <<Part("text-delta", id)>>, u)
    BY <2>2, TextGrows
  <2> HIDE DEF s, u
  <2>4. Leads(s, <<Part("text-start", id)>> \o <<Part("text-delta", id)>>, u)
    BY <2>1, <2>3, LeadsOn
  <2> QED
    BY <2>4, <1>2 DEF s, u, t
<1> QED
  BY <1>1, <1>2

LEMMA ThoughtOpens ==
  ASSUME NEW a \in Nat, NEW old, NEW gone, Past(a, old, gone), NEW texts, NEW thoughts, NEW inputs, NEW made, NEW id \in OfAttempt(a)
  PROVE  Leads(Now(a, old, gone, texts, thoughts, inputs, made),
               IF id \in thoughts THEN << >> ELSE <<Part("reasoning-start", id)>>,
               Now(a, old, gone, texts, thoughts \cup {id}, inputs, made))
<1> DEFINE t == thoughts \cup {id}
<1>1. CASE id \in thoughts
  <2>1. t = thoughts
    BY <1>1
  <2> HIDE DEF t
  <2> QED
    BY <1>1, <2>1, LeadsNowhere DEF t
<1>2. CASE id \notin thoughts
  BY <1>2, ThoughtStarts
<1> QED
  BY <1>1, <1>2

\* An event of an item that is no tool moves no call.
LEMMA NoCallMoves ==
  ASSUME CodexTyped, NEW i \in Ready, NEW types, NEW next, NEW out, Step(i, types, next, out),
         Kind(i) \notin {"function_call", "web_search_call"}
  PROVE  Collecting' = Collecting /\ MadeCalls' = MadeCalls
<1>1. answer' = [answer EXCEPT !.sent[i] = @ + 1]
  BY DEF Step
<1> QED
  BY <1>1, SentNext

LEMMA PlacedIs ==
  ASSUME CodexTyped, NEW i \in Ready, NEW types, NEW next, NEW out, Step(i, types, next, out)
  PROVE  Upcoming(i).type \in types /\ CodexPlaced(Kind(i), answer.sent[i], Upcoming(i)) /\ i \in Indices /\ i \in Nat
         /\ parser.attempt \in Nat /\ Kind(i) \in CodexTypes
  BY ReadyIs DEF Step

LEMMA TextDeltaKeeps == ASSUME CodexInv, NEW i \in Ready, OnOutputTextDelta(i) PROVE CodexInv'
<1> DEFINE a == parser.attempt
           x == parser.text
           h == parser.reasoning
           id == Of(i)
           types == {"text_delta"}
           text == x \cup {id}
           next == [parser EXCEPT !.text = text]
           out == (IF id \in x THEN << >> ELSE <<Part("text-start", id)>>) \o <<Part("text-delta", id)>>
<1>0. CodexTyped
  BY DEF CodexInv
<1>1. Step(i, types, next, out)
  BY DEF OnOutputTextDelta
<1>2. Turned(next, text, h) /\ next.tools = Collecting /\ i \in Nat
  BY <1>0, ReadyIs, Turns
<1>3. a \in Nat /\ id \in OfAttempt(a)
  BY <1>0, ReadyIs
<1>4. h \in SUBSET OfAttempt(a) /\ IsFiniteSet(h) /\ text \in SUBSET OfAttempt(a) /\ IsFiniteSet(text)
  BY <1>0, <1>3, CodexParserIs, FS_AddElement DEF CodexTyped
<1>5. \A old, gone : Past(a, old, gone) =>
        Leads(Now(a, old, gone, x, h, Collecting, MadeCalls), out, Now(a, old, gone, text, h, Collecting, MadeCalls))
  BY <1>3, TextSaid
<1> HIDE DEF a, x, h, id, text, next, out
<1>6. Kind(i) = "message"
  BY <1>0, <1>1, PlacedIs DEF CodexPlaced
<1>7. Collecting' = Collecting /\ MadeCalls' = MadeCalls
  BY <1>0, <1>1, <1>6, NoCallMoves
<1>8. \A old, gone : Past(a, old, gone) =>
        Leads(Now(a, old, gone, x, h, Collecting, MadeCalls), out, Now(a, old, gone, text, h, Collecting', MadeCalls'))
  BY <1>5, <1>7
<1>9. \A j \in Indices : PartOfItem(j, 1) \in h => PartOfItem(j, 1) \in parser.reasoning
  BY DEF h
<1>10. next.tools = Collecting'
  BY <1>2, <1>7
<1>11. CodexInv'
  BY <1>1, <1>2, <1>4, <1>8, <1>9, <1>10, StepKeeps DEF a, x, h
<1> QED
  BY <1>11

\* A step that turns one set of open reasoning into another.
LEMMA ThoughtsKeep ==
  ASSUME CodexInv, NEW i \in Ready, NEW types, NEW next, NEW out, Step(i, types, next, out),
         Kind(i) \notin {"function_call", "web_search_call"}, NEW reasoning \in SUBSET OfAttempt(parser.attempt), IsFiniteSet(reasoning),
         Turned(next, parser.text, reasoning), next.tools = Collecting,
         \A j \in Indices : PartOfItem(j, 1) \in reasoning =>
           PartOfItem(j, 1) \in parser.reasoning \/ (j = i /\ Kind(i) = "summary" /\ answer.sent[i] >= 4),
         \A old, gone, texts, inputs, made : Past(parser.attempt, old, gone) =>
           Leads(Now(parser.attempt, old, gone, texts, parser.reasoning, inputs, made), out,
                 Now(parser.attempt, old, gone, texts, reasoning, inputs, made))
  PROVE  CodexInv'
<1> DEFINE x == parser.text
<1>0. CodexTyped
  BY DEF CodexInv
<1>1. Collecting' = Collecting /\ MadeCalls' = MadeCalls
  BY <1>0, NoCallMoves
<1>2. x \in SUBSET OfAttempt(parser.attempt) /\ IsFiniteSet(x)
  BY <1>0, CodexParserIs DEF CodexTyped
<1>3. \A old, gone : Past(parser.attempt, old, gone) =>
        Leads(Now(parser.attempt, old, gone, x, parser.reasoning, Collecting, MadeCalls), out,
              Now(parser.attempt, old, gone, x, reasoning, Collecting', MadeCalls'))
  BY <1>1
<1>4. next.tools = Collecting' /\ Turned(next, x, reasoning)
  BY <1>1
<1> HIDE DEF x
<1> QED
  BY <1>2, <1>3, <1>4, StepKeeps DEF x

LEMMA ReasoningDeltaKeeps == ASSUME CodexInv, NEW i \in Ready, OnReasoningDelta(i) PROVE CodexInv'
<1> DEFINE a == parser.attempt
           h == parser.reasoning
           id == IF Upcoming(i).type = "summary_delta" \/ parser.items[i] # None
                 THEN PartOfItem(i, Upcoming(i).part) ELSE Of(i)
           types == {"summary_delta", "reasoning_delta"}
           reasoning == h \cup {id}
           next == [parser EXCEPT !.reasoning = reasoning]
           out == ReasoningStarts(id) \o <<Part("reasoning-delta", id)>>
<1>0. CodexTyped
  BY DEF CodexInv
<1>1. Step(i, types, next, out)
  BY DEF OnReasoningDelta
<1> HIDE DEF reasoning
<1>2. Turned(next, parser.text, reasoning) /\ next.tools = Collecting
  BY <1>0, Turns
<1> HIDE DEF next, out
<1>3. CodexPlaced(Kind(i), answer.sent[i], Upcoming(i)) /\ Upcoming(i).type \in types /\ a \in Nat
  BY <1>0, <1>1, PlacedIs
<1>4. Kind(i) \in {"summary", "summary_no_start", "reasoning_text"} /\ Fresher(i, id)
  BY <1>3 DEF CodexPlaced, Fresher
<1> HIDE DEF id
<1>5. /\ id \in OfAttempt(a) /\ reasoning \in SUBSET OfAttempt(a) /\ IsFiniteSet(reasoning)
      /\ \A j \in Indices : PartOfItem(j, 1) \in reasoning =>
           PartOfItem(j, 1) \in parser.reasoning \/ (j = i /\ Kind(i) = "summary" /\ answer.sent[i] >= 4)
  BY <1>0, <1>4, NewThought DEF reasoning
<1>6. ASSUME NEW old, NEW gone, NEW texts, NEW inputs, NEW made, Past(a, old, gone)
      PROVE  Leads(Now(a, old, gone, texts, h, inputs, made), out, Now(a, old, gone, texts, reasoning, inputs, made))
  <2> HIDE DEF a, h
  <2> DEFINE u == Now(a, old, gone, texts, reasoning, inputs, made)
             s == Now(a, old, gone, texts, h, inputs, made)
             b == ReasoningStarts(id)
  <2>1. Leads(s, b, u)
    BY <1>3, <1>5, <1>6, ThoughtOpens DEF ReasoningStarts, reasoning, h
  <2>2. Leads(u, <<Part("reasoning-delta", id)>>, u)
    BY <1>3, <1>5, <1>6, ThoughtGrows DEF reasoning
  <2>3. out = b \o <<Part("reasoning-delta", id)>>
    BY DEF out
  <2> HIDE DEF s, u, b
  <2>4. Leads(s, out, u)
    BY <2>1, <2>2, <2>3, LeadsOn
  <2> QED
    BY <2>4 DEF s, u
<1> HIDE DEF types
<1> QED
  BY <1>1, <1>2, <1>4, <1>5, <1>6, ThoughtsKeep DEF a, h

\* A block of reasoning opens, if it is not open.
LEMMA OpeningKeeps ==
  ASSUME CodexInv, NEW i \in Ready, NEW types, NEW id, Fresher(i, id), NEW v,
         Step(i, types, [parser EXCEPT !.reasoning = @ \cup {id}, !.items[i] = v], ReasoningStarts(id)),
         Kind(i) \notin {"function_call", "web_search_call"}
  PROVE  CodexInv'
<1> DEFINE a == parser.attempt
           h == parser.reasoning
           reasoning == h \cup {id}
           next == Reopened(reasoning, i, v)
           out == ReasoningStarts(id)
<1>0. CodexTyped
  BY DEF CodexInv
<1>1. Step(i, types, next, out)
  BY DEF Reopened
<1> HIDE DEF reasoning
<1>7. i \in Indices
  BY <1>0, ReadyIs
<1>2. Turned(next, parser.text, reasoning) /\ next.tools = Collecting
  BY <1>0, <1>7, TurnsItem
<1> HIDE DEF next, out
<1>3. a \in Nat
  BY <1>0, ReadyIs
<1>5. /\ id \in OfAttempt(a) /\ reasoning \in SUBSET OfAttempt(a) /\ IsFiniteSet(reasoning)
      /\ \A j \in Indices : PartOfItem(j, 1) \in reasoning =>
           PartOfItem(j, 1) \in parser.reasoning \/ (j = i /\ Kind(i) = "summary" /\ answer.sent[i] >= 4)
  BY <1>0, NewThought DEF reasoning
<1>6. ASSUME NEW old, NEW gone, NEW texts, NEW inputs, NEW made, Past(a, old, gone)
      PROVE  Leads(Now(a, old, gone, texts, h, inputs, made), out, Now(a, old, gone, texts, reasoning, inputs, made))
  <2> HIDE DEF a, h
  <2> QED
    BY <1>3, <1>5, <1>6, ThoughtOpens DEF ReasoningStarts, reasoning, out, h
<1> QED
  BY <1>1, <1>2, <1>5, <1>6, ThoughtsKeep DEF a, h

LEMMA ReasoningAddedKeeps == ASSUME CodexInv, NEW i \in Ready, OnReasoningAdded(i) PROVE CodexInv'
<1> DEFINE id == PartOfItem(i, 0)
           v == FirstStarted
           types == {"added"}
<1>1. /\ Step(i, types, [parser EXCEPT !.reasoning = @ \cup {id}, !.items[i] = v], ReasoningStarts(id))
      /\ Kind(i) = "summary"
  BY DEF OnReasoningAdded
<1>2. Fresher(i, id)
  BY DEF Fresher
<1> HIDE DEF id, v, types
<1> QED
  BY <1>1, <1>2, OpeningKeeps

\* An event that opens and closes nothing.
LEMMA NothingKeeps ==
  ASSUME CodexInv, NEW i \in Ready, NEW types, Step(i, types, parser, << >>), Kind(i) \notin {"function_call", "web_search_call"}
  PROVE  CodexInv'
<1> DEFINE h == parser.reasoning
           next == parser
           out == << >>
<1>0. CodexTyped
  BY DEF CodexInv
<1>1. Step(i, types, next, out)
  OBVIOUS
<1>2. Turned(next, parser.text, h) /\ next.tools = Collecting
  BY <1>0, ReadyIs, Turns
<1>3. h \in SUBSET OfAttempt(parser.attempt) /\ IsFiniteSet(h)
  BY <1>0, CodexParserIs DEF CodexTyped
<1>4. \A old, gone, texts, inputs, made : Past(parser.attempt, old, gone) =>
        Leads(Now(parser.attempt, old, gone, texts, h, inputs, made), out, Now(parser.attempt, old, gone, texts, h, inputs, made))
  BY LeadsNowhere
<1>5. \A j \in Indices : PartOfItem(j, 1) \in h => PartOfItem(j, 1) \in parser.reasoning
  OBVIOUS
<1> HIDE DEF h, next, out
<1> QED
  BY <1>1, <1>2, <1>3, <1>4, <1>5, ThoughtsKeep DEF h

LEMMA OtherItemKeeps == ASSUME CodexInv, NEW i \in Ready, OnOtherItem(i) PROVE CodexInv'
<1> DEFINE none == << >>
<1>0. CodexTyped
  BY DEF CodexInv
<1>1. CASE Kind(i) = "message"
  <2>1. \E types : Step(i, types, parser, << >>)
    BY <1>1 DEF OnOtherItem
  <2> QED
    BY <1>1, <2>1, NothingKeeps
<1>2. CASE Kind(i) = "web_search_call"
  <2> DEFINE x == parser.text
             h == parser.reasoning
             next == parser
             out == << >>
             types == {"added"}
  <2>1. Step(i, types, next, out)
    BY <1>2 DEF OnOtherItem
  <2>2. Turned(next, x, h) /\ next.tools = Collecting
    BY <1>0, Turns
  <2>3. x \in SUBSET OfAttempt(parser.attempt) /\ IsFiniteSet(x) /\ h \in SUBSET OfAttempt(parser.attempt) /\ IsFiniteSet(h)
    BY <1>0, CodexParserIs DEF CodexTyped
  <2>4. \A old, gone : Past(parser.attempt, old, gone) =>
          Leads(Now(parser.attempt, old, gone, x, h, Collecting, MadeCalls), out, Now(parser.attempt, old, gone, x, h, Collecting, MadeCalls))
    BY LeadsNowhere
  <2>5. \A j \in Indices : PartOfItem(j, 1) \in h => PartOfItem(j, 1) \in parser.reasoning
    OBVIOUS
  <2>6. answer' = [answer EXCEPT !.sent[i] = @ + 1]
    BY <2>1 DEF Step
  <2>7. answer.sent[i] = 0
    BY <1>0, <2>1, PlacedIs DEF CodexPlaced
  <2>8. answer.sent[i] # Events(Kind(i)) - 1
    BY <1>2, <2>7 DEF Events
  <2>9. Collecting' = Collecting /\ MadeCalls' = MadeCalls
    BY <1>0, <1>2, <2>6, <2>8, SentNext
  <2> HIDE DEF x, h, next, out, types
  <2>10. \A old, gone : Past(parser.attempt, old, gone) =>
           Leads(Now(parser.attempt, old, gone, x, h, Collecting, MadeCalls), out, Now(parser.attempt, old, gone, x, h, Collecting', MadeCalls'))
    BY <2>4, <2>9
  <2>11. next.tools = Collecting'
    BY <2>2, <2>9
  <2> QED
    BY <2>1, <2>2, <2>3, <2>5, <2>10, <2>11, StepKeeps DEF x, h
<1> QED
  BY <1>1, <1>2 DEF OnOtherItem

LEMMA PartDoneKeeps == ASSUME CodexInv, NEW i \in Ready, OnReasoningSummaryPartDone(i) PROVE CodexInv'
<1> DEFINE a == parser.attempt
           h == parser.reasoning
           part == Upcoming(i).part
           id == PartOfItem(i, part)
           ends == parser.store /\ id \in h
           v == PartDone(parser.items[i], part, parser.store)
           types == {"part_done"}
           reasoning == IF ends THEN h \ {id} ELSE h
           next == Reopened(reasoning, i, v)
           out == IF ends THEN <<Part("reasoning-end", id)>> ELSE << >>
<1>0. CodexTyped
  BY DEF CodexInv
<1>1. Step(i, types, next, out)
  BY DEF OnReasoningSummaryPartDone, Reopened
<1>2. reasoning \in SUBSET h
  OBVIOUS
<1>3. CodexPlaced(Kind(i), answer.sent[i], Upcoming(i)) /\ Upcoming(i).type \in types /\ a \in Nat
  BY <1>0, <1>1, PlacedIs
<1>4. Kind(i) \in {"summary", "summary_no_start", "reasoning_text"} /\ part \in {0, 1}
  BY <1>3 DEF CodexPlaced
<1>5. id \in OfAttempt(a)
  BY <1>0, <1>4, ReadyIs
<1>6. ASSUME NEW old, NEW gone, NEW texts, NEW inputs, NEW made, Past(a, old, gone)
      PROVE  Leads(Now(a, old, gone, texts, h, inputs, made), out, Now(a, old, gone, texts, reasoning, inputs, made))
  <2> HIDE DEF a, h, id
  <2>1. CASE ends
    BY <1>3, <1>5, <1>6, <2>1, ThoughtEnds
  <2>2. CASE ~ends
    BY <2>2, LeadsNowhere
  <2> QED
    BY <2>1, <2>2
<1> HIDE DEF reasoning, v, next
<1>7. Turned(next, parser.text, reasoning) /\ next.tools = Collecting
  <2>1. i \in Indices
    BY <1>0, ReadyIs
  <2> QED
    BY <1>0, <2>1, TurnsItem DEF next
<1>8. reasoning \in SUBSET OfAttempt(a) /\ IsFiniteSet(reasoning) /\ \A j \in Indices : PartOfItem(j, 1) \in reasoning => PartOfItem(j, 1) \in h
  BY <1>0, <1>2, FewerThoughts
<1> HIDE DEF types, out, id, part, ends
<1> QED
  BY <1>1, <1>4, <1>6, <1>7, <1>8, ThoughtsKeep DEF a, h

\* The parts that may conclude end, and the next one starts.
LEMMA LaterPartKeeps ==
  ASSUME CodexInv, NEW i \in Ready, OnReasoningSummaryPartAdded(i), Upcoming(i).part # 0
  PROVE  CodexInv'
<1> DEFINE a == parser.attempt
           h == parser.reasoning
           part == Upcoming(i).part
           ended == PartsIn(i, {"can-conclude"})
           id == PartOfItem(i, 1)
           v == LaterStarted(parser.items[i], 1)
           types == {"part_added"}
           rest == h \ ToSet(ended)
           reasoning == rest \cup {id}
           next == Reopened(reasoning, i, v)
           out == ReasoningEnds(ended) \o ReasoningStarts(id)
<1>0. CodexTyped
  BY DEF CodexInv
<1>1. Step(i, types, [parser EXCEPT !.reasoning = (@ \ ToSet(ended)) \cup {PartOfItem(i, part)},
                                    !.items[i] = LaterStarted(@, part)],
           ReasoningEnds(ended) \o ReasoningStarts(PartOfItem(i, part)))
  BY DEF OnReasoningSummaryPartAdded
<1>2. CodexPlaced(Kind(i), answer.sent[i], Upcoming(i)) /\ Upcoming(i).type = "part_added" /\ i \in Indices /\ i \in Nat /\ a \in Nat
  <2> HIDE DEF ended, part
  <2>1. Upcoming(i).type \in types /\ CodexPlaced(Kind(i), answer.sent[i], Upcoming(i)) /\ i \in Indices /\ i \in Nat /\ a \in Nat
    BY <1>0, <1>1, PlacedIs
  <2> QED
    BY <2>1
<1>3. part = 1 /\ Kind(i) = "summary" /\ answer.sent[i] = 4
  BY <1>2 DEF CodexPlaced
<1>4. Step(i, types, next, out)
  <2> HIDE DEF ended
  <2> QED
    BY <1>1, <1>3 DEF Reopened
<1>5. id \notin h
  BY <1>0, <1>2, <1>3 DEF CodexTyped, LaterParts
<1>6. Fresher(i, id)
  BY <1>3 DEF Fresher
<1>7. \E N \in Nat : /\ ended \in [1..N -> h] /\ \A m, n \in 1..N : ended[m] = ended[n] => m = n
                     /\ ToSet(ended) = {ended[n] : n \in 1..N} /\ ToSet(ended) \subseteq h
  BY <1>2, PartsInIs
<1> HIDE DEF next, v, ended, id
<1>8. rest \in SUBSET parser.reasoning
  OBVIOUS
<1>9. /\ id \in OfAttempt(a) /\ reasoning \in SUBSET OfAttempt(a) /\ IsFiniteSet(reasoning)
      /\ \A j \in Indices : PartOfItem(j, 1) \in reasoning =>
           PartOfItem(j, 1) \in parser.reasoning \/ (j = i /\ Kind(i) = "summary" /\ answer.sent[i] >= 4)
  <2> HIDE DEF rest
  <2> QED
    BY <1>0, <1>6, <1>8, NewThought
<1>10. Turned(next, parser.text, reasoning) /\ next.tools = Collecting
  <2> HIDE DEF reasoning
  <2> QED
    BY <1>0, <1>2, TurnsItem DEF next
<1>11. h \in SUBSET OfAttempt(a)
  BY <1>0, CodexParserIs DEF CodexTyped
<1>12. ASSUME NEW old, NEW gone, NEW texts, NEW inputs, NEW made, Past(a, old, gone)
       PROVE  Leads(Now(a, old, gone, texts, h, inputs, made), out, Now(a, old, gone, texts, reasoning, inputs, made))
  <2> DEFINE s == Now(a, old, gone, texts, h, inputs, made)
             t == Now(a, old, gone, texts, rest, inputs, made)
             u == Now(a, old, gone, texts, reasoning, inputs, made)
             A == ReasoningEnds(ended)
             B == ReasoningStarts(id)
  <2>0. a \in Nat /\ h \in SUBSET OfAttempt(a) /\ id \in OfAttempt(a) /\ id \notin rest /\ reasoning = rest \cup {id}
    BY <1>2, <1>5, <1>9, <1>11
  <2>1. B = <<Part("reasoning-start", id)>>
    BY <1>5 DEF ReasoningStarts
  <2>2. PICK N \in Nat : /\ ended \in [1..N -> h] /\ \A m, n \in 1..N : ended[m] = ended[n] => m = n
                         /\ ToSet(ended) = {ended[n] : n \in 1..N}
    BY <1>7
  <2> HIDE DEF a, h
  <2>3. Leads(s, A, Now(a, old, gone, texts, h \ {ended[n] : n \in 1..N}, inputs, made))
    BY <1>12, <2>0, <2>2, ThoughtsEnd
  <2>4. Leads(s, A, t)
    BY <2>2, <2>3
  <2> HIDE DEF rest, reasoning
  <2>5. Leads(t, <<Part("reasoning-start", id)>>, u)
    BY <1>12, <2>0, ThoughtStarts
  <2> HIDE DEF s, t, u, A, B
  <2>6. Leads(s, A \o B, u)
    BY <2>1, <2>4, <2>5, LeadsOn
  <2> QED
    BY <2>6 DEF s, u, A, B
<1>13. Kind(i) \notin {"function_call", "web_search_call"}
  BY <1>3
<1> HIDE DEF types, out, reasoning
<1> QED
  BY <1>4, <1>9, <1>10, <1>12, <1>13, ThoughtsKeep DEF a, h

LEMMA PartAddedKeeps == ASSUME CodexInv, NEW i \in Ready, OnReasoningSummaryPartAdded(i) PROVE CodexInv'
<1> DEFINE id == PartOfItem(i, 0)
           v == FirstStarted
           types == {"part_added"}
<1>0. CodexTyped
  BY DEF CodexInv
<1>1. CASE Upcoming(i).part = 0 /\ parser.items[i] # None
  <2>1. Step(i, types, parser, << >>)
    BY <1>1 DEF OnReasoningSummaryPartAdded
  <2>2. Kind(i) \notin {"function_call", "web_search_call"}
    <3>1. Upcoming(i).type \in types /\ CodexPlaced(Kind(i), answer.sent[i], Upcoming(i))
      BY <1>0, <2>1, PlacedIs
    <3> QED
      BY <3>1 DEF CodexPlaced
  <2> QED
    BY <2>1, <2>2, NothingKeeps
<1>2. CASE Upcoming(i).part = 0 /\ parser.items[i] = None
  <2>1. Step(i, types, [parser EXCEPT !.reasoning = @ \cup {id}, !.items[i] = v], ReasoningStarts(id))
    BY <1>2 DEF OnReasoningSummaryPartAdded
  <2>2. Fresher(i, id)
    BY DEF Fresher
  <2> HIDE DEF id, v
  <2>3. Kind(i) \notin {"function_call", "web_search_call"}
    <3>1. Upcoming(i).type \in types /\ CodexPlaced(Kind(i), answer.sent[i], Upcoming(i))
      BY <1>0, <2>1, PlacedIs
    <3> QED
      BY <3>1 DEF CodexPlaced
  <2> HIDE DEF types
  <2> QED
    BY <2>1, <2>2, <2>3, OpeningKeeps
<1>3. CASE Upcoming(i).part # 0
  BY <1>3, LaterPartKeeps
<1> QED
  BY <1>1, <1>2, <1>3

\* A step that moves the calls.
LEMMA CallsKeep ==
  ASSUME CodexInv, NEW i \in Ready, NEW types, NEW next, NEW out, Step(i, types, next, out),
         Turned(next, parser.text, parser.reasoning), next.tools = Collecting',
         \A old, gone, texts, thoughts : Past(parser.attempt, old, gone) =>
           Leads(Now(parser.attempt, old, gone, texts, thoughts, Collecting, MadeCalls), out,
                 Now(parser.attempt, old, gone, texts, thoughts, Collecting', MadeCalls'))
  PROVE  CodexInv'
<1> DEFINE x == parser.text
           h == parser.reasoning
<1>1. CodexTyped
  BY DEF CodexInv
<1>2. x \in SUBSET OfAttempt(parser.attempt) /\ IsFiniteSet(x) /\ h \in SUBSET OfAttempt(parser.attempt) /\ IsFiniteSet(h)
  BY <1>1, CodexParserIs DEF CodexTyped
<1>3. \A old, gone : Past(parser.attempt, old, gone) =>
        Leads(Now(parser.attempt, old, gone, x, h, Collecting, MadeCalls), out, Now(parser.attempt, old, gone, x, h, Collecting', MadeCalls'))
  OBVIOUS
<1>4. \A j \in Indices : PartOfItem(j, 1) \in h => PartOfItem(j, 1) \in parser.reasoning
  OBVIOUS
<1>5. Turned(next, x, h)
  OBVIOUS
<1> HIDE DEF x, h
<1> QED
  BY <1>2, <1>3, <1>4, <1>5, StepKeeps DEF x, h

LEMMA CallAddedKeeps == ASSUME CodexInv, NEW i \in Ready, OnFunctionCallAdded(i) PROVE CodexInv'
<1> DEFINE a == parser.attempt
           types == {"added"}
           tools == start(parser.tools, i)
           next == [parser EXCEPT !.tools = tools]
           out == <<Part("tool-input-start", Of(i))>>
<1>0. CodexTyped
  BY DEF CodexInv
<1>1. Step(i, types, next, out) /\ Kind(i) = "function_call"
  BY DEF OnFunctionCallAdded
<1>2. answer' = [answer EXCEPT !.sent[i] = @ + 1]
  BY <1>1 DEF Step
<1>3. answer.sent[i] = 0 /\ i \in Nat /\ a \in Nat
  <2> HIDE DEF next, out
  <2> QED
    BY <1>0, <1>1, PlacedIs DEF CodexPlaced
<1>4. answer.sent[i] # Events(Kind(i)) - 1
  BY <1>1, <1>3 DEF Events
<1>5. Collecting' = Collecting \cup {i} /\ MadeCalls' = MadeCalls /\ i \notin Collecting
  <2>1. answer.sent[i] \in {0, 1} /\ answer.sent[i] \notin {1, 2} /\ Kind(i) = "function_call"
    BY <1>1, <1>3
  <2> HIDE DEF types, next, out, tools
  <2>2. i \notin Collecting
    BY <1>0, <1>2, <2>1, SentNext
  <2>3. Collecting' = Collecting \cup {i} /\ MadeCalls' = MadeCalls
    BY <1>0, <1>2, <1>4, <2>1, SentNext
  <2> QED
    BY <2>2, <2>3
<1>6. tools = Collecting'
  BY <1>0, <1>5, CodexParserIs DEF CodexTyped, start
<1> HIDE DEF tools
<1>7. Turned(next, parser.text, parser.reasoning) /\ next.tools = tools
  BY <1>0, Turns
<1>8. Of(i) = <<a, i>>
  BY DEF Of
<1> HIDE DEF next, out, types
<1>9. ASSUME NEW old, NEW gone, NEW texts, NEW thoughts, Past(a, old, gone)
      PROVE  Leads(Now(a, old, gone, texts, thoughts, Collecting, MadeCalls), out, Now(a, old, gone, texts, thoughts, Collecting', MadeCalls'))
  <2> DEFINE g == Collecting
             m == MadeCalls
  <2>1. i \notin g /\ Collecting' = g \cup {i} /\ MadeCalls' = m
    BY <1>5
  <2> HIDE DEF g, m, a
  <2>2. Leads(Now(a, old, gone, texts, thoughts, g, m), <<Part("tool-input-start", <<a, i>>)>>, Now(a, old, gone, texts, thoughts, g \cup {i}, m))
    BY <1>3, <1>9, <2>1, InputStarts
  <2>3. Leads(Now(a, old, gone, texts, thoughts, g, m), out, Now(a, old, gone, texts, thoughts, Collecting', MadeCalls'))
    BY <1>8, <2>1, <2>2 DEF out
  <2> QED
    BY <2>3 DEF g, m
<1> QED
  BY <1>1, <1>6, <1>7, <1>9, CallsKeep DEF a

LEMMA ArgumentsKeep == ASSUME CodexInv, NEW i \in Ready, OnFunctionCallArgumentsDelta(i) PROVE CodexInv'
<1> DEFINE a == parser.attempt
           types == {"arguments_delta"}
           next == parser
           out == appendExisting(parser.tools, i)
<1>0. CodexTyped
  BY DEF CodexInv
<1>1. Step(i, types, next, out) /\ i \in parser.tools
  BY DEF OnFunctionCallArgumentsDelta
<1>2. answer' = [answer EXCEPT !.sent[i] = @ + 1]
  BY <1>1 DEF Step
<1>3. answer.sent[i] = 1 /\ Kind(i) = "function_call" /\ i \in Nat /\ a \in Nat
  <2> HIDE DEF next, out
  <2> QED
    BY <1>0, <1>1, PlacedIs DEF CodexPlaced
<1>4. answer.sent[i] # Events(Kind(i)) - 1
  BY <1>3 DEF Events
<1>5. parser.tools = Collecting
  BY <1>0, CodexParserIs DEF CodexTyped
<1>6. Collecting' = Collecting \cup {i} /\ MadeCalls' = MadeCalls
  BY <1>0, <1>2, <1>3, <1>4, SentNext
<1>7. i \in Collecting /\ Collecting' = Collecting
  BY <1>1, <1>5, <1>6
<1>8. Turned(next, parser.text, parser.reasoning) /\ next.tools = Collecting
  BY <1>0, Turns
<1>9. out = <<Part("tool-input-delta", <<a, i>>)>>
  BY <1>1 DEF Of, appendExisting
<1> HIDE DEF next, out, types
<1>10. ASSUME NEW old, NEW gone, NEW texts, NEW thoughts, Past(a, old, gone)
       PROVE  Leads(Now(a, old, gone, texts, thoughts, Collecting, MadeCalls), out, Now(a, old, gone, texts, thoughts, Collecting', MadeCalls'))
  <2> DEFINE g == Collecting
             m == MadeCalls
  <2>1. i \in g /\ Collecting' = g /\ MadeCalls' = m
    BY <1>6, <1>7
  <2> HIDE DEF g, m, a
  <2>2. Leads(Now(a, old, gone, texts, thoughts, g, m), <<Part("tool-input-delta", <<a, i>>)>>, Now(a, old, gone, texts, thoughts, g, m))
    BY <1>3, <1>10, <2>1, InputGrows
  <2>3. Leads(Now(a, old, gone, texts, thoughts, g, m), out, Now(a, old, gone, texts, thoughts, Collecting', MadeCalls'))
    BY <1>9, <2>1, <2>2
  <2> QED
    BY <2>3 DEF g, m
<1>11. next.tools = Collecting'
  BY <1>7, <1>8
<1> QED
  BY <1>1, <1>8, <1>10, <1>11, CallsKeep DEF a

LEMMA CallDoneKeeps == ASSUME CodexInv, NEW i \in Ready, OnFunctionCallDone(i) PROVE CodexInv'
<1> DEFINE a == parser.attempt
           types == {"done"}
           tools == finishWithInput(parser.tools, i)
           data == <<Kind(i), "client">>
           next == [parser EXCEPT !.tools = tools, !.hasFunctionCall = TRUE]
           out == <<Part("tool-input-end", Of(i)), CallOf(i)>>
<1>0. CodexTyped
  BY DEF CodexInv
<1>1. Step(i, types, next, out) /\ Kind(i) = "function_call"
  BY DEF OnFunctionCallDone
<1>2. answer' = [answer EXCEPT !.sent[i] = @ + 1]
  BY <1>1 DEF Step
<1>3. answer.sent[i] = Events(Kind(i)) - 1 /\ i \in Nat /\ a \in Nat
  <2> HIDE DEF next, out
  <2> QED
    BY <1>0, <1>1, PlacedIs DEF CodexPlaced
<1>4. answer.sent[i] = 2
  BY <1>1, <1>3 DEF Events
<1>5. /\ Collecting' = Collecting \ {i} /\ MadeCalls' = MadeCalls \cup {i} /\ i \in Collecting /\ i \notin MadeCalls
  BY <1>0, <1>1, <1>2, <1>3, <1>4, SentNext
<1>6. tools = Collecting'
  BY <1>0, <1>5, CodexParserIs DEF CodexTyped, finishWithInput
<1> HIDE DEF tools
<1>7. Turned(next, parser.text, parser.reasoning) /\ next.tools = tools
  <2> DEFINE made == TRUE
             nn == [parser EXCEPT !.tools = tools, !.hasFunctionCall = made]
  <2> HIDE DEF made
  <2>1. Turned(nn, parser.text, parser.reasoning) /\ nn.tools = tools
    BY <1>0, Turns
  <2> QED
    BY <2>1 DEF made
<1>8. out = <<Part("tool-input-end", <<a, i>>)>> \o <<PartOf("tool-call", <<a, i>>, data)>>
  BY PairIs DEF Of, CallOf
<1> HIDE DEF next, out, types, data
<1>9. ASSUME NEW old, NEW gone, NEW texts, NEW thoughts, Past(a, old, gone)
      PROVE  Leads(Now(a, old, gone, texts, thoughts, Collecting, MadeCalls), out, Now(a, old, gone, texts, thoughts, Collecting', MadeCalls'))
  <2> DEFINE g == Collecting
             m == MadeCalls
             k == g \ {i}
             s == Now(a, old, gone, texts, thoughts, g, m)
             t == Now(a, old, gone, texts, thoughts, k, m)
             u == Now(a, old, gone, texts, thoughts, k, m \cup {i})
  <2>1. i \in g /\ i \notin m /\ Collecting' = k /\ MadeCalls' = m \cup {i} /\ i \notin k
    BY <1>5
  <2> HIDE DEF g, m, a
  <2>2. Leads(s, <<Part("tool-input-end", <<a, i>>)>>, t)
    BY <1>3, <1>9, <2>1, InputEnds
  <2> HIDE DEF k
  <2>3. Leads(t, <<PartOf("tool-call", <<a, i>>, data)>>, u)
    BY <1>3, <1>9, <2>1, CallMade
  <2>4. Leads(s, out, u)
    <3> HIDE DEF s, t, u
    <3> QED
      BY <1>8, <2>2, <2>3, LeadsOn
  <2>5. Leads(s, out, Now(a, old, gone, texts, thoughts, Collecting', MadeCalls'))
    BY <2>1, <2>4
  <2> QED
    BY <2>5 DEF g, m
<1> QED
  BY <1>1, <1>6, <1>7, <1>9, CallsKeep DEF a

LEMMA HostedKeeps == ASSUME CodexInv, NEW i \in Ready, OnHostedToolDone(i) PROVE CodexInv'
<1> DEFINE a == parser.attempt
           types == {"done"}
           data == <<Kind(i), "client">>
           next == parser
           out == <<CallOf(i)>>
<1>0. CodexTyped
  BY DEF CodexInv
<1>1. Step(i, types, next, out) /\ Kind(i) = "web_search_call"
  BY DEF OnHostedToolDone
<1>2. answer' = [answer EXCEPT !.sent[i] = @ + 1]
  BY <1>1 DEF Step
<1>3. answer.sent[i] = Events(Kind(i)) - 1 /\ i \in Nat /\ a \in Nat
  <2> HIDE DEF next, out
  <2> QED
    BY <1>0, <1>1, PlacedIs DEF CodexPlaced
<1>5. Collecting' = Collecting /\ MadeCalls' = MadeCalls \cup {i} /\ i \notin Collecting /\ i \notin MadeCalls
  BY <1>0, <1>1, <1>2, <1>3, SentNext
<1>7. Turned(next, parser.text, parser.reasoning) /\ next.tools = Collecting
  BY <1>0, Turns
<1>8. out = <<PartOf("tool-call", <<a, i>>, data)>>
  BY DEF Of, CallOf
<1> HIDE DEF next, out, types, data
<1>9. ASSUME NEW old, NEW gone, NEW texts, NEW thoughts, Past(a, old, gone)
      PROVE  Leads(Now(a, old, gone, texts, thoughts, Collecting, MadeCalls), out, Now(a, old, gone, texts, thoughts, Collecting', MadeCalls'))
  <2> DEFINE g == Collecting
             m == MadeCalls
             s == Now(a, old, gone, texts, thoughts, g, m)
  <2>1. i \notin g /\ i \notin m /\ Collecting' = g /\ MadeCalls' = m \cup {i}
    BY <1>5
  <2> HIDE DEF g, m, a
  <2>3. Leads(s, <<PartOf("tool-call", <<a, i>>, data)>>, Now(a, old, gone, texts, thoughts, g, m \cup {i}))
    BY <1>3, <1>9, <2>1, CallMade
  <2>5. Leads(s, out, Now(a, old, gone, texts, thoughts, Collecting', MadeCalls'))
    BY <1>8, <2>1, <2>3
  <2> QED
    BY <2>5 DEF g, m
<1>10. next.tools = Collecting'
  BY <1>5, <1>7
<1> QED
  BY <1>1, <1>7, <1>9, <1>10, CallsKeep DEF a

\* The blocks of a finished item close, those of `ended`.
LEMMA ClosingKeeps ==
  ASSUME CodexInv, NEW i \in Ready, NEW types, NEW next, NEW ended, NEW N \in Nat, ended \in [1..N -> parser.reasoning],
         \A m, n \in 1..N : ended[m] = ended[n] => m = n, ToSet(ended) = {ended[n] : n \in 1..N},
         Step(i, types, next, ReasoningEnds(ended)), Kind(i) \notin {"function_call", "web_search_call"},
         Turned(next, parser.text, parser.reasoning \ ToSet(ended)), next.tools = Collecting
  PROVE  CodexInv'
<1> DEFINE a == parser.attempt
           h == parser.reasoning
           reasoning == h \ ToSet(ended)
           out == ReasoningEnds(ended)
<1>0. CodexTyped
  BY DEF CodexInv
<1>1. a \in Nat /\ h \in SUBSET OfAttempt(a)
  BY <1>0, CodexParserIs DEF CodexTyped
<1>2. reasoning \in SUBSET h
  OBVIOUS
<1>3. ASSUME NEW old, NEW gone, NEW texts, NEW inputs, NEW made, Past(a, old, gone)
      PROVE  Leads(Now(a, old, gone, texts, h, inputs, made), out, Now(a, old, gone, texts, reasoning, inputs, made))
  <2> HIDE DEF a
  <2>1. ended \in [1..N -> h]
    OBVIOUS
  <2> HIDE DEF h
  <2>3. Leads(Now(a, old, gone, texts, h, inputs, made), out, Now(a, old, gone, texts, h \ {ended[n] : n \in 1..N}, inputs, made))
    BY <1>1, <1>3, <2>1, ThoughtsEnd
  <2> QED
    BY <2>3
<1>4. Turned(next, parser.text, reasoning) /\ Step(i, types, next, out)
  OBVIOUS
<1> HIDE DEF reasoning, out
<1>5. reasoning \in SUBSET OfAttempt(a) /\ IsFiniteSet(reasoning) /\ \A j \in Indices : PartOfItem(j, 1) \in reasoning => PartOfItem(j, 1) \in h
  BY <1>0, <1>2, FewerThoughts
<1> QED
  BY <1>3, <1>4, <1>5, ThoughtsKeep DEF a, h

LEMMA ReasoningDoneKeeps == ASSUME CodexInv, NEW i \in Ready, OnReasoningDone(i) PROVE CodexInv'
<1> DEFINE a == parser.attempt
           h == parser.reasoning
           id == Of(i)
           ended == PartsIn(i, {"active", "can-conclude"})
           types == {"done"}
           none == None
<1>0. CodexTyped
  BY DEF CodexInv
<1>1. Kind(i) \notin {"function_call", "web_search_call"}
  BY DEF OnReasoningDone
<1>2. i \in Nat /\ i \in Indices /\ a \in Nat /\ id \in OfAttempt(a)
  BY <1>0, ReadyIs
<1>3. CASE parser.items[i] # None
  <2> DEFINE next == Reopened(h \ ToSet(ended), i, none)
  <2>1. Step(i, types, next, ReasoningEnds(ended))
    BY <1>3 DEF OnReasoningDone, Reopened
  <2>2. PICK N \in Nat : /\ ended \in [1..N -> h] /\ \A m, n \in 1..N : ended[m] = ended[n] => m = n
                         /\ ToSet(ended) = {ended[n] : n \in 1..N}
    BY <1>2, PartsInIs
  <2> DEFINE rest == h \ ToSet(ended)
  <2>3. Turned(next, parser.text, rest) /\ next.tools = Collecting
    <3> HIDE DEF rest, none
    <3>1. Turned(Reopened(rest, i, none), parser.text, rest) /\ Reopened(rest, i, none).tools = Collecting
      BY <1>0, <1>2, TurnsItem
    <3> QED
      BY <3>1 DEF rest
  <2> HIDE DEF next, ended, types
  <2> QED
    BY <1>1, <2>1, <2>2, <2>3, ClosingKeeps
<1>4. CASE parser.items[i] = None /\ id \in h
  <2> DEFINE end == <<id>>
             rest == h \ {id}
             next == [parser EXCEPT !.reasoning = rest]
             N == 1
  <2>1. Step(i, types, next, ReasoningEnds(end))
    BY <1>4 DEF OnReasoningDone
  <2>2. N \in Nat /\ end \in [1..N -> h] /\ \A m, n \in 1..N : end[m] = end[n] => m = n
    BY <1>4
  <2>3. ToSet(end) = {end[n] : n \in 1..N} /\ rest = h \ ToSet(end)
    <3>1. DOMAIN end = 1..N /\ 1..N = {1} /\ end[1] = id
      OBVIOUS
    <3> HIDE DEF end
    <3> QED
      BY <3>1 DEF ToSet
  <2>4. Turned(next, parser.text, rest) /\ next.tools = Collecting
    <3> HIDE DEF rest
    <3> QED
      BY <1>0, Turns
  <2>5. Turned(next, parser.text, parser.reasoning \ ToSet(end))
    BY <2>3, <2>4
  <2> HIDE DEF next, end, rest, types, N
  <2> QED
    BY <1>1, <2>1, <2>2, <2>3, <2>4, <2>5, ClosingKeeps
<1>5. CASE parser.items[i] = None /\ id \notin h
  <2> DEFINE A == <<Part("reasoning-start", id)>>
             B == <<Part("reasoning-end", id)>>
             out == <<Part("reasoning-start", id), Part("reasoning-end", id)>>
             next == parser
  <2>1. Step(i, types, next, out)
    BY <1>5 DEF OnReasoningDone
  <2>2. out = A \o B
    BY PairIs
  <2>3. Turned(next, parser.text, h) /\ next.tools = Collecting
    BY <1>0, Turns
  <2>4. h \in SUBSET OfAttempt(a) /\ IsFiniteSet(h) /\ \A j \in Indices : PartOfItem(j, 1) \in h => PartOfItem(j, 1) \in parser.reasoning
    BY <1>0, CodexParserIs DEF CodexTyped
  <2>5. ASSUME NEW old, NEW gone, NEW texts, NEW inputs, NEW made, Past(a, old, gone)
        PROVE  Leads(Now(a, old, gone, texts, h, inputs, made), out, Now(a, old, gone, texts, h, inputs, made))
    <3> DEFINE more == h \cup {id}
               s == Now(a, old, gone, texts, h, inputs, made)
               t == Now(a, old, gone, texts, more, inputs, made)
    <3>0. id \in more /\ more \ {id} = h
      BY <1>5
    <3> HIDE DEF a, h, id
    <3>1. Leads(s, A, t)
      BY <1>2, <1>5, <2>5, ThoughtStarts
    <3> HIDE DEF more
    <3>2. Leads(t, B, Now(a, old, gone, texts, more \ {id}, inputs, made))
      BY <1>2, <2>5, <3>0, ThoughtEnds
    <3>3. Leads(t, B, s)
      BY <3>0, <3>2
    <3> HIDE DEF s, t, A, B
    <3>4. Leads(s, A \o B, s)
      BY <3>1, <3>3, LeadsOn
    <3> QED
      BY <3>4, <2>2 DEF s
  <2> HIDE DEF next, out, types
  <2> QED
    BY <1>1, <2>1, <2>3, <2>4, <2>5, ThoughtsKeep DEF a, h
<1> QED
  BY <1>3, <1>4, <1>5

-----------------------------------------------------------------------------
(* The steps of a request that are no events of an item.                   *)

LEMMA RestartKeeps == ASSUME CodexInv, Restarted PROVE CodexInv'
<1> DEFINE a == parser.attempt
           x == parser.text
           h == parser.reasoning
           s == [i \in Indices |-> 0]
           none == [i \in Indices |-> None]
           no == {}
<1>0. CodexTyped
  BY DEF CodexInv
<1>1. /\ parser' = Initial(parser.transport, parser.store, a + 1) /\ UNCHANGED <<queue, view>>
      /\ answer' = [answer EXCEPT !.sent = [i \in DOMAIN @ |-> 0]]
  BY DEF Restarted
<1>2. a \in Nat /\ x \in SUBSET OfAttempt(a) /\ h \in SUBSET OfAttempt(a) /\ parser.tools = Collecting
  BY <1>0, CodexParserIs DEF CodexTyped
<1>3. answer.sent \in [Indices -> Nat] /\ \A i \in Indices : Kind(i) \in CodexTypes /\ i \in Nat
  BY <1>0, CodexAnswerIs DEF CodexTyped, CodexFar
<1>4. s \in [Indices -> Nat] /\ answer' = [answer EXCEPT !.sent = s]
  BY <1>1, <1>3
<1>5. \A i \in Indices : s[i] = 0
  OBVIOUS
<1> HIDE DEF s
<1>6. CodexAnswering' /\ answer'.items = answer.items /\ answer'.sent = s /\ Indices' = Indices
  BY <1>0, <1>4, CodexAnswerIs DEF CodexTyped, CodexFar
<1>7. \A i : Kind(i)' = Kind(i)
  BY <1>6 DEF Kind
<1>8. \A kind \in CodexTypes : Events(kind) \in Nat /\ 0 # Events(kind) /\ 0 <= Events(kind)
  BY DEF Events, CodexTypes
<1>9. CodexFar'
  BY <1>3, <1>5, <1>6, <1>7, <1>8 DEF CodexFar
<1>10. Collecting' = no /\ MadeCalls' = no
  BY <1>3, <1>5, <1>6, <1>7, <1>8 DEF Collecting, MadeCalls
<1>11. none \in [Indices' -> {None}]
  BY <1>6
<1>12. parser' = CodexParser(parser.transport, a + 1, 0, parser.store, FALSE, FALSE, no, no, none, Collecting', FALSE)
  BY <1>1, <1>10 DEF Initial, CodexParser, Indices
<1>13. IsFiniteSet(no) /\ a + 1 \in Nat /\ no \in SUBSET OfAttempt(a + 1)
  BY <1>2, FS_EmptySet
<1> HIDE DEF none
<1>14. CodexParsing' /\ parser'.attempt = a + 1 /\ parser'.text = no /\ parser'.reasoning = no /\ parser'.tools = Collecting'
  <2> HIDE DEF a, no
  <2> DEFINE b == a + 1
             f == FALSE
             transport == parser.transport
             store == parser.store
             zero == 0
  <2>1. parser' = CodexParser(transport, b, zero, store, f, f, no, no, none, Collecting', f)
    BY <1>12
  <2>2. b \in Nat /\ no \in SUBSET OfAttempt(b) /\ IsFiniteSet(no)
    BY <1>13
  <2> HIDE DEF b, f, transport, store, zero
  <2>3. CodexParsing' /\ parser'.attempt = b /\ parser'.text = no /\ parser'.reasoning = no /\ parser'.tools = Collecting'
    BY <1>11, <2>1, <2>2, CodexParserNext
  <2> QED
    BY <2>3 DEF b
<1>15. LaterParts(parser.reasoning)'
  BY <1>14 DEF LaterParts
<1>16. CodexOwed'
  <2> DEFINE g == Collecting
             c == MadeCalls
  <2>1. OwedAt(Mark(view), queue, a, x, h, g, c)
    BY <1>2 DEF CodexInv, CodexOwed
  <2>2. g \in SUBSET Nat /\ c \in SUBSET Nat
    BY <1>3 DEF Collecting, MadeCalls
  <2> HIDE DEF a, x, h, g, c
  <2>3. OwedAt(Mark(view), queue, a + 1, {}, {}, {}, {})
    BY <1>2, <2>1, <2>2, OwesNext
  <2>4. OwedAt(Mark(view), queue, a + 1, no, no, no, no)
    BY <2>3
  <2> HIDE DEF no
  <2> QED
    BY <1>1, <1>10, <1>14, <2>4 DEF CodexOwed
<1> QED
  BY <1>9, <1>14, <1>15, <1>16 DEF CodexInv, CodexTyped

\* The answer stays where it is, and so do the blocks that are open.
LEMMA CodexStays ==
  ASSUME CodexInv, UNCHANGED <<answer, view>>,
         \/ parser' = parser
         \/ parser' = [parser EXCEPT !.opens = @ + 1]
         \/ parser' = [parser EXCEPT !.started = TRUE, !.productive = TRUE],
         queue' = queue \/ queue' = queue \o <<Part("error", None)>>
  PROVE  CodexInv'
<1> DEFINE transport == parser.transport
           a == parser.attempt
           opens == parser.opens
           store == parser.store
           started == parser.started
           productive == parser.productive
           x == parser.text
           h == parser.reasoning
           items == parser.items
           g == parser.tools
           m == parser.hasFunctionCall
           c == MadeCalls
<1>0. CodexTyped
  BY DEF CodexInv
<1>1. /\ a \in Nat /\ x \in SUBSET OfAttempt(a) /\ h \in SUBSET OfAttempt(a) /\ IsFiniteSet(x) /\ IsFiniteSet(h)
      /\ g = Collecting /\ (\E states : items \in [Indices -> states])
      /\ parser = CodexParser(transport, a, opens, store, started, productive, x, h, items, g, m)
  BY <1>0, CodexParserIs DEF CodexTyped
<1>2. PICK states : items \in [Indices -> states]
  BY <1>1
<1>3. Indices' = Indices /\ Collecting' = Collecting /\ c' = c /\ CodexFar' /\ (\A i : Kind(i)' = Kind(i))
  <2>1. answer' = answer
    OBVIOUS
  <2>2. Indices' = Indices /\ (\A i : Kind(i)' = Kind(i))
    BY <2>1 DEF Indices, Kind
  <2>3. Collecting' = Collecting /\ MadeCalls' = MadeCalls
    BY <2>1, <2>2 DEF Collecting, MadeCalls
  <2>4. CodexAnswering'
    BY <1>0, <2>1 DEF CodexTyped, CodexFar, CodexAnswering
  <2>5. CodexFar'
    BY <1>0, <2>1, <2>2, <2>4 DEF CodexTyped, CodexFar
  <2> QED
    BY <2>2, <2>3, <2>5
<1>4. OwedAt(Mark(view), queue, a, x, h, g, c)
  BY DEF CodexInv, CodexOwed
<1>5. \A i \in Indices : PartOfItem(i, 1) \in h => Kind(i) = "summary" /\ answer.sent[i] >= 5
  BY <1>0 DEF CodexTyped, LaterParts
<1>6. \A i, part : PartOfItem(i, part) = <<a, i, part>>
  BY DEF PartOfItem
<1> HIDE DEF transport, a, opens, store, started, productive, x, h, items, g, m, c
<1>7. \E o, u, v : parser' = CodexParser(transport, a, o, store, u, v, x, h, items, g, m)
  <2>1. CASE parser' = parser
    BY <1>1, <2>1
  <2>2. CASE parser' = [parser EXCEPT !.opens = @ + 1]
    <3> DEFINE o == parser.opens + 1
    <3>1. parser' = [parser EXCEPT !.opens = o]
      BY <2>2
    <3> HIDE DEF o
    <3>2. parser' = CodexParser(transport, a, o, store, started, productive, x, h, items, g, m)
      BY <1>1, <3>1 DEF CodexParser
    <3> QED
      BY <3>2
  <2>3. CASE parser' = [parser EXCEPT !.started = TRUE, !.productive = TRUE]
    <3> DEFINE t == TRUE
    <3>1. parser' = [parser EXCEPT !.started = t, !.productive = t]
      BY <2>3
    <3> HIDE DEF t
    <3>2. parser' = CodexParser(transport, a, opens, store, t, t, x, h, items, g, m)
      BY <1>1, <3>1 DEF CodexParser
    <3> QED
      BY <3>2
  <2> QED
    BY <2>1, <2>2, <2>3
<1>8. /\ CodexParsing' /\ parser'.attempt = a /\ parser'.text = x /\ parser'.reasoning = h /\ parser'.tools = g
  <2>1. PICK o, u, v : parser' = CodexParser(transport, a, o, store, u, v, x, h, items, g, m)
    BY <1>7
  <2>2. parser' = CodexParser(transport, a, o, store, u, v, x, h, items, Collecting', m) /\ items \in [Indices' -> states]
    BY <1>1, <1>2, <1>3, <2>1
  <2>3. CodexParsing' /\ parser'.attempt = a /\ parser'.text = x /\ parser'.reasoning = h /\ parser'.tools = Collecting'
    BY <1>1, <2>2, CodexParserNext
  <2> QED
    BY <1>1, <1>3, <2>3
<1>9. LaterParts(parser.reasoning)'
  <2>1. \A i : PartOfItem(i, 1)' = <<a, i, 1>>
    BY <1>8 DEF PartOfItem
  <2> QED
    BY <1>3, <1>5, <1>6, <1>8, <2>1 DEF LaterParts
<1>10. OwedAt(Mark(view), queue', a, x, h, g, c)
  BY <1>4, OwesError
<1>11. CodexOwed'
  BY <1>3, <1>8, <1>10 DEF CodexOwed, c
<1> QED
  BY <1>3, <1>8, <1>9, <1>11 DEF CodexInv, CodexTyped

LEMMA CodexFinishLeads == ASSUME CodexInv, OnResponseFinish PROVE \E w : Leads(Mark(view'), queue', w)
<1> DEFINE a == parser.attempt
           x == parser.text
           h == parser.reasoning
           g == Collecting
           c == MadeCalls
<1>0. CodexTyped
  BY DEF CodexInv
<1>1. /\ a \in Nat /\ x \in SUBSET OfAttempt(a) /\ h \in SUBSET OfAttempt(a) /\ IsFiniteSet(x) /\ IsFiniteSet(h)
      /\ parser.tools = g
  BY <1>0, CodexParserIs DEF CodexTyped
<1>2. OwedAt(Mark(view), queue, a, x, h, g, c)
  BY <1>1 DEF CodexInv, CodexOwed
<1>3. PICK ends : \E thoughts \in Orders(h), texts \in Orders(x) :
        queue' = queue \o (ReasoningEnds(thoughts) \o [n \in DOMAIN texts |-> Part("text-end", texts[n])]
                           \o <<PartOf("finish", <<a>>, <<CodexFinishReason(ends)>>)>>)
  BY DEF OnResponseFinish, Emit
<1>4. PICK thoughts \in Orders(h), texts \in Orders(x) :
        queue' = queue \o (ReasoningEnds(thoughts) \o [n \in DOMAIN texts |-> Part("text-end", texts[n])]
                           \o <<PartOf("finish", <<a>>, <<CodexFinishReason(ends)>>)>>)
  BY <1>3
<1>5. view' = view
  BY DEF OnResponseFinish
<1>9. thoughts \in Orders(h) /\ texts \in Orders(x)
  OBVIOUS
<1>10. \E K \in Nat : /\ texts \in [1..K -> x] /\ \A m, n \in 1..K : texts[m] = texts[n] => m = n
                     /\ x \ {texts[n] : n \in 1..K} = {}
  <2>1. texts \in Orders(x) /\ IsFiniteSet(x)
    BY <1>1, <1>9
  <2> HIDE DEF x
  <2> QED
    BY <2>1, OrderIs
<1> DEFINE A == ReasoningEnds(thoughts)
           B == TextsClosed(texts)
           out == A \o B
           data == <<CodexFinishReason(ends)>>
           no == {}
<1>6. queue' = queue \o (out \o <<PartOf("finish", <<a>>, data)>>)
  BY <1>4 DEF TextsClosed
<1>7. \A old, gone : Past(a, old, gone) => Leads(Now(a, old, gone, x, h, g, c), out, Now(a, old, gone, {}, {}, g, c))
  <2> SUFFICES ASSUME NEW old, NEW gone, Past(a, old, gone)
               PROVE  Leads(Now(a, old, gone, x, h, g, c), out, Now(a, old, gone, no, no, g, c))
    OBVIOUS
  <2> HIDE DEF a, x, h, g, c
  <2>1. PICK N \in Nat : /\ thoughts \in [1..N -> h] /\ \A m, n \in 1..N : thoughts[m] = thoughts[n] => m = n
                         /\ h \ {thoughts[n] : n \in 1..N} = no
    BY <1>1, <1>9, OrderIs
  <2>2. PICK K \in Nat : /\ texts \in [1..K -> x] /\ \A m, n \in 1..K : texts[m] = texts[n] => m = n
                         /\ x \ {texts[n] : n \in 1..K} = no
    BY <1>10
  <2> DEFINE s == Now(a, old, gone, x, h, g, c)
             t == Now(a, old, gone, x, no, g, c)
             u == Now(a, old, gone, no, no, g, c)
  <2>3. Leads(s, A, Now(a, old, gone, x, h \ {thoughts[n] : n \in 1..N}, g, c))
    BY <1>1, <2>1, ThoughtsEnd
  <2>4. Leads(s, A, t)
    BY <2>1, <2>3
  <2> HIDE DEF no
  <2>5. Leads(t, B, Now(a, old, gone, x \ {texts[n] : n \in 1..K}, no, g, c))
    BY <1>1, <2>2, TextsEnd
  <2>6. Leads(t, B, u)
    BY <2>2, <2>5
  <2> HIDE DEF s, t, u, A, B
  <2>7. Leads(s, out, u)
    BY <2>4, <2>6, LeadsOn
  <2> QED
    BY <2>7 DEF s, u
<1> HIDE DEF a, x, h, g, c, out, data
<1>8. \E w : Leads(Mark(view), queue \o (out \o <<PartOf("finish", <<a>>, data)>>), w)
  BY <1>1, <1>2, <1>7, OwesFinish
<1> QED
  BY <1>5, <1>6, <1>8

LEMMA OwedLeads ==
  ASSUME NEW m, NEW q, NEW a, NEW x, NEW h, NEW g, NEW c, OwedAt(m, q, a, x, h, g, c)
  PROVE  \E w : Leads(m, q, w)
  BY DEF OwedAt

LEMMA RetryKeeps ==
  ASSUME CodexInv, RetryOrFail
  PROVE  UNCHANGED provider /\ (Over \/ (UNCHANGED view /\ wire' # "closed" /\ CodexInv'))
<1>1. CASE Restarted
  BY <1>1, RestartKeeps DEF Restarted
<1>2. CASE Failed
  BY <1>2 DEF Failed
<1> QED
  BY <1>1, <1>2 DEF RetryOrFail

LEMMA ItemsKeep ==
  ASSUME CodexInv, NEW i \in Ready, OnCodexItem(i)
  PROVE  UNCHANGED <<provider, view, wire>> /\ wire # "closed" /\ CodexInv'
<1>1. CodexInv'
  BY TextDeltaKeeps, ReasoningDeltaKeeps, ReasoningAddedKeeps, CallAddedKeeps, OtherItemKeeps, PartAddedKeeps,
     PartDoneKeeps, ArgumentsKeep, CallDoneKeeps, HostedKeeps, ReasoningDoneKeeps DEF OnCodexItem
<1>2. \E types, next, out : Step(i, types, next, out)
  BY DEF OnCodexItem, OnOutputTextDelta, OnReasoningDelta, OnReasoningAdded, OnFunctionCallAdded, OnOtherItem,
         OnReasoningSummaryPartAdded, OnReasoningSummaryPartDone, OnFunctionCallArgumentsDelta, OnFunctionCallDone,
         OnHostedToolDone, OnReasoningDone
<1>3. UNCHANGED <<provider, view, wire>> /\ wire # "closed"
  BY <1>2 DEF Step, Streaming
<1> QED
  BY <1>1, <1>3

LEMMA CodexKeep ==
  ASSUME CodexInv, CodexNext, wire # "closed"
  PROVE  /\ UNCHANGED provider
         /\ Over \/ (UNCHANGED view /\ IF wire' = "closed" THEN \E w : Leads(Mark(view'), queue', w) ELSE CodexInv')
<1> DEFINE Goal == /\ UNCHANGED provider
                   /\ Over \/ (UNCHANGED view /\ IF wire' = "closed" THEN \E w : Leads(Mark(view'), queue', w) ELSE CodexInv')
<1>0. ASSUME UNCHANGED <<queue, view>> PROVE \E w : Leads(Mark(view'), queue', w)
  BY <1>0, OwedLeads DEF CodexInv, CodexOwed
<1>1. ASSUME RetryOrFail PROVE Goal
  BY <1>1, RetryKeeps
<1>2. ASSUME Failed PROVE Goal
  BY <1>2 DEF Failed
<1>3. ASSUME TryAgain PROVE Goal
  BY <1>3, CodexStays DEF TryAgain
<1>4. ASSUME Connect PROVE Goal
  BY <1>4, CodexStays DEF Connect
<1>5. ASSUME ConnectFails PROVE Goal
  <2> HIDE DEF Goal
  <2> QED
    BY <1>5, <1>1, <1>3 DEF ConnectFails
<1>6. ASSUME PostFails PROVE Goal
  <2> HIDE DEF Goal
  <2> QED
    BY <1>6, <1>1, <1>2, <1>3 DEF PostFails
<1>7. ASSUME HeaderTimeout \/ FirstEventTimeout \/ EventIdleTimeout PROVE Goal
  <2> HIDE DEF Goal
  <2> QED
    BY <1>7, <1>1, <1>2 DEF HeaderTimeout, FirstEventTimeout, EventIdleTimeout
<1>8. ASSUME TransportFails \/ StreamReadFails \/ MaxDuration \/ BadFrame \/ ProductiveFirstTimeout PROVE Goal
  <2> HIDE DEF Goal
  <2> QED
    BY <1>8, <1>1, <1>2 DEF TransportFails, StreamReadFails, MaxDuration, BadFrame, ProductiveFirstTimeout
<1>9. ASSUME CleanClose \/ CodexAbort PROVE Goal
  BY <1>9, <1>0 DEF CleanClose, CodexAbort
<1>10. ASSUME OnResponseFinish PROVE Goal
  BY <1>10, CodexFinishLeads DEF OnResponseFinish
<1>11. ASSUME OnProviderError PROVE Goal
  <2>1. CodexInv' /\ UNCHANGED <<provider, view>>
    BY <1>11, CodexStays DEF OnProviderError, Emit
  <2>2. \E w : Leads(Mark(view'), queue', w)
    BY <2>1, OwedLeads DEF CodexInv, CodexOwed
  <2> QED
    BY <2>1, <2>2
<1>12. ASSUME \E i \in Ready : OnCodexItem(i) PROVE Goal
  BY <1>12, ItemsKeep
<1> HIDE DEF Goal
<1>13. Goal
  BY <1>4, <1>5, <1>6, <1>7, <1>8, <1>9, <1>10, <1>11, <1>12 DEF CodexNext, Timeouts
<1> QED
  BY <1>13 DEF Goal

-----------------------------------------------------------------------------
(* All the providers: what is queued may be read, whatever comes next.     *)

StreamInv ==
  /\ Shaped(view) /\ view.errored \in BOOLEAN
  /\ view.phase = "over" => wire = "closed"
  /\ view.phase # "over" => \E t : Leads(Mark(view), queue, t)
  /\ wire # "closed" => /\ provider = "copilot-responses" => ResponsesInv
                        /\ provider = "copilot-chat" => ChatInv
                        /\ provider = "codex" => CodexInv

LEMMA FreshLeads ==
  /\ Shaped(Fresh) /\ Fresh.errored \in BOOLEAN /\ Fresh.phase = "fresh"
  /\ Leads(Mark(Fresh), <<Part("stream-start", None)>>, State("open", {}, {}, FALSE))
  /\ State("open", {}, {}, FALSE) = Now(1, {}, {}, {}, {}, {}, {}) /\ Past(1, {}, {})
<1> DEFINE p == Part("stream-start", None)
           at == "fresh"
           no == {}
           failed == FALSE
           empty == << >>
           nothing == [type |-> "none", id |-> << >>]
<1>1. Fresh = Shape(at, no, failed, nothing, empty, empty, empty, None)
  BY DEF Fresh, Shape
<1>2. DOMAIN empty = {}
  OBVIOUS
<1> HIDE DEF nothing, empty
<1>3. Shaped(Fresh)
  BY <1>1 DEF Shaped
<1>4. Mark(Fresh) = State("fresh", {}, {}, FALSE) /\ Fresh.errored = FALSE /\ Fresh.phase = "fresh"
  BY <1>1, <1>2 DEF Mark, Shape
<1> DEFINE s == State("fresh", {}, {}, FALSE)
<1>5. s.phase = "fresh" /\ s.open = {} /\ s.called = {} /\ s.errored = FALSE
  BY DEF State
<1>6. p.type = "stream-start" /\ p.id = None
  BY DEF Part
<1>7. Allowed(s, p) /\ Apply(s, p) = State("open", {}, {}, FALSE)
  <2> HIDE DEF s, p
  <2>1. /\ p.type \in Types /\ p.type \in Notes /\ p.type \notin StartTypes \cup DeltaTypes \cup EndTypes
        /\ p.type # "finish" /\ p.type # "tool-call" /\ p.type # "tool-result" /\ p.type # "error"
    BY <1>6 DEF Types, Notes, StartTypes, DeltaTypes, EndTypes
  <2> QED
    BY <1>5, <1>6, <2>1 DEF Allowed, Apply
<1> HIDE DEF s, p
<1>8. Leads(s, <<p>>, State("open", {}, {}, FALSE))
  BY <1>7, LeadsOne
<1>9. State("open", {}, {}, FALSE) = Now(1, {}, {}, {}, {}, {}, {}) /\ Past(1, {}, {})
  <2>1. OwnBlocks(1, {}, {}, {}) = {} /\ OwnCalls(1, {}) = {}
    BY DEF OwnBlocks, OwnCalls
  <2> QED
    BY <2>1 DEF Now, Past
<1> QED
  BY <1>3, <1>4, <1>8, <1>9 DEF s, p

LEMMA FreshOwed ==
  ASSUME view = Fresh, queue = <<Part("stream-start", None)>>
  PROVE  OwedAt(Mark(view), queue, 1, {}, {}, {}, {})
<1> DEFINE t == State("open", {}, {}, FALSE)
           no == {}
<1>1. Leads(Mark(view), queue, t) /\ t = Now(1, {}, {}, {}, {}, {}, {}) /\ Past(1, no, no)
  BY FreshLeads
<1>2. t.phase = "open" /\ t.errored = FALSE
  BY DEF State
<1> HIDE DEF t, no
<1>3. \E old, gone : /\ Past(1, old, gone) /\ t = Now(1, old, gone, {}, {}, {}, {})
  BY FreshLeads DEF t
<1> QED
  BY <1>1, <1>2, <1>3 DEF OwedAt

LEMMA ResponsesBegin ==
  ASSUME ResponsesInit, view = Fresh
  PROVE  ResponsesInv
<1>1. PICK items \in Answers :
        answer = [items |-> items, sent |-> [i \in DOMAIN items |-> 0], ends |-> None]
  BY DEF ResponsesInit
<1>2. items \in Seq(ItemTypes)
  BY <1>1, AnswersAssumption, EventsAre
<1> DEFINE zeros == [i \in DOMAIN items |-> 0]
           nones == [i \in DOMAIN items |-> None]
<1>3. zeros \in [DOMAIN items -> Nat] /\ answer.items = items /\ answer.sent = zeros /\ \A i \in Items : answer.sent[i] = 0
  BY <1>1 DEF Items
<1>4. WellAnswered(ItemTypes)
  <2> DEFINE e == None
  <2>1. answer = [items |-> items, sent |-> zeros, ends |-> e]
    BY <1>1
  <2> HIDE DEF zeros, e
  <2> QED
    BY <1>2, <1>3, <2>1 DEF WellAnswered
<1>5. Items = DOMAIN items /\ \A i \in Items : Type(i) \in ItemTypes
  BY <1>3, <1>4, AnswerIs DEF Items, Type
<1>6. \A type \in ItemTypes : Length(type) \in Nat
  BY DEF Length, ItemTypes, InputTypes, TextTypes
<1>7. Orderly
  <2>1. \A i \in Items : answer.sent[i] <= Length(Type(i))
    BY <1>3, <1>5, <1>6
  <2>2. \A i \in Items : ~(answer.sent[i] > 0)
    BY <1>3
  <2> QED
    BY <1>4, <2>1, <2>2 DEF Orderly
<1>8. parser = Parser(nones, FALSE, nones, 0, None, <<"other">>)
  BY <1>3 DEF ResponsesInit, Parser
<1>9. ParserTyped
  <2>1. nones \in [Items -> Ids \cup {None}] /\ nones \in [Items -> Actives]
    BY <1>5 DEF Actives
  <2> DEFINE x == FALSE
             y == <<"other">>
             z == 0
             e == None
  <2>2. parser = Parser(nones, x, nones, z, e, y) /\ z \in Items \cup {0} /\ e \in Ids \cup {None}
    BY <1>8
  <2> HIDE DEF nones, x, y, z, e
  <2> QED
    BY <2>1, <2>2 DEF ParserTyped
<1>10. /\ \A i \in Items : parser.ongoing[i] = None /\ parser.active[i] = None
       /\ parser.current = 0 /\ parser.text = None
  BY <1>5, <1>8 DEF Parser
<1>11. \A i \in Items : ~Midway(Type(i), answer.sent[i]) /\ ~(0 < answer.sent[i])
  BY <1>3 DEF Midway
<1>12. \A i \in Items : /\ BlocksOf(Type(i), i, answer.sent[i]) = {} /\ ~Made(Type(i), answer.sent[i])
                        /\ OngoingOf(Type(i), i, answer.sent[i]) = None /\ ActiveOf(Type(i), i, answer.sent[i]) = None
                        /\ ~InReasoning(i) /\ ~InText(i)
  <2> SUFFICES ASSUME NEW i \in Items
               PROVE  /\ BlocksOf(Type(i), i, answer.sent[i]) = {} /\ ~Made(Type(i), answer.sent[i])
                      /\ OngoingOf(Type(i), i, answer.sent[i]) = None /\ ActiveOf(Type(i), i, answer.sent[i]) = None
                      /\ ~InReasoning(i) /\ ~InText(i)
    OBVIOUS
  <2>1. ~Made(Type(i), 0)
    BY DEF Made
  <2> QED
    BY <1>3, <1>11, <2>1 DEF BlocksOf, OngoingOf, ActiveOf, InReasoning, InText
<1> DEFINE t == State("open", {}, {}, FALSE)
<1>13. Leads(Mark(view), queue, t)
  BY FreshLeads DEF ResponsesInit
<1>14. t.phase = "open" /\ t.errored = FALSE /\ t.open = {} /\ t.called = {}
  BY DEF State
<1> HIDE DEF t
<1>15. ResponsesMatch(t)
  BY <1>10, <1>12, <1>14 DEF ResponsesMatch
<1>16. ResponsesOwed
  BY <1>13, <1>14, <1>15 DEF ResponsesOwed
<1> QED
  BY <1>7, <1>9, <1>16 DEF ResponsesInv, ResponsesTyped

LEMMA ChatBegin ==
  ASSUME ChatInit, view = Fresh
  PROVE  ChatInv
<1>1. PICK totals \in CallTotals :
        answer = [totals |-> totals, sent |-> [k \in DOMAIN totals |-> 0],
                  begun |-> 0, reasoning |-> 0, content |-> 0, opaque |-> FALSE, finish |-> None]
  BY DEF ChatInit
<1>2. totals \in Seq(Nat)
  BY <1>1, PiecesAssumption
<1>3. answer.totals = totals
  BY <1>1
<1>4. Answering
  <2> DEFINE zeros == [k \in DOMAIN totals |-> 0]
             z == 0
             f == FALSE
             e == None
  <2>1. answer = ChatAnswer(totals, zeros, z, z, z, f, e)
    BY <1>1 DEF ChatAnswer
  <2> HIDE DEF zeros, z, f, e
  <2> QED
    BY <1>2, <2>1 DEF Answering
<1> DEFINE nones == [k \in DOMAIN answer.totals |-> None]
<1>5. parser = ChatParser(nones, TRUE, FALSE, FALSE, FALSE, <<"other">>)
  BY DEF ChatInit, ChatParser
<1>6. nones \in [DOMAIN answer.totals -> CallRecords]
  BY DEF CallRecords
<1>7. Parsing
  <2> DEFINE x == <<"other">>
             f == FALSE
             y == TRUE
  <2>1. parser = ChatParser(nones, y, f, f, f, x) /\ f \in BOOLEAN
    BY <1>5
  <2> HIDE DEF nones, x, f, y
  <2> QED
    BY <1>6, <2>1 DEF Parsing
<1>8. parser.calls = nones /\ parser.reasoning = FALSE /\ parser.text = FALSE
  BY <1>5 DEF ChatParser
<1>9. OpenIn(parser.calls) = {} /\ DoneIn(parser.calls) = {} /\ Only(parser.text, TextId) = {} /\ Only(parser.reasoning, TextId) = {}
  BY <1>8 DEF OpenIn, DoneIn, Only
<1>10. OwedAt(Mark(view), queue, 1, {}, {}, {}, {})
  BY FreshOwed DEF ChatInit
<1>11. ChatOwed
  BY <1>9, <1>10 DEF ChatOwed
<1> QED
  BY <1>4, <1>7, <1>11 DEF ChatInv, ChatTyped

LEMMA CodexBegin ==
  ASSUME CodexInit, view = Fresh
  PROVE  CodexInv
<1>1. PICK items \in CodexAnswers :
        answer = [items |-> items, sent |-> [i \in DOMAIN items |-> 0], ends |-> None]
  BY DEF CodexInit
<1>2. items \in Seq(CodexTypes)
  BY <1>1, CodexAnswersAssumption, CodexEventsAre
<1> DEFINE zeros == [i \in DOMAIN items |-> 0]
           nones == [i \in Indices |-> None]
           no == {}
<1>3. zeros \in [DOMAIN items -> Nat] /\ answer.items = items /\ answer.sent = zeros /\ \A i \in Indices : answer.sent[i] = 0
  BY <1>1 DEF Indices
<1>4. CodexAnswering
  <2> DEFINE e == None
  <2>1. answer = [items |-> items, sent |-> zeros, ends |-> e]
    BY <1>1
  <2> HIDE DEF zeros, e
  <2> QED
    BY <1>2, <1>3, <2>1 DEF CodexAnswering
<1>5. \A i \in Indices : Kind(i) \in CodexTypes
  BY <1>4, CodexAnswerIs
<1>6. \A kind \in CodexTypes : Events(kind) \in Nat /\ 0 # Events(kind) /\ 0 <= Events(kind)
  BY DEF Events, CodexTypes
<1>7. CodexFar
  BY <1>3, <1>4, <1>5, <1>6 DEF CodexFar
<1>8. Collecting = no /\ MadeCalls = no
  BY <1>3, <1>5, <1>6 DEF Collecting, MadeCalls
<1>9. \E transport, store : parser = CodexParser(transport, 1, 0, store, FALSE, FALSE, no, no, nones, Collecting, FALSE)
  <2>1. \E transport, store : parser = Initial(transport, store, 1)
    BY DEF CodexInit, SseStarts
  <2>2. PICK transport, store : parser = Initial(transport, store, 1)
    BY <2>1
  <2>3. parser = CodexParser(transport, 1, 0, store, FALSE, FALSE, no, no, nones, no, FALSE)
    BY <2>2 DEF Initial, CodexParser, Indices
  <2> QED
    BY <1>8, <2>3
<1>10. PICK transport, store : parser = CodexParser(transport, 1, 0, store, FALSE, FALSE, no, no, nones, Collecting, FALSE)
  BY <1>9
<1>11. parser.attempt = 1 /\ parser.text = {} /\ parser.reasoning = {} /\ parser.tools = no
  BY <1>8, <1>10 DEF CodexParser
<1>12. CodexParsing
  <2> DEFINE a == 1
             z == 0
             f == FALSE
             states == {None}
  <2>1. /\ parser = CodexParser(transport, a, z, store, f, f, no, no, nones, Collecting, f)
        /\ a \in Nat /\ no \in SUBSET OfAttempt(a) /\ IsFiniteSet(no) /\ nones \in [Indices -> states]
    BY <1>10, FS_EmptySet
  <2> HIDE DEF a, z, f, states, no, nones
  <2> QED
    BY <2>1 DEF CodexParsing
<1>13. LaterParts(parser.reasoning)
  BY <1>11 DEF LaterParts
<1>14. OwedAt(Mark(view), queue, 1, {}, {}, {}, {})
  BY FreshOwed DEF CodexInit
<1>15. CodexOwed
  BY <1>8, <1>11, <1>14 DEF CodexOwed
<1> QED
  BY <1>7, <1>12, <1>13, <1>15 DEF CodexInv, CodexTyped

LEMMA StreamBegins == StreamsInit => StreamInv /\ Parts!Init
<1> SUFFICES ASSUME StreamsInit PROVE StreamInv /\ Parts!Init
  OBVIOUS
<1>1. view = Fresh
  BY DEF StreamsInit
<1>2. /\ provider = "copilot-responses" => ResponsesInit
      /\ provider = "copilot-chat" => ChatInit
      /\ provider = "codex" => CodexInit
  BY DEF StreamsInit
<1>3. /\ provider = "copilot-responses" => ResponsesInv
      /\ provider = "copilot-chat" => ChatInv
      /\ provider = "codex" => CodexInv
  BY <1>1, <1>2, ResponsesBegin, ChatBegin, CodexBegin
<1>4. queue = <<Part("stream-start", None)>>
  BY <1>2 DEF StreamsInit, ResponsesInit, ChatInit, CodexInit
<1>5. Shaped(view) /\ view.errored \in BOOLEAN /\ view.phase = "fresh" /\ \E t : Leads(Mark(view), queue, t)
  BY <1>1, <1>4, FreshLeads
<1>6. Parts!Init
  <2>1. /\ view.phase = "fresh" /\ view.open = {} /\ view.calls = << >> /\ view.errored = FALSE
        /\ view.last = [type |-> "none", id |-> << >>]
    BY <1>1 DEF Fresh
  <2>2. DOMAIN view.calls = {}
    BY <2>1
  <2> QED
    BY <2>1, <2>2 DEF Parts!Init, Parts!Nothing
<1> QED
  BY <1>3, <1>5, <1>6 DEF StreamInv

\* Where nothing but the queue and the reader moves, the parsers are as they were.
LEMMA SameTyped == ASSUME ResponsesTyped, answer' = answer, parser' = parser PROVE ResponsesTyped'
  BY DEF ResponsesTyped, Orderly, WellAnswered, ParserTyped, Items, Type

LEMMA SameMatch ==
  ASSUME NEW t, ResponsesMatch(t), answer' = answer, parser' = parser
  PROVE  ResponsesMatch(t)'
<1>1. Items' = Items /\ \A i : Type(i)' = Type(i)
  BY DEF Items, Type
<1>2. \A i : (InReasoning(i)' <=> InReasoning(i)) /\ (InText(i)' <=> InText(i))
  BY <1>1 DEF InReasoning, InText
<1> QED
  BY <1>1, <1>2 DEF ResponsesMatch

LEMMA SameCodex == ASSUME CodexTyped, answer' = answer, parser' = parser PROVE CodexTyped'
<1>1. Indices' = Indices /\ \A i : Kind(i)' = Kind(i) /\ \A k : PartOfItem(i, k)' = PartOfItem(i, k)
  BY DEF Indices, Kind, PartOfItem
<1>2. Collecting' = Collecting
  BY <1>1 DEF Collecting
<1>3. CodexFar'
  BY <1>1 DEF CodexTyped, CodexFar, CodexAnswering
<1>4. CodexParsing'
  <2> DEFINE g == Collecting
  <2>1. CodexParsing
    BY DEF CodexTyped
  <2> QED
    BY <1>1, <1>2, <2>1, ZenonT(40) DEF CodexParsing
<1>5. LaterParts(parser.reasoning)'
  BY <1>1 DEF CodexTyped, LaterParts
<1> QED
  BY <1>3, <1>4, <1>5 DEF CodexTyped

LEMMA SameStream ==
  ASSUME StreamInv, provider' = provider, answer' = answer, wire' = wire, parser' = parser, queue' = queue, view' = view
  PROVE  StreamInv'
<1>1. ASSUME ResponsesInv PROVE ResponsesInv'
  <2>1. ResponsesTyped'
    BY <1>1, SameTyped DEF ResponsesInv
  <2>2. PICK t : Leads(Mark(view), queue, t) /\ t.phase = "open" /\ t.errored \in BOOLEAN /\ (~t.errored => ResponsesMatch(t))
    BY <1>1 DEF ResponsesInv, ResponsesOwed
  <2>3. ~t.errored => ResponsesMatch(t)'
    BY <2>2, SameMatch
  <2>4. Mark(view') = Mark(view)
    OBVIOUS
  <2> QED
    BY <2>1, <2>2, <2>3, <2>4 DEF ResponsesInv, ResponsesOwed
<1>2. ASSUME ChatInv PROVE ChatInv'
  BY <1>2 DEF ChatInv, ChatTyped, Answering, Parsing, ChatOwed
<1>3. ASSUME CodexInv PROVE CodexInv'
  <2>1. CodexTyped'
    BY <1>3, SameCodex DEF CodexInv
  <2>2. MadeCalls' = MadeCalls
    BY DEF MadeCalls, Indices, Kind
  <2>3. CodexOwed'
    BY <1>3, <2>2 DEF CodexInv, CodexOwed
  <2> QED
    BY <2>1, <2>3 DEF CodexInv
<1> QED
  BY <1>1, <1>2, <1>3 DEF StreamInv

\* A part is read.
LEMMA DeliverKeeps == ASSUME StreamInv, Deliver PROVE StreamInv' /\ Parts!Next
<1> DEFINE p == Head(queue)
<1>1. view.phase # "over" /\ queue # << >> /\ view' = Read(view, p) /\ queue' = Tail(queue)
  BY DEF Deliver
<1>2. ASSUME NEW t, Leads(Mark(view), queue, t)
      PROVE  Allowed(Mark(view), p) /\ Leads(Mark(view'), queue', t)
  <2>1. Allowed(Mark(view), p) /\ Leads(Apply(Mark(view), p), Tail(queue), t)
    BY <1>1, <1>2, LeadsLess
  <2>2. p.type \in Types
    BY <2>1 DEF Allowed
  <2>3. Mark(view') = Apply(Mark(view), p)
    BY <1>1, <2>2, ReadIs DEF StreamInv
  <2> QED
    BY <1>1, <2>1, <2>3
<1>3. PICK t : Leads(Mark(view), queue, t)
  BY <1>1 DEF StreamInv
<1>4. Allowed(Mark(view), p)
  BY <1>2, <1>3
<1>5. Parts!Next
  BY <1>1, <1>4, ReadsPart DEF StreamInv
<1>6. Shaped(view') /\ Mark(view') = Apply(Mark(view), p)
  BY <1>1, <1>4, ReadIs DEF StreamInv, Allowed
<1>7. view'.errored \in BOOLEAN /\ view'.phase # "over"
  <2>1. view'.errored = Apply(Mark(view), p).errored /\ view'.phase = Apply(Mark(view), p).phase
    BY <1>6 DEF Mark, State
  <2>2. Mark(view).errored = view.errored /\ Mark(view).phase = view.phase
    BY DEF Mark, State
  <2> QED
    BY <1>1, <2>1, <2>2 DEF Apply, State, StreamInv
<1>8. UNCHANGED <<provider, answer, wire, faults, parser>>
  BY DEF Deliver
<1>9. ASSUME OwedAt(Mark(view), queue, 1, Only(parser.text, TextId), Only(parser.reasoning, TextId), OpenIn(parser.calls), DoneIn(parser.calls))
      PROVE  OwedAt(Mark(view'), queue', 1, Only(parser.text, TextId), Only(parser.reasoning, TextId), OpenIn(parser.calls), DoneIn(parser.calls))
  BY <1>2, <1>9 DEF OwedAt
<1>10. ASSUME OwedAt(Mark(view), queue, parser.attempt, parser.text, parser.reasoning, parser.tools, MadeCalls)
       PROVE  OwedAt(Mark(view'), queue', parser.attempt, parser.text, parser.reasoning, parser.tools, MadeCalls)
  BY <1>2, <1>10 DEF OwedAt
<1>11. ASSUME ResponsesInv PROVE ResponsesInv'
  <2>1. ResponsesTyped'
    <3>1. ResponsesTyped
      BY <1>11 DEF ResponsesInv
    <3> QED
      BY <3>1, <1>8, SameTyped
  <2>2. PICK u : Leads(Mark(view), queue, u) /\ u.phase = "open" /\ u.errored \in BOOLEAN /\ (~u.errored => ResponsesMatch(u))
    BY <1>11 DEF ResponsesInv, ResponsesOwed
  <2>3. Leads(Mark(view'), queue', u)
    BY <1>2, <2>2
  <2>4. ~u.errored => ResponsesMatch(u)'
    BY <1>8, <2>2, SameMatch
  <2> QED
    BY <2>1, <2>2, <2>3, <2>4 DEF ResponsesInv, ResponsesOwed
<1>12. ASSUME ChatInv PROVE ChatInv'
  <2>1. ChatTyped'
    BY <1>8, <1>12 DEF ChatInv, ChatTyped, Answering, Parsing
  <2>2. ChatOwed'
    BY <1>8, <1>9, <1>12 DEF ChatInv, ChatOwed
  <2> QED
    BY <2>1, <2>2 DEF ChatInv
<1>13. ASSUME CodexInv PROVE CodexInv'
  <2>1. answer' = answer /\ parser' = parser
    BY <1>8
  <2>2. CodexTyped'
    BY <2>1, <1>13, SameCodex DEF CodexInv
  <2>3. MadeCalls' = MadeCalls
    BY <2>1 DEF MadeCalls, Indices, Kind
  <2>4. CodexOwed'
    BY <1>8, <1>10, <1>13, <2>3 DEF CodexInv, CodexOwed
  <2> QED
    BY <2>2, <2>4 DEF CodexInv
<1>14. \E u : Leads(Mark(view'), queue', u)
  BY <1>2, <1>3
<1>15. wire' # "closed" => /\ provider' = "copilot-responses" => ResponsesInv'
                           /\ provider' = "copilot-chat" => ChatInv'
                           /\ provider' = "codex" => CodexInv'
  BY <1>8, <1>11, <1>12, <1>13 DEF StreamInv
<1> QED
  BY <1>5, <1>6, <1>7, <1>14, <1>15 DEF StreamInv

\* The stream is over.
LEMMA OverKeeps == ASSUME StreamInv, view.phase # "over", Over PROVE StreamInv' /\ Parts!Next
<1>1. PICK at, blocks, failed, part, sizes, calls, results, reason :
        view = Shape(at, blocks, failed, part, sizes, calls, results, reason)
  BY DEF StreamInv, Shaped
<1> DEFINE o == "over"
<1>2. view' = [view EXCEPT !.phase = o] /\ wire' = "closed"
  BY DEF Over
<1>3. view' = Shape(o, blocks, failed, part, sizes, calls, results, reason)
  <2> HIDE DEF o
  <2> QED
    BY <1>1, <1>2 DEF Shape
<1>4. Shaped(view')
  <2> HIDE DEF o
  <2> QED
    BY <1>3 DEF Shaped
<1>5. /\ view'.phase = o /\ view'.open = view.open /\ view'.calls = view.calls
      /\ view'.errored = view.errored /\ view'.last = view.last
  <2> HIDE DEF o
  <2> QED
    BY <1>1, <1>3 DEF Shape
<1>6. Parts!Close
  BY <1>5 DEF Parts!Close
<1>7. StreamInv'
  BY <1>2, <1>4, <1>5 DEF StreamInv
<1> QED
  BY <1>6, <1>7 DEF Parts!Next

\* A body that is over moves no parser.
LEMMA ClosedWire == wire = "closed" => ~ResponsesNext /\ ~ChatNext /\ ~CodexNext
<1> SUFFICES ASSUME wire = "closed" PROVE ~ResponsesNext /\ ~ChatNext /\ ~CodexNext
  OBVIOUS
<1>1. ~ResponsesNext
  BY DEF ResponsesNext, Created, ResponseFinished, ErrorChunk, CutShort, ResponsesFlush, OnItem, OutputItemAdded,
         OutputItemDone, InputChunk, CodeDone, PartialImage, TextDelta, SummaryPartAdded, SummaryTextDelta,
         AnnotationAdded, UnparsableChunk, Chunk
<1>2. ~ChatNext
  BY DEF ChatNext, ChatErrorChunk, FinishChunk, ChatCutShort, ChatFlush, DeltaChunk, DeltaThrows, UnparsableDelta, Sending
<1>3. ~Streaming /\ \A transport : ~Connecting(transport)
  BY DEF Streaming, Connecting
<1>4. \A i, types, next, out : ~Step(i, types, next, out)
  BY <1>3 DEF Step
<1>5. \A i : ~OnCodexItem(i)
  BY <1>4 DEF OnCodexItem, OnOutputTextDelta, OnReasoningDelta, OnReasoningAdded, OnFunctionCallAdded, OnOtherItem,
         OnReasoningSummaryPartAdded, OnReasoningSummaryPartDone, OnFunctionCallArgumentsDelta, OnFunctionCallDone,
         OnHostedToolDone, OnReasoningDone
<1>6. ~CodexNext
  BY <1>3, <1>5 DEF CodexNext, Timeouts, Connect, ConnectFails, PostFails, HeaderTimeout, FirstEventTimeout, EventIdleTimeout,
         TransportFails, StreamReadFails, MaxDuration, BadFrame, CleanClose, ProductiveFirstTimeout, CodexAbort,
         OnResponseFinish, OnProviderError
<1> QED
  BY <1>1, <1>2, <1>6

\* What a parser does leaves something to read, or ends the stream.
LEMMA ParsersKeep ==
  ASSUME StreamInv, ResponsesNext \/ ChatNext \/ CodexNext
  PROVE  StreamInv' /\ (Parts!Next \/ UNCHANGED Parts!vars)
<1>1. wire # "closed" /\ view.phase # "over"
  BY ClosedWire DEF StreamInv
<1> DEFINE Way == UNCHANGED view /\ (wire' # "closed" \/ \E w : Leads(Mark(view'), queue', w))
           ServedInv == /\ provider = "copilot-responses" => ResponsesInv
                        /\ provider = "copilot-chat" => ChatInv
                        /\ provider = "codex" => CodexInv
<1>2. ServedInv
  BY <1>1 DEF StreamInv
<1>3. UNCHANGED provider /\ (Over \/ (Way /\ (wire' # "closed" => ServedInv')))
  <2>1. CASE ResponsesNext
    <3>1. provider = "copilot-responses"
      BY <2>1 DEF ResponsesNext
    <3> QED
      BY <1>2, <2>1, <3>1, ResponsesKeep
  <2>2. CASE ChatNext
    <3>1. provider = "copilot-chat"
      BY <2>2 DEF ChatNext
    <3> QED
      BY <1>2, <2>2, <3>1, ChatKeep
  <2>3. CASE CodexNext
    <3>1. provider = "codex"
      BY <2>3 DEF CodexNext
    <3> QED
      BY <1>1, <1>2, <2>3, <3>1, CodexKeep
  <2> QED
    BY <2>1, <2>2, <2>3
<1>4. CASE Over
  BY <1>1, <1>4, OverKeeps
<1>5. CASE Way /\ (wire' # "closed" => ServedInv')
  <2>1. view' = view
    BY <1>5
  <2>2. UNCHANGED Parts!vars
    BY <2>1 DEF Parts!vars
  <2>3. \E w : Leads(Mark(view'), queue', w)
    <3>1. CASE wire' = "closed"
      BY <1>5, <3>1
    <3>2. CASE wire' # "closed"
      <4>1. provider = "copilot-responses" \/ provider = "copilot-chat" \/ provider = "codex"
        BY DEF ResponsesNext, ChatNext, CodexNext
      <4>2. ResponsesInv' \/ ChatInv' \/ CodexInv'
        BY <1>3, <1>5, <3>2, <4>1
      <4>3. ResponsesInv' => \E w : Leads(Mark(view'), queue', w)
        BY DEF ResponsesInv, ResponsesOwed
      <4>4. ChatInv' => \E w : Leads(Mark(view'), queue', w)
        BY DEF ChatInv, ChatOwed, OwedAt
      <4>5. CodexInv' => \E w : Leads(Mark(view'), queue', w)
        BY DEF CodexInv, CodexOwed, OwedAt
      <4> QED
        BY <4>2, <4>3, <4>4, <4>5
    <3> QED
      BY <3>1, <3>2
  <2>4. Shaped(view') /\ view'.errored \in BOOLEAN /\ view'.phase # "over"
    BY <1>1, <2>1 DEF StreamInv
  <2>5. StreamInv'
    BY <1>5, <2>3, <2>4 DEF StreamInv
  <2> QED
    BY <2>2, <2>5
<1> QED
  BY <1>3, <1>4, <1>5

LEMMA StreamSteps ==
  ASSUME StreamInv, [StreamsNext]_streamVars
  PROVE  StreamInv' /\ [Parts!Next]_Parts!vars
<1>1. CASE ResponsesNext \/ ChatNext \/ CodexNext
  BY <1>1, ParsersKeep
<1>2. CASE Deliver
  BY <1>2, DeliverKeeps
<1>3. CASE Closed \/ Abort
  BY <1>3, OverKeeps DEF Closed, Abort
<1>4. CASE UNCHANGED streamVars
  <2>1. /\ provider' = provider /\ answer' = answer /\ wire' = wire /\ parser' = parser /\ queue' = queue /\ view' = view
    BY <1>4 DEF streamVars
  <2>2. UNCHANGED Parts!vars
    BY <2>1 DEF Parts!vars
  <2>3. StreamInv'
    BY <2>1, SameStream
  <2> QED
    BY <2>2, <2>3
<1> QED
  BY <1>1, <1>2, <1>3, <1>4 DEF StreamsNext

\* Whichever provider serves the turn, and whatever its server, its transport and
\* its reader do, the parts the reader is given come as PartStream says.
THEOREM StreamsKeepPromises == StreamsSpec => KeepsPromises
<1>1. StreamsInit => StreamInv /\ Parts!Init
  BY StreamBegins
<1>2. StreamInv /\ [StreamsNext]_streamVars => StreamInv' /\ [Parts!Next]_Parts!vars
  BY StreamSteps
<1> QED
  BY <1>1, <1>2, PTL DEF StreamsSpec, KeepsPromises, Parts!Spec

-----------------------------------------------------------------------------
(* The calls of CopilotChat are whole.                                     *)

\* No call among the parts misses a piece of its arguments.
Sound(q) == \E S : q \in Seq(S) /\ \A p \in S : p.type = "tool-call" => p.data[3] # "cut"

LEMMA SoundNone == Sound(<<>>)
<1> DEFINE q == <<>>
<1>1. q \in Seq({})
  BY EmptySeq
<1> HIDE DEF q
<1>2. Sound(q)
  BY <1>1 DEF Sound
<1> QED
  BY <1>2 DEF q

LEMMA SoundOne == ASSUME NEW p, p.type = "tool-call" => p.data[3] # "cut" PROVE Sound(<<p>>)
<1> DEFINE q == <<p>>
<1>1. q \in Seq({p})
  OBVIOUS
<1> HIDE DEF q
<1>2. Sound(q)
  BY <1>1 DEF Sound
<1> QED
  BY <1>2 DEF q

LEMMA SoundOn == ASSUME NEW q, NEW r, Sound(q), Sound(r) PROVE Sound(q \o r)
<1>1. PICK S : q \in Seq(S) /\ \A p \in S : p.type = "tool-call" => p.data[3] # "cut"
  BY DEF Sound
<1>2. PICK R : r \in Seq(R) /\ \A p \in R : p.type = "tool-call" => p.data[3] # "cut"
  BY DEF Sound
<1>3. q \in Seq(S \cup R) /\ r \in Seq(S \cup R)
  <2>1. S \subseteq S \cup R /\ R \subseteq S \cup R
    OBVIOUS
  <2> QED
    BY <1>1, <1>2, <2>1
<1>4. q \o r \in Seq(S \cup R)
  BY <1>3, ConcatProperties
<1>5. \A p \in S \cup R : p.type = "tool-call" => p.data[3] # "cut"
  BY <1>1, <1>2
<1> QED
  BY <1>4, <1>5 DEF Sound

LEMMA SoundLess ==
  ASSUME NEW q, Sound(q), q # <<>>
  PROVE  (Head(q).type = "tool-call" => Head(q).data[3] # "cut") /\ Sound(Tail(q))
<1>1. PICK S : q \in Seq(S) /\ \A p \in S : p.type = "tool-call" => p.data[3] # "cut"
  BY DEF Sound
<1>2. Head(q) \in S /\ Tail(q) \in Seq(S)
  BY <1>1, HeadTailProperties
<1> QED
  BY <1>1, <1>2 DEF Sound

LEMMA SoundFlatten ==
  ASSUME NEW N \in Nat, NEW seqs, DOMAIN seqs = 1..N, seqs = [n \in 1..N |-> seqs[n]],
         \A n \in 1..N : Sound(seqs[n])
  PROVE  Sound(FlattenSeq(seqs))
<1>0. Len(seqs) = N
  <2>1. seqs \in [1..N -> {seqs[n] : n \in 1..N}]
    OBVIOUS
  <2>2. seqs \in Seq({seqs[n] : n \in 1..N})
    BY <2>1, SeqDef
  <2> QED
    BY <2>2, LenProperties
<1>1. CASE N = 0
  <2>1. seqs = <<>>
    BY <1>1, <1>0
  <2>2. FlattenSeq(seqs) = seqs
    BY <1>0, <1>1 DEF FlattenSeq
  <2> QED
    BY <2>1, <2>2, SoundNone
<1>2. CASE N # 0
  <2>0. N \in Nat \ {0}
    BY <1>2
  <2>1. PICK g : /\ FlattenSeq(seqs) = g[N]
                 /\ g = [i \in 1..N |-> IF i = 1 THEN seqs[i] ELSE g[i - 1] \o seqs[i]]
    BY <2>0, <1>0, FlattenIs
  <2> DEFINE Bad == {n \in 1..N : ~Sound(g[n])}
  <2>2. Sound(g[1])
    BY <2>0, <2>1
  <2>3. ASSUME NEW n \in 2..N, Sound(g[n - 1]) PROVE Sound(g[n])
    <3>1. n \in 1..N /\ n # 1
      OBVIOUS
    <3>2. g[n] = g[n - 1] \o seqs[n]
      BY <2>1, <3>1
    <3> QED
      BY <2>3, <3>1, <3>2, SoundOn
  <2>4. Bad = {}
    <3> SUFFICES ASSUME Bad # {} PROVE FALSE
      OBVIOUS
    <3>1. PICK n \in Bad : \A m \in Bad : n <= m
      <4>1. Bad \in SUBSET Nat
        OBVIOUS
      <4> QED
        BY <4>1, Least
    <3>2. n # 1
      BY <2>2
    <3>3. n \in 2..N /\ n - 1 \in 1..N /\ ~(n <= n - 1)
      BY <3>2
    <3>4. Sound(g[n - 1])
      BY <3>1, <3>3
    <3> QED
      BY <3>3, <3>4, <2>3
  <2>5. Sound(g[N])
    BY <2>0, <2>4
  <2> QED
    BY <2>1, <2>5
<1> QED
  BY <1>1, <1>2

\* A part that is no call.
LEMMA SoundPart == ASSUME NEW type, NEW id, type # "tool-call" PROVE Sound(<<Part(type, id)>>)
<1> DEFINE p == Part(type, id)
<1>1. p.type # "tool-call"
  BY DEF Part
<1> HIDE DEF p
<1>2. Sound(<<p>>)
  BY <1>1, SoundOne
<1> QED
  BY <1>2 DEF p

LEMMA SoundCall ==
  ASSUME NEW k, NEW call, call.pieces = answer.totals[k]
  PROVE  Sound(CompleteCall(call, k))
<1> DEFINE p == Part("tool-input-end", ToolId(k))
           r == PartOf("tool-call", ToolId(k), CallWith(TRUE))
<1>1. CompleteCall(call, k) = <<p, r>>
  BY DEF CompleteCall
<1>2. CallWith(TRUE)[3] # "cut"
  BY DEF CallWith
<1>3. r.data[3] # "cut"
  BY <1>2 DEF PartOf
<1>4. Sound(<<p>>)
  BY SoundPart
<1> HIDE DEF p, r
<1>5. Sound(<<r>>)
  BY <1>3, SoundOne
<1>6. Sound(<<p>> \o <<r>>)
  BY <1>4, <1>5, SoundOn
<1> QED
  BY <1>1, <1>6, PairIs

\* A call that completes in a delta has all its pieces.
LEMMA SoundParts == ASSUME NEW k PROVE Sound(PartsOfCall(k))
<1> DEFINE call == parser.calls[k]
           grown == Grown(call, k)
           a == IF call = None THEN <<Part("tool-input-start", ToolId(k))>> ELSE << >>
           b == IF call # None \/ grown.pieces > 0 THEN <<Part("tool-input-delta", ToolId(k))>> ELSE << >>
           c == IF Parsable(grown, k) THEN CompleteCall(grown, k) ELSE << >>
<1>1. PartsOfCall(k) = IF call # None /\ call.done THEN << >> ELSE a \o b \o c
  BY DEF PartsOfCall, CallParts
<1> HIDE DEF call, grown
<1>2. Sound(a) /\ Sound(b)
  BY SoundNone, SoundPart
<1>3. Sound(c)
  <2>1. Parsable(grown, k) => grown.pieces = answer.totals[k]
    BY DEF Parsable
  <2> QED
    BY <2>1, SoundCall, SoundNone
<1> HIDE DEF a, b, c
<1> QED
  BY <1>1, <1>2, <1>3, SoundNone, SoundOn

LEMMA SoundDelta ==
  ASSUME ChatTyped, NEW d \in Deltas
  PROVE  Sound(FirstParts \o ReasoningParts(d) \o ContentParts(d) \o ToolParts(d))
<1>1. Sound(FirstParts)
  BY SoundNone, SoundPart DEF FirstParts
<1>2. Sound(ReasoningParts(d))
  <2> DEFINE a == IF parser.reasoning THEN << >> ELSE <<Part("reasoning-start", TextId)>>
             b == <<Part("reasoning-delta", TextId)>>
  <2>1. Sound(a) /\ Sound(b)
    BY SoundNone, SoundPart
  <2>2. ReasoningParts(d) = IF ~d.reasoning THEN << >> ELSE a \o b
    BY DEF ReasoningParts
  <2> HIDE DEF a, b
  <2> QED
    BY <2>1, <2>2, SoundNone, SoundOn
<1>3. Sound(ContentParts(d))
  <2> DEFINE a == IF EndsBeforeText(d) THEN <<Part("reasoning-end", TextId)>> ELSE << >>
             b == IF parser.text THEN << >> ELSE <<Part("text-start", TextId)>>
             c == <<Part("text-delta", TextId)>>
  <2>1. Sound(a) /\ Sound(b) /\ Sound(c)
    BY SoundNone, SoundPart
  <2>2. ContentParts(d) = IF ~d.content THEN << >> ELSE a \o b \o c
    BY DEF ContentParts
  <2> HIDE DEF a, b, c
  <2> QED
    BY <2>1, <2>2, SoundNone, SoundOn
<1>4. Sound(ToolParts(d))
  <2> DEFINE a == IF EndsBeforeCalls(d) THEN <<Part("reasoning-end", TextId)>> ELSE << >>
             seqs == [n \in DOMAIN d.calls |-> PartsOfCall(d.calls[n])]
             N == Len(d.calls)
  <2>1. Sound(a)
    BY SoundNone, SoundPart
  <2>2. N \in Nat /\ DOMAIN seqs = 1..N /\ seqs = [n \in 1..N |-> seqs[n]]
    BY DeltaIs
  <2>3. \A n \in 1..N : Sound(seqs[n])
    BY <2>2, SoundParts
  <2>4. ToolParts(d) = a \o FlattenSeq(seqs)
    BY DEF ToolParts
  <2> HIDE DEF a, seqs, N
  <2>5. Sound(FlattenSeq(seqs))
    BY <2>2, <2>3, SoundFlatten
  <2> QED
    BY <2>1, <2>4, <2>5, SoundOn
<1> QED
  BY <1>1, <1>2, <1>3, <1>4, SoundOn

-----------------------------------------------------------------------------

\* The stream has lost a chunk, was cut or was told its message is not whole.
Excused ==
  \/ faults > 0
  \/ parser.finish[1] \in {"length", "content-filter"}

\* The parser has counted the pieces that were sent of every call.
Counted ==
  /\ answer.sent \in [DOMAIN answer.totals -> Nat]
  /\ \A k \in DOMAIN answer.totals :
       IF parser.calls[k] = None THEN answer.sent[k] = 0
       ELSE /\ parser.calls[k].pieces = answer.sent[k]
            /\ parser.calls[k].done => answer.sent[k] = answer.totals[k]

\* Every call read, and every call to be read, is whole.
Told == (\A id \in DOMAIN view.calls : view.calls[id][3] # "cut") /\ Sound(queue)

CallsInv ==
  provider = "copilot-chat" =>
    /\ faults \in Nat
    /\ faults = 0 =>
         /\ ~Excused => Told
         /\ wire = "open" => Counted /\ parser.finish[1] = "other"
         /\ wire = "done" /\ ~Excused => Counted /\ answer.sent = answer.totals
         /\ wire # "cut"

LEMMA CallsBegin == StreamsInit => CallsInv
<1> SUFFICES ASSUME StreamsInit, provider = "copilot-chat" PROVE CallsInv
  BY DEF CallsInv
<1>1. wire = "open" /\ ChatInit /\ faults = 0 /\ view = Fresh
  BY DEF StreamsInit
<1>2. PICK totals \in CallTotals :
        answer = [totals |-> totals, sent |-> [k \in DOMAIN totals |-> 0],
                  begun |-> 0, reasoning |-> 0, content |-> 0, opaque |-> FALSE, finish |-> None]
  BY <1>1 DEF ChatInit
<1>3. answer.totals = totals /\ answer.sent = [k \in DOMAIN totals |-> 0]
  BY <1>2
<1>4. parser.calls = [k \in DOMAIN answer.totals |-> None] /\ parser.finish = <<"other">>
  BY <1>1 DEF ChatInit
<1>5. Counted
  BY <1>3, <1>4 DEF Counted
<1>6. parser.finish[1] = "other"
  BY <1>4
<1>7. \A id \in DOMAIN view.calls : view.calls[id][3] # "cut"
  <2>1. view.calls = << >>
    BY <1>1 DEF Fresh
  <2>2. DOMAIN view.calls = {}
    BY <2>1
  <2> QED
    BY <2>2
<1>8. Sound(queue)
  BY <1>1, SoundPart DEF ChatInit
<1> QED
  BY <1>1, <1>5, <1>6, <1>7, <1>8 DEF CallsInv, Told

\* What one part makes of the calls the reader has.
LEMMA CallsRead ==
  ASSUME NEW v, Shaped(v), NEW p, p.type \in Types
  PROVE  Read(v, p).calls = IF p.type = "tool-call" THEN With(v.calls, p.id, p.data) ELSE v.calls
<1> PICK at, blocks, failed, part, sizes, calls, results, reason :
         v = Shape(at, blocks, failed, part, sizes, calls, results, reason)
  BY DEF Shaped
<1> DEFINE Seen(a, o, f, z, c, r, x) == Shape(a, o, f, [type |-> p.type, id |-> p.id], z, c, r, x)
<1>0. v.calls = calls
  BY DEF Shape
<1>1. \A a, o, f, z, c, r, x : Seen(a, o, f, z, c, r, x).calls = c
  BY DEF Shape
<1>2. CASE p.type = "stream-start"
  <2>1. Read(v, p) = Seen("open", blocks, failed, sizes, calls, results, reason)
    BY <1>2 DEF Read, Shape, StartTypes, DeltaTypes, EndTypes, Block
  <2> HIDE DEF Seen
  <2> QED
    BY <1>0, <1>1, <1>2, <2>1
<1>3. CASE p.type \in StartTypes
  <2>1. Read(v, p) = Seen(at, blocks \cup {Block(p)}, failed, With(sizes, Block(p), Size(v, Block(p))), calls, results, reason)
    BY <1>3 DEF Read, Shape, StartTypes, DeltaTypes, EndTypes, Block
  <2> HIDE DEF Seen
  <2> QED
    BY <1>0, <1>1, <1>3, <2>1 DEF StartTypes
<1>4. CASE p.type \in DeltaTypes
  <2>1. Read(v, p) = Seen(at, blocks, failed, With(sizes, Block(p), Size(v, Block(p)) + 1), calls, results, reason)
    BY <1>4 DEF Read, Shape, StartTypes, DeltaTypes, EndTypes, Block
  <2> HIDE DEF Seen
  <2> QED
    BY <1>0, <1>1, <1>4, <2>1 DEF DeltaTypes
<1>5. CASE p.type \in EndTypes
  <2>1. Read(v, p) = Seen(at, blocks \ {Block(p)}, failed, sizes, calls, results, reason)
    BY <1>5 DEF Read, Shape, StartTypes, DeltaTypes, EndTypes, Block
  <2> HIDE DEF Seen
  <2> QED
    BY <1>0, <1>1, <1>5, <2>1 DEF EndTypes
<1>6. CASE p.type = "tool-call"
  <2>1. Read(v, p) = Seen(at, blocks, failed, sizes, With(calls, p.id, p.data), results, reason)
    BY <1>6 DEF Read, Shape, StartTypes, DeltaTypes, EndTypes, Block
  <2> HIDE DEF Seen
  <2> QED
    BY <1>0, <1>1, <1>6, <2>1
<1>7. CASE p.type = "tool-result"
  <2>1. Read(v, p) = Seen(at, blocks, failed, sizes, calls, With(results, p.id, p.data), reason)
    BY <1>7 DEF Read, Shape, StartTypes, DeltaTypes, EndTypes, Block
  <2> HIDE DEF Seen
  <2> QED
    BY <1>0, <1>1, <1>7, <2>1
<1>8. CASE p.type = "error"
  <2>1. Read(v, p) = Seen(at, blocks, TRUE, sizes, calls, results, reason)
    BY <1>8 DEF Read, Shape, StartTypes, DeltaTypes, EndTypes, Block
  <2>2. Seen(at, blocks, TRUE, sizes, calls, results, reason).calls = calls
    BY DEF Shape
  <2> HIDE DEF Seen
  <2> QED
    BY <1>0, <1>8, <2>1, <2>2
<1>9. CASE p.type = "finish"
  <2>1. Read(v, p) = Seen("finished", blocks, failed, sizes, calls, results, p.data)
    BY <1>9 DEF Read, Shape, StartTypes, DeltaTypes, EndTypes, Block
  <2> HIDE DEF Seen
  <2> QED
    BY <1>0, <1>1, <1>9, <2>1
<1>10. CASE p.type \in {"response-metadata", "source"}
  <2>1. Read(v, p) = Seen(at, blocks, failed, sizes, calls, results, reason)
    BY <1>10 DEF Read, Shape, StartTypes, DeltaTypes, EndTypes, Block
  <2> HIDE DEF Seen
  <2> QED
    BY <1>0, <1>1, <1>10, <2>1
<1> QED
  BY <1>2, <1>3, <1>4, <1>5, <1>6, <1>7, <1>8, <1>9, <1>10 DEF Types

LEMMA ReadWhole ==
  ASSUME StreamInv, CallsInv, Deliver
  PROVE  CallsInv'
<1> SUFFICES ASSUME provider = "copilot-chat", faults = 0 PROVE CallsInv'
  BY DEF CallsInv, Deliver
<1> DEFINE p == Head(queue)
<1>1. view.phase # "over" /\ queue # << >> /\ view' = Read(view, p) /\ queue' = Tail(queue)
      /\ UNCHANGED <<provider, answer, wire, faults, parser>>
  BY DEF Deliver
<1>2. PICK t : Leads(Mark(view), queue, t)
  BY <1>1 DEF StreamInv
<1>3. p.type \in Types
  BY <1>1, <1>2, LeadsLess DEF Allowed
<1>4. view'.calls = IF p.type = "tool-call" THEN With(view.calls, p.id, p.data) ELSE view.calls
  BY <1>1, <1>3, CallsRead DEF StreamInv
<1>5. ASSUME Told PROVE Told'
  <2>1. (p.type = "tool-call" => p.data[3] # "cut") /\ Sound(queue')
    BY <1>1, <1>5, SoundLess DEF Told
  <2>2. ASSUME NEW id \in DOMAIN view'.calls PROVE view'.calls[id][3] # "cut"
    <3>1. CASE p.type = "tool-call"
      <4> HIDE DEF p
      <4>1. view'.calls = [z \in DOMAIN view.calls \cup {p.id} |-> IF z = p.id THEN p.data ELSE view.calls[z]]
        BY <1>4, <3>1 DEF With
      <4>2. view'.calls[id] = IF id = p.id THEN p.data ELSE view.calls[id]
        BY <4>1
      <4>3. id # p.id => id \in DOMAIN view.calls
        BY <4>1
      <4> QED
        BY <4>2, <4>3, <2>1, <3>1, <1>5 DEF Told
    <3>2. CASE p.type # "tool-call"
      BY <1>4, <1>5, <3>2 DEF Told
    <3> QED
      BY <3>1, <3>2
  <2> QED
    BY <2>1, <2>2 DEF Told
<1>6. Counted' <=> Counted
  BY <1>1 DEF Counted
<1>7. Excused' <=> Excused
  BY <1>1 DEF Excused
<1> QED
  BY <1>1, <1>5, <1>6, <1>7 DEF CallsInv

LEMMA OverWhole ==
  ASSUME StreamInv, CallsInv, Over, UNCHANGED <<provider, parser>>, faults' = faults \/ faults' = faults + 1
  PROVE  CallsInv'
<1> SUFFICES ASSUME provider = "copilot-chat" PROVE CallsInv'
  BY DEF CallsInv
<1>1. faults \in Nat /\ faults' \in Nat
  BY DEF CallsInv
<1>2. ASSUME faults' = 0 PROVE (~Excused' => Told') /\ wire' = "closed"
  <2>1. faults = 0
    BY <1>1, <1>2
  <2>2. Excused' <=> Excused
    BY <1>2, <2>1 DEF Excused
  <2>3. Sound(queue') /\ wire' = "closed"
    BY SoundNone DEF Over
  <2>4. view'.calls = view.calls
    <3>1. PICK at, blocks, failed, part, sizes, calls, results, reason :
            view = Shape(at, blocks, failed, part, sizes, calls, results, reason)
      BY DEF StreamInv, Shaped
    <3>2. view' = [view EXCEPT !.phase = "over"]
      BY DEF Over
    <3> QED
      BY <3>1, <3>2 DEF Shape
  <2> QED
    BY <2>1, <2>2, <2>3, <2>4 DEF CallsInv, Told
<1> QED
  BY <1>1, <1>2 DEF CallsInv

\* One more delta: what it adds to a call is what was sent of it.
LEMMA DeltaCounted ==
  ASSUME ChatTyped, Counted, NEW d \in Deltas, answer' = Advanced(d),
         parser'.calls = [k \in DOMAIN parser.calls |-> IF k \in ToSet(d.calls) THEN CallAfter(k) ELSE parser.calls[k]]
  PROVE  Counted'
<1> DEFINE More(k) == \E n \in DOMAIN d.calls : d.calls[n] = k /\ answer.sent[k] < answer.totals[k]
<1>1. Answering' /\ answer'.totals = answer.totals
  BY AdvancedIs DEF ChatTyped
<1>2. answer'.sent = [k \in DOMAIN answer.totals |-> IF More(k) THEN answer.sent[k] + 1 ELSE answer.sent[k]]
  <2>1. PICK totals, sent, begun, reasoning, content, opaque, finish :
          answer = ChatAnswer(totals, sent, begun, reasoning, content, opaque, finish)
    BY DEF ChatTyped, Answering
  <2> DEFINE a == [k \in DOMAIN answer.sent |-> IF More(k) THEN answer.sent[k] + 1 ELSE answer.sent[k]]
             b == Len(SelectSeq(d.calls, LAMBDA k : k > answer.begun)) + answer.begun
             c == IF d.reasoning THEN answer.reasoning + 1 ELSE answer.reasoning
             e == IF d.content THEN answer.content + 1 ELSE answer.content
             f == answer.opaque \/ d.opaque
  <2>2. answer' = [answer EXCEPT !.sent = a, !.begun = b, !.reasoning = c, !.content = e, !.opaque = f]
    BY DEF Advanced
  <2>3. DOMAIN answer.sent = DOMAIN answer.totals
    BY DEF Counted
  <2> HIDE DEF a, b, c, e, f
  <2>4. answer' = ChatAnswer(totals, a, b, c, e, f, finish)
    BY <2>1, <2>2 DEF ChatAnswer
  <2>5. answer'.sent = a
    BY <2>4 DEF ChatAnswer
  <2> HIDE DEF More
  <2> QED
    BY <2>3, <2>5 DEF a
<1>3. ASSUME NEW k \in DOMAIN answer.totals
      PROVE  /\ answer'.sent[k] \in Nat
             /\ IF parser'.calls[k] = None THEN answer'.sent[k] = 0
                ELSE /\ parser'.calls[k].pieces = answer'.sent[k]
                     /\ parser'.calls[k].done => answer'.sent[k] = answer.totals[k]
  <2> DEFINE call == parser.calls[k]
             s == answer.sent[k]
             t == answer.totals[k]
  <2>1. s \in Nat /\ t \in Nat
    BY ChatIs DEF Counted
  <2>2. IF call = None THEN s = 0 ELSE call.pieces = s /\ (call.done => s = t)
    BY DEF Counted
  <2>3. answer'.sent[k] = IF More(k) THEN s + 1 ELSE s
    BY <1>2
  <2>4. parser'.calls[k] = IF k \in ToSet(d.calls) THEN CallAfter(k) ELSE call
    BY AfterIs
  <2>5. More(k) <=> k \in ToSet(d.calls) /\ s < t
    BY DEF ToSet
  <2> HIDE DEF More
  <2>6. CASE k \notin ToSet(d.calls)
    BY <2>1, <2>2, <2>3, <2>4, <2>5, <2>6
  <2>7. CASE k \in ToSet(d.calls) /\ call # None /\ call.done
    <3>1. CallAfter(k) = call
      BY <2>7 DEF CallAfter
    <3>2. ~(s < t)
      BY <2>1, <2>2, <2>7
    <3> QED
      BY <3>1, <3>2, <2>1, <2>2, <2>3, <2>4, <2>5, <2>7
  <2>8. CASE k \in ToSet(d.calls) /\ ~(call # None /\ call.done)
    <3> DEFINE n == IF s < t THEN s + 1 ELSE s
               b == Parsable(CallRecord(n, FALSE), k)
    <3>1. Grown(call, k) = CallRecord(n, FALSE)
      <4> DEFINE x == IF call = None THEN 0 ELSE call.pieces
                 y == IF s < t THEN 1 ELSE 0
      <4>1. Grown(call, k) = CallRecord(x + y, FALSE)
        BY DEF Grown, CallRecord
      <4>2. x = s
        BY <2>2
      <4> HIDE DEF x
      <4>3. x + y = n
        BY <4>2, <2>1
      <4> HIDE DEF y, n
      <4> QED
        BY <4>1, <4>3
    <3>2. CallAfter(k) = [CallRecord(n, FALSE) EXCEPT !.done = b]
      BY <2>8, <3>1 DEF CallAfter
    <3>3. b => n = t
      BY RecordIs DEF Parsable
    <3>4. b \in BOOLEAN
      BY DEF Parsable
    <3>5. n \in Nat
      BY <2>1
    <3>6. answer'.sent[k] = n
      BY <2>3, <2>5, <2>8
    <3> HIDE DEF n, b
    <3>7. CallAfter(k) = CallRecord(n, b)
      BY <3>2 DEF CallRecord
    <3>8. CallAfter(k) # None /\ CallAfter(k).pieces = n /\ CallAfter(k).done = b
      BY <3>4, <3>7, RecordIs
    <3> QED
      BY <3>3, <3>5, <3>6, <3>8, <2>4, <2>8
  <2> QED
    BY <2>6, <2>7, <2>8
<1>4. answer'.sent \in [DOMAIN answer'.totals -> Nat]
  <2> HIDE DEF More
  <2> QED
    BY <1>1, <1>2, <1>3
<1> QED
  BY <1>1, <1>3, <1>4 DEF Counted

LEMMA DeltaWhole ==
  ASSUME ChatInv, CallsInv, provider = "copilot-chat", NEW d \in Deltas, DeltaChunk(d)
  PROVE  CallsInv'
<1> SUFFICES ASSUME faults = 0 PROVE CallsInv'
  BY DEF CallsInv, DeltaChunk
<1>0. ChatTyped
  BY DEF ChatInv
<1> DEFINE out == FirstParts \o ReasoningParts(d) \o ContentParts(d) \o ToolParts(d)
           C == [k \in DOMAIN parser.calls |-> IF k \in ToSet(d.calls) THEN CallAfter(k) ELSE parser.calls[k]]
           r == ReasoningActive(d) /\ ~EndsBeforeText(d) /\ d.calls = << >>
           x == parser.text \/ d.content
           o == parser.opaque \/ d.opaque
<1>1. wire = "open" /\ answer' = Advanced(d) /\ queue' = queue \o out /\ UNCHANGED <<provider, wire, faults, view>>
  BY DEF DeltaChunk, Emit, Sending
<1>2. parser'.calls = C /\ parser'.finish = parser.finish
  <2>1. PICK calls, first, reasoning, text, opaque, finish : parser = ChatParser(calls, first, reasoning, text, opaque, finish)
    BY <1>0 DEF ChatTyped, Parsing
  <2>2. parser' = [parser EXCEPT !.first = FALSE, !.opaque = o, !.reasoning = r, !.text = x, !.calls = C]
    BY DEF DeltaChunk
  <2> HIDE DEF C, r, x, o
  <2>3. parser' = ChatParser(C, FALSE, r, x, o, finish)
    BY <2>1, <2>2 DEF ChatParser
  <2> QED
    BY <2>1, <2>3 DEF ChatParser
<1>3. Counted /\ parser.finish[1] = "other" /\ ~Excused
  BY <1>1 DEF CallsInv, Excused
<1>4. Counted'
  BY <1>0, <1>1, <1>2, <1>3, DeltaCounted
<1>5. Told'
  <2>1. Told
    BY <1>3 DEF CallsInv
  <2>2. Sound(out)
    BY <1>0, SoundDelta
  <2> HIDE DEF out
  <2> QED
    BY <1>1, <2>1, <2>2, SoundOn DEF Told
<1> QED
  BY <1>1, <1>2, <1>3, <1>4, <1>5 DEF CallsInv

LEMMA ReasonIs == ChatFinishReason["length"] = "length" /\ ChatFinishReason["content_filter"] = "content-filter"
  BY DEF ChatFinishReason

LEMMA FinishWhole ==
  ASSUME ChatInv, CallsInv, provider = "copilot-chat", FinishChunk
  PROVE  CallsInv'
<1> SUFFICES ASSUME faults = 0 PROVE CallsInv'
  BY DEF CallsInv, FinishChunk
<1>0. ChatTyped /\ Answering
  BY DEF ChatInv, ChatTyped
<1>1. PICK reason \in DOMAIN ChatFinishReason :
        /\ reason \notin {"length", "content_filter"} => MessageWhole
        /\ answer' = [answer EXCEPT !.finish = <<ChatFinishReason[reason]>>]
        /\ parser' = [parser EXCEPT !.finish = <<ChatFinishReason[reason]>>, !.first = FALSE]
  BY DEF FinishChunk
<1>2. wire = "open" /\ wire' = "done" /\ queue' = queue \o FirstParts /\ UNCHANGED <<provider, faults, view>>
  BY DEF FinishChunk, Emit, Sending
<1> DEFINE y == <<ChatFinishReason[reason]>>
<1>3. answer'.totals = answer.totals /\ answer'.sent = answer.sent
  <2>1. PICK totals, sent, begun, reasoning, content, opaque, finish :
          answer = ChatAnswer(totals, sent, begun, reasoning, content, opaque, finish)
    BY <1>0 DEF Answering
  <2>2. answer' = [answer EXCEPT !.finish = y]
    BY <1>1
  <2> HIDE DEF y
  <2> QED
    BY <2>1, <2>2 DEF ChatAnswer
<1>4. parser'.calls = parser.calls /\ parser'.finish = y
  <2>1. PICK calls, first, reasoning, text, opaque, finish : parser = ChatParser(calls, first, reasoning, text, opaque, finish)
    BY <1>0 DEF ChatTyped, Parsing
  <2>2. parser' = [parser EXCEPT !.finish = y, !.first = FALSE]
    BY <1>1
  <2> HIDE DEF y
  <2>3. parser' = ChatParser(calls, FALSE, reasoning, text, opaque, y)
    BY <2>1, <2>2 DEF ChatParser
  <2> QED
    BY <2>1, <2>3 DEF ChatParser
<1>5. Counted /\ parser.finish[1] = "other" /\ ~Excused
  BY <1>2 DEF CallsInv, Excused
<1>6. Counted'
  BY <1>3, <1>4, <1>5 DEF Counted
<1>7. Told'
  <2>1. Told
    BY <1>5 DEF CallsInv
  <2>2. Sound(FirstParts)
    BY SoundNone, SoundPart DEF FirstParts
  <2> QED
    BY <1>2, <2>1, <2>2, SoundOn DEF Told
<1>8. Excused' \/ answer'.sent = answer'.totals
  <2>1. CASE reason \in {"length", "content_filter"}
    <3>1. y[1] = ChatFinishReason[reason]
      OBVIOUS
    <3>2. y[1] \in {"length", "content-filter"}
      BY <2>1, <3>1, ReasonIs
    <3> HIDE DEF y
    <3> QED
      BY <3>2, <1>4 DEF Excused
  <2>2. CASE reason \notin {"length", "content_filter"}
    BY <2>2, <1>1, <1>3 DEF MessageWhole
  <2> QED
    BY <2>1, <2>2
<1> QED
  BY <1>2, <1>6, <1>7, <1>8 DEF CallsInv

\* What a message that arrived whole leaves to be said at its end.
LEMMA SoundEnd ==
  ASSUME ChatTyped, Counted, answer.sent = answer.totals
  PROVE  Sound(UnfinishedParts)
<1> DEFINE N == Len(answer.totals)
           seqs == [k \in DOMAIN parser.calls |-> IF parser.calls[k] # None /\ ~parser.calls[k].done
                                                  THEN CompleteCall(parser.calls[k], k) ELSE << >>]
<1>1. N \in Nat /\ DOMAIN answer.totals = 1..N /\ DOMAIN parser.calls = 1..N
  BY ChatIs
<1>2. ASSUME NEW k \in 1..N PROVE Sound(seqs[k])
  <2> DEFINE call == parser.calls[k]
  <2>1. call # None => call.pieces = answer.totals[k]
    BY <1>1 DEF Counted
  <2>2. seqs[k] = IF call # None /\ ~call.done THEN CompleteCall(call, k) ELSE << >>
    BY <1>1
  <2> HIDE DEF call, seqs
  <2> QED
    BY <2>1, <2>2, SoundCall, SoundNone
<1>3. DOMAIN seqs = 1..N /\ seqs = [k \in 1..N |-> seqs[k]]
  BY <1>1
<1>4. UnfinishedParts = FlattenSeq(seqs)
  BY DEF UnfinishedParts
<1> HIDE DEF seqs, N
<1> QED
  BY <1>1, <1>2, <1>3, <1>4, SoundFlatten

LEMMA FlushWhole ==
  ASSUME ChatInv, CallsInv, provider = "copilot-chat", ChatFlush
  PROVE  CallsInv'
<1> SUFFICES ASSUME faults = 0 PROVE CallsInv'
  BY DEF CallsInv, ChatFlush
<1> DEFINE A == IF parser.reasoning THEN <<Part("reasoning-end", TextId)>> ELSE << >>
           B == IF parser.text THEN <<Part("text-end", TextId)>> ELSE << >>
           f == PartOf("finish", <<1>>, parser.finish)
           out == A \o B \o UnfinishedParts \o <<f>>
<1>1. wire = "done" /\ wire' = "closed" /\ queue' = queue \o out /\ UNCHANGED <<provider, answer, faults, parser, view>>
  BY DEF ChatFlush, Emit, CallsInv
<1>2. Excused' <=> Excused
  BY <1>1 DEF Excused
<1>3. ASSUME ~Excused PROVE Told'
  <2>1. Told /\ Counted /\ answer.sent = answer.totals
    BY <1>1, <1>3 DEF CallsInv
  <2>2. Sound(UnfinishedParts)
    BY <2>1, SoundEnd DEF ChatInv
  <2>3. Sound(A) /\ Sound(B)
    BY SoundNone, SoundPart
  <2>4. f.type # "tool-call"
    BY DEF PartOf
  <2> HIDE DEF A, B, f
  <2>5. Sound(<<f>>)
    BY <2>4, SoundOne
  <2>6. Sound(out)
    BY <2>2, <2>3, <2>5, SoundOn
  <2> HIDE DEF out
  <2> QED
    BY <1>1, <2>1, <2>6, SoundOn DEF Told
<1> QED
  BY <1>1, <1>2, <1>3 DEF CallsInv

LEMMA ChatWhole == ASSUME StreamInv, CallsInv, ChatNext PROVE CallsInv'
<1>1. provider = "copilot-chat" /\ wire # "closed" /\ ChatInv
  BY ClosedWire DEF ChatNext, StreamInv
<1>2. faults \in Nat
  BY <1>1 DEF CallsInv
<1>3. CASE UNCHANGED provider /\ faults' = faults + 1
  BY <1>2, <1>3 DEF CallsInv
<1>4. CASE \E d \in Deltas : DeltaThrows(d)
  <2>1. Over /\ UNCHANGED <<provider, faults, parser>>
    BY <1>4 DEF DeltaThrows
  <2> QED
    BY <2>1, OverWhole
<1>5. CASE \E d \in Deltas : DeltaChunk(d)
  BY <1>1, <1>5, DeltaWhole
<1>6. CASE FinishChunk
  BY <1>1, <1>6, FinishWhole
<1>7. CASE ChatFlush
  BY <1>1, <1>7, FlushWhole
<1>8. ChatErrorChunk \/ ChatCutShort \/ (\E d \in Deltas : UnparsableDelta(d)) => UNCHANGED provider /\ faults' = faults + 1
  BY DEF ChatErrorChunk, ChatCutShort, UnparsableDelta
<1> QED
  BY <1>3, <1>4, <1>5, <1>6, <1>7, <1>8 DEF ChatNext

LEMMA WholeSteps == ASSUME StreamInv, CallsInv, [StreamsNext]_streamVars PROVE CallsInv'
<1>1. CASE ChatNext
  BY <1>1, ChatWhole
<1>2. CASE ResponsesNext \/ CodexNext
  <2>1. provider # "copilot-chat" /\ wire # "closed"
    BY <1>2, ClosedWire DEF ResponsesNext, CodexNext
  <2>2. provider' = provider
    <3>1. CASE ResponsesNext
      <4>1. ResponsesInv
        BY <2>1, <3>1 DEF StreamInv, ResponsesNext
      <4> QED
        BY <3>1, <4>1, ResponsesKeep
    <3>2. CASE CodexNext
      <4>1. CodexInv
        BY <2>1, <3>2 DEF StreamInv, CodexNext
      <4> QED
        BY <2>1, <3>2, <4>1, CodexKeep
    <3> QED
      BY <1>2, <3>1, <3>2
  <2> QED
    BY <2>1, <2>2 DEF CallsInv
<1>3. CASE Deliver
  BY <1>3, ReadWhole
<1>4. CASE Closed \/ Abort
  BY <1>4, OverWhole DEF Closed, Abort
<1>5. CASE UNCHANGED streamVars
  BY <1>5 DEF streamVars, CallsInv, Excused, Told, Counted
<1> QED
  BY <1>1, <1>2, <1>3, <1>4, <1>5 DEF StreamsNext

\* A function is called with arguments a piece of which is missing only in a
\* stream that lost a chunk, was cut or was told its message is not whole
\* (doStream of the Copilot chat model, its isParsableJson and its flush).
THEOREM CallsWhole == StreamsSpec => []CallsAreWhole
<1>1. StreamsInit => StreamInv /\ CallsInv
  BY StreamBegins, CallsBegin
<1>2. StreamInv /\ CallsInv /\ [StreamsNext]_streamVars => StreamInv' /\ CallsInv'
  BY StreamSteps, WholeSteps
<1>3. CallsInv => CallsAreWhole
  <2> SUFFICES ASSUME CallsInv, provider = "copilot-chat", ~Excused PROVE \A id \in DOMAIN view.calls : view.calls[id][3] # "cut"
    BY DEF CallsAreWhole, Excused
  <2>1. faults = 0
    BY DEF CallsInv, Excused
  <2> QED
    BY <2>1 DEF CallsInv, Told
<1> QED
  BY <1>1, <1>2, <1>3, PTL DEF StreamsSpec

=============================================================================
