---------------------------- MODULE StreamProofs ----------------------------
(***************************************************************************)
(* What the proof that ProviderStreams implements PartStream rests on.     *)
(* First the parts: what one does to what the reader has open, and when a  *)
(* queue of them leads from one state to another. Then CopilotResponses,   *)
(* whose invariant says that what is queued, read in its order, leads to   *)
(* the blocks the parser holds open. CopilotChat, CodexStream and the      *)
(* theorem itself are in ConversationProofs.                               *)
(***************************************************************************)
EXTENDS ProviderStreams, SequenceTheorems, FiniteSetTheorems, WellFoundedInduction, TLAPS

-----------------------------------------------------------------------------
(* Streams of parts.                                                       *)

Types == StartTypes \cup DeltaTypes \cup EndTypes \cup
         {"stream-start", "response-metadata", "source", "error", "tool-call", "tool-result", "finish"}
Notes == {"stream-start", "response-metadata", "source", "error"}

\* What PartStream knows of a stream, and what it knows after one more part.
State(at, blocks, calls, failed) == [phase |-> at, open |-> blocks, called |-> calls, errored |-> failed]
Mark(v) == State(v.phase, v.open, DOMAIN v.calls, v.errored)
Block(p) == <<KindOf(p.type), p.id>>
Apply(s, p) ==
  State(IF p.type = "stream-start" THEN "open" ELSE IF p.type = "finish" THEN "finished" ELSE s.phase,
        IF p.type \in StartTypes THEN s.open \cup {Block(p)}
        ELSE IF p.type \in EndTypes THEN s.open \ {Block(p)} ELSE s.open,
        IF p.type = "tool-call" THEN s.called \cup {p.id} ELSE s.called,
        IF p.type = "error" THEN TRUE ELSE s.errored)

\* The part may come next.
Allowed(s, p) ==
  /\ p.type \in Types
  /\ s.phase = IF p.type = "stream-start" THEN "fresh" ELSE "open"
  /\ IF p.type \in Notes THEN p.id = None ELSE p.id \in Ids
  /\ ~s.errored =>
       /\ p.type \in StartTypes => Block(p) \notin s.open
       /\ p.type \in DeltaTypes \cup EndTypes => Block(p) \in s.open
       /\ p.type = "tool-call" => p.id \notin s.called /\ <<"tool-input", p.id>> \notin s.open
       /\ p.type = "tool-result" => p.id \in s.called
       /\ p.type = "finish" => \A b \in s.open : b[1] = "text" => Head(b[2]) # Head(p.id)

\* Parts that may follow a state, one after the other, lead to another.
Leads(s, q, t) ==
  \E S, V : /\ q \in Seq(S) /\ V[0] = s /\ V[Len(q)] = t
            /\ \A k \in 1..Len(q) : Allowed(V[k - 1], q[k]) /\ V[k] = Apply(V[k - 1], q[k])

LEMMA LeadsNowhere == \A s : Leads(s, <<>>, s)
<1> TAKE s
<1> DEFINE V == [k \in {0} |-> s]
           q == <<>>
<1>1. q \in Seq({}) /\ Len(q) = 0
  BY EmptySeq
<1>2. V[0] = s /\ V[Len(q)] = s /\ 1..Len(q) = {}
  BY <1>1
<1> HIDE DEF V, q
<1>3. Leads(s, q, s)
  BY <1>1, <1>2 DEF Leads
<1> QED
  BY <1>3 DEF q

LEMMA LeadsOn ==
  ASSUME NEW s, NEW q, NEW t, NEW r, NEW u, Leads(s, q, t), Leads(t, r, u)
  PROVE  Leads(s, q \o r, u)
<1>1. PICK S, V : /\ q \in Seq(S) /\ V[0] = s /\ V[Len(q)] = t
                  /\ \A k \in 1..Len(q) : Allowed(V[k - 1], q[k]) /\ V[k] = Apply(V[k - 1], q[k])
  BY DEF Leads
<1>2. PICK R, W : /\ r \in Seq(R) /\ W[0] = t /\ W[Len(r)] = u
                  /\ \A k \in 1..Len(r) : Allowed(W[k - 1], r[k]) /\ W[k] = Apply(W[k - 1], r[k])
  BY DEF Leads
<1> DEFINE n == Len(q)
           m == Len(r)
           X == [k \in 0..(n + m) |-> IF k <= n THEN V[k] ELSE W[k - n]]
           j == q \o r
<1>3. q \in Seq(S \cup R) /\ r \in Seq(S \cup R)
  <2>1. S \subseteq S \cup R /\ R \subseteq S \cup R
    OBVIOUS
  <2> QED
    BY <1>1, <1>2, <2>1
<1>4. /\ j \in Seq(S \cup R) /\ Len(j) = n + m /\ n \in Nat /\ m \in Nat
      /\ \A k \in 1..(n + m) : j[k] = IF k <= n THEN q[k] ELSE r[k - n]
  BY <1>3, ConcatProperties, LenProperties
<1>5. X[0] = s /\ X[n + m] = u
  <2>1. 0 \in 0..(n + m) /\ n + m \in 0..(n + m) /\ 0 <= n
    BY <1>4
  <2>2. X[0] = V[0] /\ X[n + m] = IF n + m <= n THEN V[n + m] ELSE W[(n + m) - n]
    BY <2>1
  <2>3. CASE m = 0
    <3>1. n + m = n
      BY <2>3, <1>4
    <3> QED
      BY <3>1, <2>2, <2>3, <1>1, <1>2, <1>4
  <2>4. CASE m # 0
    <3>1. ~(n + m <= n) /\ (n + m) - n = m
      BY <2>4, <1>4
    <3> QED
      BY <3>1, <2>2, <1>1, <1>2
  <2> QED
    BY <2>3, <2>4
<1>6. ASSUME NEW k \in 1..(n + m) PROVE Allowed(X[k - 1], j[k]) /\ X[k] = Apply(X[k - 1], j[k])
  <2>1. CASE k <= n
    BY <2>1, <1>1, <1>4, k \in 1..n
  <2>2. CASE k > n
    <3>1. k - n \in 1..m
      BY <2>2, <1>4
    <3>2. X[k] = W[k - n] /\ j[k] = r[k - n]
      BY <2>2, <1>4
    <3>3. X[k - 1] = W[(k - n) - 1]
      <4>1. CASE k - 1 <= n
        <5>1. k - 1 = n /\ (k - n) - 1 = 0
          BY <4>1, <2>2, <1>4
        <5>2. X[k - 1] = V[n]
          BY <5>1, <1>4
        <5> QED
          BY <5>1, <5>2, <1>1, <1>2
      <4>2. CASE k - 1 > n
        <5>1. (k - 1) - n = (k - n) - 1
          BY <1>4
        <5> QED
          BY <4>2, <5>1, <1>4
      <4> QED
        BY <4>1, <4>2, <1>4
    <3> QED
      BY <3>1, <3>2, <3>3, <1>2
  <2> QED
    BY <2>1, <2>2, <1>4
<1> HIDE DEF X, j
<1>7. X[Len(j)] = u
  BY <1>4, <1>5
<1>8. Leads(s, j, u)
  BY <1>4, <1>5, <1>6, <1>7 DEF Leads
<1> QED
  BY <1>8 DEF j

LEMMA LeadsOne == ASSUME NEW s, NEW p, Allowed(s, p) PROVE Leads(s, <<p>>, Apply(s, p))
<1> DEFINE V == [k \in {0, 1} |-> IF k = 0 THEN s ELSE Apply(s, p)]
           q == <<p>>
<1>1. q \in Seq({p}) /\ Len(q) = 1 /\ q[1] = p
  OBVIOUS
<1>2. V[0] = s /\ V[1] = Apply(s, p)
  OBVIOUS
<1> HIDE DEF V, q
<1>3. ASSUME NEW k \in 1..Len(q) PROVE Allowed(V[k - 1], q[k]) /\ V[k] = Apply(V[k - 1], q[k])
  <2>1. k = 1 /\ k - 1 = 0
    BY <1>1
  <2> QED
    BY <1>1, <1>2, <2>1
<1>4. V[Len(q)] = Apply(s, p)
  BY <1>1, <1>2
<1>5. Leads(s, q, Apply(s, p))
  BY <1>1, <1>2, <1>3, <1>4 DEF Leads
<1> QED
  BY <1>5 DEF q

LEMMA PairIs == ASSUME NEW p, NEW r PROVE <<p>> \o <<r>> = <<p, r>>
<1> DEFINE S == {p, r}
           a == <<p>>
           b == <<r>>
           c == <<p, r>>
<1>1. a \in Seq(S) /\ b \in Seq(S) /\ c \in Seq(S) /\ Len(a) = 1 /\ Len(b) = 1 /\ Len(c) = 2
  OBVIOUS
<1>2. a[1] = p /\ b[1] = r /\ c[1] = p /\ c[2] = r
  OBVIOUS
<1> HIDE DEF S, a, b, c
<1>3. /\ a \o b \in Seq(S) /\ Len(a \o b) = 2
      /\ \A i \in 1..2 : (a \o b)[i] = IF i <= 1 THEN a[i] ELSE b[i - 1]
  BY <1>1, ConcatProperties
<1>4. \A i \in 1..2 : (a \o b)[i] = c[i]
  BY <1>2, <1>3
<1>5. a \o b = c
  BY <1>1, <1>3, <1>4, SeqEqual
<1> QED
  BY <1>5 DEF a, b, c

LEMMA TripleIs == ASSUME NEW p, NEW r, NEW x PROVE <<p, r>> \o <<x>> = <<p, r, x>>
<1> DEFINE S == {p, r, x}
           a == <<p, r>>
           b == <<x>>
           c == <<p, r, x>>
<1>1. a \in Seq(S) /\ b \in Seq(S) /\ c \in Seq(S) /\ Len(a) = 2 /\ Len(b) = 1 /\ Len(c) = 3
  OBVIOUS
<1>2. a[1] = p /\ a[2] = r /\ b[1] = x /\ c[1] = p /\ c[2] = r /\ c[3] = x
  OBVIOUS
<1> HIDE DEF S, a, b, c
<1>3. /\ a \o b \in Seq(S) /\ Len(a \o b) = Len(a) + Len(b)
      /\ \A i \in 1..(Len(a) + Len(b)) : (a \o b)[i] = IF i <= Len(a) THEN a[i] ELSE b[i - Len(a)]
  BY <1>1, ConcatProperties
<1>4. \A i \in 1..3 : (a \o b)[i] = c[i]
  BY <1>1, <1>2, <1>3
<1>5. a \o b = c
  BY <1>1, <1>3, <1>4, SeqEqual
<1> QED
  BY <1>5 DEF a, b, c

LEMMA LeadsTwo ==
  ASSUME NEW s, NEW p, NEW r, Allowed(s, p), Allowed(Apply(s, p), r)
  PROVE  Leads(s, <<p, r>>, Apply(Apply(s, p), r))
<1>1. Leads(s, <<p>> \o <<r>>, Apply(Apply(s, p), r))
  BY LeadsOne, LeadsOn
<1>2. <<p>> \o <<r>> = <<p, r>>
  BY PairIs
<1> QED
  BY <1>1, <1>2

LEMMA LeadsThree ==
  ASSUME NEW s, NEW p, NEW r, NEW x, Allowed(s, p), Allowed(Apply(s, p), r), Allowed(Apply(Apply(s, p), r), x)
  PROVE  Leads(s, <<p, r, x>>, Apply(Apply(Apply(s, p), r), x))
<1>1. Leads(s, <<p, r>> \o <<x>>, Apply(Apply(Apply(s, p), r), x))
  BY LeadsOne, LeadsTwo, LeadsOn
<1>2. <<p, r>> \o <<x>> = <<p, r, x>>
  BY TripleIs
<1> QED
  BY <1>1, <1>2

LEMMA LeadsEmpty == ASSUME NEW s, NEW t, Leads(s, <<>>, t) PROVE s = t
<1>1. PICK S, V : V[0] = s /\ V[Len(<<>>)] = t
  BY DEF Leads
<1>2. Len(<<>>) = 0
  BY EmptySeq
<1> QED
  BY <1>1, <1>2

\* The first of them is read.
LEMMA LeadsLess ==
  ASSUME NEW s, NEW q, NEW t, Leads(s, q, t), q # <<>>
  PROVE  Allowed(s, Head(q)) /\ Leads(Apply(s, Head(q)), Tail(q), t)
<1>1. PICK S, V : /\ q \in Seq(S) /\ V[0] = s /\ V[Len(q)] = t
                  /\ \A k \in 1..Len(q) : Allowed(V[k - 1], q[k]) /\ V[k] = Apply(V[k - 1], q[k])
  BY DEF Leads
<1> DEFINE n == Len(q)
           r == Tail(q)
           W == [k \in 0..(n - 1) |-> V[k + 1]]
<1>2. /\ n \in Nat \ {0} /\ r \in Seq(S) /\ Len(r) = n - 1 /\ Head(q) = q[1]
      /\ \A k \in 1..(n - 1) : r[k] = q[k + 1]
  BY <1>1, HeadTailProperties, LenProperties
<1>3. Allowed(s, Head(q)) /\ V[1] = Apply(s, Head(q))
  <2>1. 1 \in 1..n /\ 1 - 1 = 0
    BY <1>2
  <2> QED
    BY <2>1, <1>1, <1>2
<1>4. W[0] = Apply(s, Head(q)) /\ W[n - 1] = t
  <2>1. 0 + 1 = 1 /\ (n - 1) + 1 = n /\ 0 \in 0..(n - 1) /\ n - 1 \in 0..(n - 1)
    BY <1>2
  <2> QED
    BY <2>1, <1>1, <1>3
<1>5. ASSUME NEW k \in 1..(n - 1) PROVE Allowed(W[k - 1], r[k]) /\ W[k] = Apply(W[k - 1], r[k])
  <2>1. /\ k + 1 \in 1..n /\ (k - 1) + 1 = k /\ (k + 1) - 1 = k
        /\ k \in 0..(n - 1) /\ k - 1 \in 0..(n - 1)
    BY <1>2
  <2>2. W[k - 1] = V[k] /\ W[k] = V[k + 1] /\ r[k] = q[k + 1]
    BY <2>1, <1>2
  <2> QED
    BY <2>1, <2>2, <1>1
<1> HIDE DEF W, r
<1>6. Leads(Apply(s, Head(q)), r, t)
  <2>1. r \in Seq(S) /\ W[0] = Apply(s, Head(q)) /\ W[Len(r)] = t
    BY <1>2, <1>4
  <2>2. \A k \in 1..Len(r) : Allowed(W[k - 1], r[k]) /\ W[k] = Apply(W[k - 1], r[k])
    BY <1>2, <1>5
  <2> HIDE DEF n
  <2> QED
    BY <2>1, <2>2 DEF Leads
<1> QED
  BY <1>3, <1>6 DEF r
-----------------------------------------------------------------------------

\* The reader's record.
Shape(at, blocks, failed, part, sizes, calls, results, reason) ==
  [phase |-> at, open |-> blocks, errored |-> failed, last |-> part, sizes |-> sizes,
   calls |-> calls, results |-> results, reason |-> reason]
Shaped(v) ==
  \E at, blocks, failed, part, sizes, calls, results, reason :
    v = Shape(at, blocks, failed, part, sizes, calls, results, reason)

LEMMA ReadIs ==
  ASSUME NEW v, Shaped(v), NEW p, p.type \in Types
  PROVE  /\ Shaped(Read(v, p)) /\ Mark(Read(v, p)) = Apply(Mark(v), p)
         /\ Read(v, p).last = [type |-> p.type, id |-> p.id]
<1> PICK at, blocks, failed, part, sizes, calls, results, reason :
         v = Shape(at, blocks, failed, part, sizes, calls, results, reason)
  BY DEF Shaped
<1> DEFINE Seen(a, o, f, z, c, r, x) == Shape(a, o, f, [type |-> p.type, id |-> p.id], z, c, r, x)
<1>0. Mark(v) = State(at, blocks, DOMAIN calls, failed)
  BY DEF Mark, Shape
<1>1. \A a, o, f, z, c, r, x :
        LET w == Seen(a, o, f, z, c, r, x)
        IN Shaped(w) /\ Mark(w) = State(a, o, DOMAIN c, f) /\ w.last = [type |-> p.type, id |-> p.id]
  <2> TAKE a, o, f, z, c, r, x
  <2>1. Shaped(Seen(a, o, f, z, c, r, x))
    BY DEF Shaped
  <2> QED
    BY <2>1 DEF Mark, Shape
<1>2. CASE p.type = "stream-start"
  <2>1. Read(v, p) = Seen("open", blocks, failed, sizes, calls, results, reason)
    BY <1>2 DEF Read, Shape, StartTypes, DeltaTypes, EndTypes, Block
  <2>2. Apply(Mark(v), p) = State("open", blocks, DOMAIN calls, failed)
    BY <1>2, <1>0 DEF Apply, State, StartTypes, EndTypes, DeltaTypes
  <2> QED
    BY <2>1, <2>2, <1>1
<1>3. CASE p.type \in StartTypes
  <2>1. Read(v, p) = Seen(at, blocks \cup {Block(p)}, failed, With(sizes, Block(p), Size(v, Block(p))), calls, results, reason)
    BY <1>3 DEF Read, Shape, StartTypes, DeltaTypes, EndTypes, Block
  <2>2. Apply(Mark(v), p) = State(at, blocks \cup {Block(p)}, DOMAIN calls, failed)
    <3>1. p.type \notin {"stream-start", "finish", "tool-call", "error"} /\ p.type \in StartTypes
          /\ p.type \in StartTypes \cup EndTypes
      BY <1>3 DEF StartTypes, EndTypes
    <3>2. Mark(v).phase = at /\ Mark(v).open = blocks /\ Mark(v).called = DOMAIN calls /\ Mark(v).errored = failed
      BY <1>0 DEF State
    <3> QED
      BY <3>1, <3>2 DEF Apply
  <2> QED
    BY <2>1, <2>2, <1>1
<1>4. CASE p.type \in DeltaTypes
  <2>1. Read(v, p) = Seen(at, blocks, failed, With(sizes, Block(p), Size(v, Block(p)) + 1), calls, results, reason)
    BY <1>4 DEF Read, Shape, StartTypes, DeltaTypes, EndTypes, Block
  <2>2. Apply(Mark(v), p) = State(at, blocks, DOMAIN calls, failed)
    BY <1>4, <1>0 DEF Apply, State, StartTypes, EndTypes, DeltaTypes
  <2> QED
    BY <2>1, <2>2, <1>1
<1>5. CASE p.type \in EndTypes
  <2>1. Read(v, p) = Seen(at, blocks \ {Block(p)}, failed, sizes, calls, results, reason)
    BY <1>5 DEF Read, Shape, StartTypes, DeltaTypes, EndTypes, Block
  <2>2. Apply(Mark(v), p) = State(at, blocks \ {Block(p)}, DOMAIN calls, failed)
    <3>1. p.type \notin {"stream-start", "finish", "tool-call", "error"} /\ p.type \notin StartTypes
          /\ p.type \in StartTypes \cup EndTypes
      BY <1>5 DEF StartTypes, EndTypes
    <3>2. Mark(v).phase = at /\ Mark(v).open = blocks /\ Mark(v).called = DOMAIN calls /\ Mark(v).errored = failed
      BY <1>0 DEF State
    <3> QED
      BY <3>1, <3>2 DEF Apply
  <2> QED
    BY <2>1, <2>2, <1>1
<1>6. CASE p.type = "tool-call"
  <2>1. Read(v, p) = Seen(at, blocks, failed, sizes, With(calls, p.id, p.data), results, reason)
    BY <1>6 DEF Read, Shape, StartTypes, DeltaTypes, EndTypes, Block
  <2>2. Apply(Mark(v), p) = State(at, blocks, DOMAIN calls \cup {p.id}, failed)
    BY <1>6, <1>0 DEF Apply, State, StartTypes, EndTypes, DeltaTypes
  <2>3. DOMAIN With(calls, p.id, p.data) = DOMAIN calls \cup {p.id}
    BY DEF With
  <2> QED
    BY <2>1, <2>2, <2>3, <1>1
<1>7. CASE p.type = "tool-result"
  <2>1. Read(v, p) = Seen(at, blocks, failed, sizes, calls, With(results, p.id, p.data), reason)
    BY <1>7 DEF Read, Shape, StartTypes, DeltaTypes, EndTypes, Block
  <2>2. Apply(Mark(v), p) = State(at, blocks, DOMAIN calls, failed)
    BY <1>7, <1>0 DEF Apply, State, StartTypes, EndTypes, DeltaTypes
  <2> QED
    BY <2>1, <2>2, <1>1
<1>8. CASE p.type = "error"
  <2>1. Read(v, p) = Seen(at, blocks, TRUE, sizes, calls, results, reason)
    BY <1>8 DEF Read, Shape, StartTypes, DeltaTypes, EndTypes, Block
  <2>2. Apply(Mark(v), p) = State(at, blocks, DOMAIN calls, TRUE)
    BY <1>8, <1>0 DEF Apply, State, StartTypes, EndTypes, DeltaTypes
  <2> QED
    BY <2>1, <2>2, <1>1
<1>9. CASE p.type = "finish"
  <2>1. Read(v, p) = Seen("finished", blocks, failed, sizes, calls, results, p.data)
    BY <1>9 DEF Read, Shape, StartTypes, DeltaTypes, EndTypes, Block
  <2>2. Apply(Mark(v), p) = State("finished", blocks, DOMAIN calls, failed)
    BY <1>9, <1>0 DEF Apply, State, StartTypes, EndTypes, DeltaTypes
  <2> QED
    BY <2>1, <2>2, <1>1
<1>10. CASE p.type \in {"response-metadata", "source"}
  <2>1. Read(v, p) = Seen(at, blocks, failed, sizes, calls, results, reason)
    BY <1>10 DEF Read, Shape, StartTypes, DeltaTypes, EndTypes, Block
  <2>2. Apply(Mark(v), p) = State(at, blocks, DOMAIN calls, failed)
    BY <1>10, <1>0 DEF Apply, State, StartTypes, EndTypes, DeltaTypes
  <2> QED
    BY <2>1, <2>2, <1>1
<1> QED
  BY <1>2, <1>3, <1>4, <1>5, <1>6, <1>7, <1>8, <1>9, <1>10 DEF Types

\* A part that may come next is read by a step of PartStream.
LEMMA ReadsPart ==
  ASSUME Shaped(view), NEW p, Allowed(Mark(view), p), view' = Read(view, p), view.errored \in BOOLEAN
  PROVE  Parts!Next
<1> DEFINE b == Block(p)
<1>1. /\ Mark(view') = Apply(Mark(view), p) /\ view'.last = [type |-> p.type, id |-> p.id]
      /\ p.type \in Types
  BY ReadIs DEF Allowed
<1>2. /\ view'.phase = Apply(Mark(view), p).phase /\ view'.open = Apply(Mark(view), p).open
      /\ DOMAIN view'.calls = Apply(Mark(view), p).called /\ view'.errored = Apply(Mark(view), p).errored
  BY <1>1 DEF Mark, State
<1>3. /\ view'.phase = (IF p.type = "stream-start" THEN "open" ELSE IF p.type = "finish" THEN "finished" ELSE view.phase)
      /\ view'.open = (IF p.type \in StartTypes THEN view.open \cup {b}
                       ELSE IF p.type \in EndTypes THEN view.open \ {b} ELSE view.open)
      /\ DOMAIN view'.calls = (IF p.type = "tool-call" THEN DOMAIN view.calls \cup {p.id} ELSE DOMAIN view.calls)
      /\ view'.errored = (IF p.type = "error" THEN TRUE ELSE view.errored)
  BY <1>2 DEF Apply, Mark, State
<1>4. /\ view.phase = IF p.type = "stream-start" THEN "fresh" ELSE "open"
      /\ IF p.type \in Notes THEN p.id = <<>> ELSE p.id \in Ids
      /\ ~view.errored =>
           /\ p.type \in StartTypes => b \notin view.open
           /\ p.type \in DeltaTypes \cup EndTypes => b \in view.open
           /\ p.type = "tool-call" => p.id \notin DOMAIN view.calls /\ <<"tool-input", p.id>> \notin view.open
           /\ p.type = "tool-result" => p.id \in DOMAIN view.calls
           /\ p.type = "finish" => \A c \in view.open : c[1] = "text" => Head(c[2]) # Head(p.id)
  BY DEF Allowed, Mark, State, None
<1>5. view'.last.id = p.id
  BY <1>1
<1>6. p.type \notin Notes => p.id \in {view'.last.id} \cap Ids
  BY <1>4, <1>5
<1> HIDE DEF b
<1>7. CASE p.type = "stream-start"
  BY <1>7, <1>1, <1>3, <1>4 DEF Parts!Next, Parts!Begin, Notes, StartTypes, EndTypes
<1>8. CASE p.type \in {"response-metadata", "source"}
  <2>1. Parts!Note(p.type)
    BY <1>8, <1>1, <1>3, <1>4 DEF Parts!Note, Notes, StartTypes, EndTypes
  <2> QED
    BY <2>1, <1>8 DEF Parts!Next
<1>9. CASE p.type = "error"
  BY <1>9, <1>1, <1>3, <1>4 DEF Parts!Next, Parts!Fail, Notes, StartTypes, EndTypes
<1>10. CASE p.type = "tool-call"
  <2>1. Parts!Call(p.id)
    BY <1>10, <1>1, <1>3, <1>4 DEF Parts!Call, Notes, StartTypes, EndTypes
  <2> QED
    BY <2>1, <1>10, <1>6 DEF Parts!Next, Notes
<1>11. CASE p.type = "tool-result"
  <2>1. Parts!Result(p.id)
    BY <1>11, <1>1, <1>3, <1>4 DEF Parts!Result, Notes, StartTypes, EndTypes
  <2> QED
    BY <2>1, <1>11, <1>6 DEF Parts!Next, Notes
<1>12. CASE p.type = "finish"
  <2>1. Parts!Finish(p.id)
    BY <1>12, <1>1, <1>3, <1>4 DEF Parts!Finish, Parts!SameAttempt, Notes, StartTypes, EndTypes
  <2> QED
    BY <2>1, <1>12, <1>6 DEF Parts!Next, Notes
<1>13. CASE p.type \in StartTypes
  <2>1. /\ b = <<KindOf(p.type), p.id>> /\ KindOf(p.type) \in Parts!Blocks
        /\ p.type = Parts!Start(KindOf(p.type)) /\ p.type \notin Notes \cup EndTypes \cup {"tool-call", "finish"}
    BY <1>13 DEF b, Block, KindOf, StartTypes, EndTypes, Parts!Blocks, Parts!Start, Notes
  <2>2. Parts!OpenBlock(KindOf(p.type), p.id)
    BY <1>13, <2>1, <1>1, <1>3, <1>4 DEF Parts!OpenBlock, Notes
  <2> QED
    BY <2>1, <2>2, <1>6 DEF Parts!Next
<1>14. CASE p.type \in DeltaTypes
  <2>1. /\ b = <<KindOf(p.type), p.id>> /\ KindOf(p.type) \in Parts!Blocks
        /\ p.type = Parts!Delta(KindOf(p.type)) /\ p.type \notin Notes \cup StartTypes \cup EndTypes \cup {"tool-call", "finish"}
    BY <1>14 DEF b, Block, KindOf, StartTypes, DeltaTypes, EndTypes, Parts!Blocks, Parts!Delta, Notes
  <2>2. Parts!GrowBlock(KindOf(p.type), p.id)
    BY <1>14, <2>1, <1>1, <1>3, <1>4 DEF Parts!GrowBlock, Notes
  <2> QED
    BY <2>1, <2>2, <1>6 DEF Parts!Next
<1>15. CASE p.type \in EndTypes
  <2>1. /\ b = <<KindOf(p.type), p.id>> /\ KindOf(p.type) \in Parts!Blocks
        /\ p.type = Parts!End(KindOf(p.type)) /\ p.type \notin Notes \cup StartTypes \cup {"tool-call", "finish"}
    BY <1>15 DEF b, Block, KindOf, StartTypes, EndTypes, Parts!Blocks, Parts!End, Notes
  <2>2. Parts!CloseBlock(KindOf(p.type), p.id)
    BY <1>15, <2>1, <1>1, <1>3, <1>4 DEF Parts!CloseBlock, Notes
  <2> QED
    BY <2>1, <2>2, <1>6 DEF Parts!Next
<1> QED
  BY <1>1, <1>7, <1>8, <1>9, <1>10, <1>11, <1>12, <1>13, <1>14, <1>15 DEF Types

-----------------------------------------------------------------------------
(* CopilotResponses: what the events of an item do.                        *)

InputTypes == {"function_call", "web_search_call", "computer_call", "code_interpreter_call"}
TextTypes == {"message", "bare_message"}
ItemTypes == InputTypes \cup TextTypes \cup
             {"file_search_call", "image_generation_call", "local_shell_call", "reasoning"}

\* How many events an item has.
Length(type) ==
  CASE type \in {"web_search_call", "computer_call", "file_search_call", "local_shell_call"} -> 2
    [] type \in {"function_call", "image_generation_call", "bare_message"} -> 3
    [] type = "code_interpreter_call" -> 4
    [] type = "message" -> 5
    [] type = "reasoning" -> 6

\* The place of an event among those of its item.
Placed(type, n, e) ==
  /\ e.type = "added" => n = 0 /\ type # "bare_message"
  /\ e.type = "done" => n = Length(type) - 1
  /\ e.type = "arguments_delta" => n = 1 /\ type = "function_call"
  /\ e.type = "code_delta" => n = 1 /\ type = "code_interpreter_call"
  /\ e.type = "code_done" => n = 2 /\ type = "code_interpreter_call"
  /\ e.type = "partial_image" => n = 1 /\ type = "image_generation_call"
  /\ e.type = "text_delta" => \/ type = "message" /\ n \in {1, 2}
                              \/ type = "bare_message" /\ n \in {0, 1}
  /\ e.type = "annotation" => type = "message" /\ n = 3
  /\ e.type = "summary_part" => type = "reasoning" /\ <<n, e.part>> \in {<<1, 0>>, <<3, 1>>}
  /\ e.type = "summary_delta" => type = "reasoning" /\ <<n, e.part>> \in {<<2, 0>>, <<4, 1>>}

LEMMA EventsAre ==
  /\ DOMAIN EventsOf = ItemTypes
  /\ \A type \in ItemTypes :
       /\ Len(EventsOf[type]) = Length(type)
       /\ \A n \in 0..(Length(type) - 1) : Placed(type, n, EventsOf[type][n + 1])
<1>1. DOMAIN EventsOf = ItemTypes
  BY DEF EventsOf, ItemTypes, InputTypes, TextTypes
<1>2. /\ EventsOf["function_call"] = <<E("added"), E("arguments_delta"), E("done")>>
      /\ EventsOf["web_search_call"] = <<E("added"), E("done")>>
      /\ EventsOf["computer_call"] = <<E("added"), E("done")>>
      /\ EventsOf["file_search_call"] = <<E("added"), E("done")>>
      /\ EventsOf["code_interpreter_call"] = <<E("added"), E("code_delta"), E("code_done"), E("done")>>
      /\ EventsOf["image_generation_call"] = <<E("added"), E("partial_image"), E("done")>>
      /\ EventsOf["local_shell_call"] = <<E("added"), E("done")>>
      /\ EventsOf["message"] = <<E("added"), E("text_delta"), E("text_delta"), E("annotation"), E("done")>>
      /\ EventsOf["bare_message"] = <<E("text_delta"), E("text_delta"), E("done")>>
      /\ EventsOf["reasoning"] = <<E("added"), E("summary_part"), E("summary_delta"),
                                   [type |-> "summary_part", part |-> 1],
                                   [type |-> "summary_delta", part |-> 1], E("done")>>
  BY DEF EventsOf
<1>3. \A x : E(x).type = x /\ E(x).part = 0
  BY DEF E
<1> QED
  <2> SUFFICES ASSUME NEW type \in ItemTypes
               PROVE  /\ Len(EventsOf[type]) = Length(type)
                      /\ \A n \in 0..(Length(type) - 1) : Placed(type, n, EventsOf[type][n + 1])
    BY <1>1
  <2>1. CASE type \in {"web_search_call", "computer_call", "file_search_call", "local_shell_call"}
    <3>1. EventsOf[type] = <<E("added"), E("done")>> /\ Length(type) = 2
      BY <2>1, <1>2 DEF Length
    <3> QED
      BY <2>1, <3>1, <1>3 DEF Length, Placed
  <2>2. CASE type = "function_call"
    BY <2>2, <1>2, <1>3 DEF Length, Placed
  <2>3. CASE type = "image_generation_call"
    BY <2>3, <1>2, <1>3 DEF Length, Placed
  <2>4. CASE type = "bare_message"
    BY <2>4, <1>2, <1>3 DEF Length, Placed
  <2>5. CASE type = "code_interpreter_call"
    BY <2>5, <1>2, <1>3 DEF Length, Placed
  <2>6. CASE type = "message"
    BY <2>6, <1>2, <1>3 DEF Length, Placed
  <2>7. CASE type = "reasoning"
    BY <2>7, <1>2, <1>3 DEF Length, Placed
  <2> QED
    BY <2>1, <2>2, <2>3, <2>4, <2>5, <2>6, <2>7 DEF ItemTypes, InputTypes, TextTypes

-----------------------------------------------------------------------------

\* A part that may always come once a stream has failed.
Fits(p) ==
  /\ p.type \in Types \ {"stream-start", "finish"}
  /\ IF p.type \in Notes THEN p.id = None ELSE p.id \in Ids
FitsAll(q) == \A k \in 1..Len(q) : Fits(q[k])

Failing(s) == s.phase = "open" /\ s.errored = TRUE

LEMMA FailedOne ==
  ASSUME NEW s, Failing(s), NEW p, Fits(p)
  PROVE  Allowed(s, p) /\ Failing(Apply(s, p))
  BY DEF Failing, Fits, Allowed, Apply, State, Types, StartTypes, EndTypes, DeltaTypes

LEMMA Least == ASSUME NEW S \in SUBSET Nat, S # {} PROVE \E x \in S : \A y \in S : x <= y
<1>1. PICK x \in S : \A y \in S : ~(<<y, x>> \in OpToRel(<, Nat))
  BY NatLessThanWellFounded, WFMin
<1>2. \A y \in S : ~(y < x)
  BY <1>1 DEF OpToRel
<1> QED
  BY <1>2

LEMMA LeadsFailed ==
  ASSUME NEW s, Failing(s), NEW S, NEW q \in Seq(S), FitsAll(q)
  PROVE  \E t : Leads(s, q, t) /\ Failing(t)
<1> DEFINE Ok(n) == \E t : Leads(s, SubSeq(q, 1, n), t) /\ Failing(t)
           Bad == {n \in 0..Len(q) : ~Ok(n)}
<1>1. Len(q) \in Nat /\ SubSeq(q, 1, Len(q)) = q
  BY LenProperties, SubSeqFull
<1>2. Ok(0)
  <2>1. SubSeq(q, 1, 0) = <<>>
    BY SubSeqEmpty
  <2> QED
    BY <2>1, LeadsNowhere
<1>3. ASSUME NEW n \in 1..Len(q), Ok(n - 1) PROVE Ok(n)
  <2>1. PICK t : Leads(s, SubSeq(q, 1, n - 1), t) /\ Failing(t)
    BY <1>3
  <2>2. Fits(q[n])
    BY DEF FitsAll
  <2>3. Leads(t, <<q[n]>>, Apply(t, q[n])) /\ Failing(Apply(t, q[n]))
    BY <2>1, <2>2, FailedOne, LeadsOne
  <2>4. SubSeq(q, 1, n) = SubSeq(q, 1, n - 1) \o <<q[n]>>
    <3>1. 1 \in 1..Len(q) /\ n \in 1..Len(q)
      BY <1>1
    <3> QED
      BY <3>1, SubSeqRecursiveSecond
  <2> QED
    BY <2>1, <2>3, <2>4, LeadsOn
<1> HIDE DEF Ok
<1>4. Bad = {}
  <2> SUFFICES ASSUME Bad # {} PROVE FALSE
    OBVIOUS
  <2>1. PICK n \in Bad : \A m \in Bad : n <= m
    <3>1. Bad \in SUBSET Nat
      BY <1>1
    <3> QED
      BY <3>1, Least
  <2>2. n # 0
    BY <2>1, <1>2
  <2>3. n \in 1..Len(q) /\ n - 1 \in 0..Len(q) /\ ~(n <= n - 1)
    BY <2>1, <2>2, <1>1
  <2>4. Ok(n - 1)
    BY <2>1, <2>3
  <2> QED
    BY <2>1, <2>3, <2>4, <1>3
<1>5. Ok(Len(q))
  BY <1>1, <1>4
<1> QED
  BY <1>1, <1>5 DEF Ok

-----------------------------------------------------------------------------

\* Parts are enqueued: the stream has failed, or they lead where they should.
LEMMA Emits ==
  ASSUME NEW t, Leads(Mark(view), queue, t), t.phase = "open", t.errored \in BOOLEAN,
         NEW S, NEW out \in Seq(S), FitsAll(out), Emit(out), UNCHANGED view,
         NEW u, ~t.errored => Leads(t, out, u) /\ u.phase = "open" /\ u.errored \in BOOLEAN
  PROVE  \E w : /\ Leads(Mark(view'), queue', w) /\ w.phase = "open" /\ w.errored \in BOOLEAN
                /\ ~w.errored => ~t.errored /\ w = u
<1>1. CASE t.errored
  <2>1. Failing(t)
    BY <1>1 DEF Failing
  <2>2. PICK w : Leads(t, out, w) /\ Failing(w)
    BY <2>1, LeadsFailed
  <2> QED
    BY <2>2, LeadsOn DEF Emit, Failing
<1>2. CASE ~t.errored
  BY <1>2, LeadsOn DEF Emit
<1> QED
  BY <1>1, <1>2

-----------------------------------------------------------------------------
(* What each part does to a stream that is open.                           *)

LEMMA PartsFit ==
  ASSUME NEW id \in Ids
  PROVE  /\ \A type \in StartTypes \cup DeltaTypes \cup EndTypes : Fits(Part(type, id))
         /\ \A data : Fits(PartOf("tool-call", id, data)) /\ Fits(PartOf("tool-result", id, data))
         /\ \A type \in {"response-metadata", "source", "error"} : Fits(Part(type, None))
  BY DEF Fits, Part, PartOf, Types, Notes, StartTypes, DeltaTypes, EndTypes

LEMMA NotesFit == \A type \in {"response-metadata", "source", "error"} : Fits(Part(type, None))
  BY DEF Fits, Part, PartOf, Types, Notes, StartTypes, DeltaTypes, EndTypes

LEMMA StartDoes ==
  ASSUME NEW t, t.phase = "open", NEW id \in Ids, NEW type \in StartTypes, <<KindOf(type), id>> \notin t.open
  PROVE  /\ Allowed(t, Part(type, id))
         /\ Apply(t, Part(type, id)) = State("open", t.open \cup {<<KindOf(type), id>>}, t.called, t.errored)
<1>1. Part(type, id).type = type /\ Part(type, id).id = id /\ Block(Part(type, id)) = <<KindOf(type), id>>
  BY DEF Part, Block
<1>2. type \in Types /\ type \notin Notes \cup DeltaTypes \cup EndTypes \cup {"tool-call", "tool-result", "finish"}
  BY DEF Types, Notes, StartTypes, DeltaTypes, EndTypes
<1>3. type # "stream-start" /\ type # "error"
  BY <1>2 DEF Notes
<1> QED
  BY <1>1, <1>2, <1>3 DEF Allowed, Apply

LEMMA DeltaDoes ==
  ASSUME NEW t, t.phase = "open", NEW id \in Ids, NEW type \in DeltaTypes, <<KindOf(type), id>> \in t.open
  PROVE  /\ Allowed(t, Part(type, id))
         /\ Apply(t, Part(type, id)) = State("open", t.open, t.called, t.errored)
<1>1. Part(type, id).type = type /\ Part(type, id).id = id /\ Block(Part(type, id)) = <<KindOf(type), id>>
  BY DEF Part, Block
<1>2. type \in Types /\ type \notin Notes \cup StartTypes \cup EndTypes \cup {"tool-call", "tool-result", "finish"}
  BY DEF Types, Notes, StartTypes, DeltaTypes, EndTypes
<1>3. type # "stream-start" /\ type # "error"
  BY <1>2 DEF Notes
<1> QED
  BY <1>1, <1>2, <1>3 DEF Allowed, Apply

LEMMA EndDoes ==
  ASSUME NEW t, t.phase = "open", NEW id \in Ids, NEW type \in EndTypes, <<KindOf(type), id>> \in t.open
  PROVE  /\ Allowed(t, Part(type, id))
         /\ Apply(t, Part(type, id)) = State("open", t.open \ {<<KindOf(type), id>>}, t.called, t.errored)
<1>1. Part(type, id).type = type /\ Part(type, id).id = id /\ Block(Part(type, id)) = <<KindOf(type), id>>
  BY DEF Part, Block
<1>2. type \in Types /\ type \notin Notes \cup DeltaTypes \cup StartTypes \cup {"tool-call", "tool-result", "finish"}
  BY DEF Types, Notes, StartTypes, DeltaTypes, EndTypes
<1>3. type # "stream-start" /\ type # "error"
  BY <1>2 DEF Notes
<1> QED
  BY <1>1, <1>2, <1>3 DEF Allowed, Apply

LEMMA CallDoes ==
  ASSUME NEW t, t.phase = "open", NEW id \in Ids, NEW data,
         id \notin t.called, <<"tool-input", id>> \notin t.open
  PROVE  /\ Allowed(t, PartOf("tool-call", id, data))
         /\ Apply(t, PartOf("tool-call", id, data)) = State("open", t.open, t.called \cup {id}, t.errored)
  BY DEF PartOf, Allowed, Apply, Types, Notes, StartTypes, DeltaTypes, EndTypes

LEMMA ResultDoes ==
  ASSUME NEW t, t.phase = "open", NEW id \in Ids, NEW data, id \in t.called
  PROVE  /\ Allowed(t, PartOf("tool-result", id, data))
         /\ Apply(t, PartOf("tool-result", id, data)) = State("open", t.open, t.called, t.errored)
  BY DEF PartOf, Allowed, Apply, Types, Notes, StartTypes, DeltaTypes, EndTypes

LEMMA NoteDoes ==
  ASSUME NEW t, t.phase = "open", NEW type \in {"response-metadata", "source"}
  PROVE  /\ Allowed(t, Part(type, None))
         /\ Apply(t, Part(type, None)) = State("open", t.open, t.called, t.errored)
  BY DEF Part, Allowed, Apply, Types, Notes, StartTypes, DeltaTypes, EndTypes

LEMMA ErrorDoes ==
  ASSUME NEW t, t.phase = "open"
  PROVE  Allowed(t, Part("error", None)) /\ Failing(Apply(t, Part("error", None)))
  BY DEF Part, Allowed, Apply, Failing, State, Types, Notes, StartTypes, DeltaTypes, EndTypes

LEMMA KindsAre ==
  /\ KindOf("text-start") = "text" /\ KindOf("text-delta") = "text" /\ KindOf("text-end") = "text"
  /\ KindOf("reasoning-start") = "reasoning" /\ KindOf("reasoning-delta") = "reasoning"
  /\ KindOf("reasoning-end") = "reasoning" /\ KindOf("tool-input-start") = "tool-input"
  /\ KindOf("tool-input-delta") = "tool-input" /\ KindOf("tool-input-end") = "tool-input"
  /\ "text-start" \in StartTypes /\ "reasoning-start" \in StartTypes /\ "tool-input-start" \in StartTypes
  /\ "text-delta" \in DeltaTypes /\ "reasoning-delta" \in DeltaTypes /\ "tool-input-delta" \in DeltaTypes
  /\ "text-end" \in EndTypes /\ "reasoning-end" \in EndTypes /\ "tool-input-end" \in EndTypes
  BY DEF KindOf, StartTypes, DeltaTypes, EndTypes

LEMMA FinishDoes ==
  ASSUME NEW t, t.phase = "open", NEW id \in Ids, NEW data,
         ~t.errored => \A b \in t.open : b[1] = "text" => Head(b[2]) # Head(id)
  PROVE  /\ Allowed(t, PartOf("finish", id, data))
         /\ Apply(t, PartOf("finish", id, data)) = State("finished", t.open, t.called, t.errored)
  BY DEF PartOf, Allowed, Apply, Types, Notes, StartTypes, DeltaTypes, EndTypes

LEMMA StateIs ==
  ASSUME NEW at, NEW blocks, NEW calls, NEW failed
  PROVE  LET s == State(at, blocks, calls, failed)
         IN  s.phase = at /\ s.open = blocks /\ s.called = calls /\ s.errored = failed
  BY DEF State

LEMMA FitsStays ==
  ASSUME NEW t, t.phase = "open", t.errored \in BOOLEAN, NEW p, Fits(p)
  PROVE  Apply(t, p).phase = "open" /\ Apply(t, p).errored \in BOOLEAN
  BY DEF Fits, Apply, State

LEMMA EmitsOne ==
  ASSUME NEW t, Leads(Mark(view), queue, t), t.phase = "open", t.errored \in BOOLEAN,
         NEW p, Fits(p), Emit(<<p>>), UNCHANGED view, ~t.errored => Allowed(t, p)
  PROVE  \E w : /\ Leads(Mark(view'), queue', w) /\ w.phase = "open" /\ w.errored \in BOOLEAN
                /\ ~w.errored => ~t.errored /\ w = Apply(t, p)
<1> DEFINE out == <<p>>
           u == Apply(t, p)
<1>1. out \in Seq({p}) /\ FitsAll(out)
  BY DEF FitsAll
<1>2. ~t.errored => Leads(t, out, u) /\ u.phase = "open" /\ u.errored \in BOOLEAN
  BY LeadsOne, FitsStays
<1>3. Emit(out)
  OBVIOUS
<1> HIDE DEF out, u
<1>4. \E w : /\ Leads(Mark(view'), queue', w) /\ w.phase = "open" /\ w.errored \in BOOLEAN
             /\ ~w.errored => ~t.errored /\ w = u
  BY <1>1, <1>2, <1>3, Emits
<1> QED
  BY <1>4 DEF u

LEMMA EmitsTwo ==
  ASSUME NEW t, Leads(Mark(view), queue, t), t.phase = "open", t.errored \in BOOLEAN,
         NEW p, Fits(p), NEW r, Fits(r), Emit(<<p, r>>), UNCHANGED view,
         ~t.errored => Allowed(t, p) /\ Allowed(Apply(t, p), r)
  PROVE  \E w : /\ Leads(Mark(view'), queue', w) /\ w.phase = "open" /\ w.errored \in BOOLEAN
                /\ ~w.errored => ~t.errored /\ w = Apply(Apply(t, p), r)
<1> DEFINE out == <<p, r>>
           u == Apply(Apply(t, p), r)
<1>1. out \in Seq({p, r}) /\ FitsAll(out)
  BY DEF FitsAll
<1>2. ~t.errored => Leads(t, out, u) /\ u.phase = "open" /\ u.errored \in BOOLEAN
  BY LeadsTwo, FitsStays
<1>3. Emit(out)
  OBVIOUS
<1> HIDE DEF out, u
<1>4. \E w : /\ Leads(Mark(view'), queue', w) /\ w.phase = "open" /\ w.errored \in BOOLEAN
             /\ ~w.errored => ~t.errored /\ w = u
  BY <1>1, <1>2, <1>3, Emits
<1> QED
  BY <1>4 DEF u

LEMMA EmitsThree ==
  ASSUME NEW t, Leads(Mark(view), queue, t), t.phase = "open", t.errored \in BOOLEAN,
         NEW p, Fits(p), NEW r, Fits(r), NEW x, Fits(x), Emit(<<p, r, x>>), UNCHANGED view,
         ~t.errored => Allowed(t, p) /\ Allowed(Apply(t, p), r) /\ Allowed(Apply(Apply(t, p), r), x)
  PROVE  \E w : /\ Leads(Mark(view'), queue', w) /\ w.phase = "open" /\ w.errored \in BOOLEAN
                /\ ~w.errored => ~t.errored /\ w = Apply(Apply(Apply(t, p), r), x)
<1> DEFINE out == <<p, r, x>>
           u == Apply(Apply(Apply(t, p), r), x)
<1>1. out \in Seq({p, r, x}) /\ FitsAll(out)
  BY DEF FitsAll
<1>2. ~t.errored => Leads(t, out, u) /\ u.phase = "open" /\ u.errored \in BOOLEAN
  BY LeadsThree, FitsStays
<1>3. Emit(out)
  OBVIOUS
<1> HIDE DEF out, u
<1>4. \E w : /\ Leads(Mark(view'), queue', w) /\ w.phase = "open" /\ w.errored \in BOOLEAN
             /\ ~w.errored => ~t.errored /\ w = u
  BY <1>1, <1>2, <1>3, Emits
<1> QED
  BY <1>4 DEF u

-----------------------------------------------------------------------------
(* CopilotResponses: how far an item has come, and what is open then.      *)

Midway(type, n) == 0 < n /\ n < Length(type)
InputsEnd(type) == IF type \in {"web_search_call", "computer_call"} THEN 2 ELSE 3
BlocksOf(type, i, n) ==
  IF type \in InputTypes
  THEN IF 0 < n /\ n < InputsEnd(type) THEN {<<"tool-input", <<1, i>>>>} ELSE {}
  ELSE IF type \in TextTypes /\ Midway(type, n) THEN {<<"text", <<1, i, 0>>>>}
  ELSE IF type = "reasoning" /\ Midway(type, n)
  THEN IF n > 3 THEN {<<"reasoning", <<1, i, 0, 0>>>>, <<"reasoning", <<1, i, 0, 1>>>>}
       ELSE {<<"reasoning", <<1, i, 0, 0>>>>}
  ELSE {}
Made(type, n) ==
  CASE type \in {"function_call", "code_interpreter_call"} -> n >= 3
    [] type \in {"web_search_call", "computer_call", "local_shell_call"} -> n >= 2
    [] type \in {"file_search_call", "image_generation_call"} -> n >= 1
    [] OTHER -> FALSE

\* What the parser keeps of it.
OngoingOf(type, i, n) == IF type \in InputTypes /\ Midway(type, n) THEN <<1, i>> ELSE None
TextOf(type, i, n) == IF type \in TextTypes /\ Midway(type, n) THEN <<1, i, 0>> ELSE None
ActiveOf(type, i, n) ==
  IF type = "reasoning" /\ Midway(type, n)
  THEN [id |-> <<1, i, 0>>, parts |-> IF n > 3 THEN <<0, 1>> ELSE <<0>>] ELSE None
CurrentOf(type, i, n) == IF type = "reasoning" /\ Midway(type, n) THEN i ELSE 0

InText(i) == Type(i) \in TextTypes /\ Midway(Type(i), answer.sent[i])
InReasoning(i) == Type(i) = "reasoning" /\ Midway(Type(i), answer.sent[i])

ResponsesMatch(t) ==
  /\ t.open = UNION {BlocksOf(Type(i), i, answer.sent[i]) : i \in Items}
  /\ t.called = {<<1, i>> : i \in {j \in Items : Made(Type(j), answer.sent[j])}}
  /\ \A i \in Items : /\ parser.ongoing[i] = OngoingOf(Type(i), i, answer.sent[i])
                      /\ parser.active[i] = ActiveOf(Type(i), i, answer.sent[i])
                      /\ InReasoning(i) => parser.current = i
                      /\ InText(i) => parser.text = <<1, i, 0>>
  /\ (\A i \in Items : ~InReasoning(i)) => parser.current = 0
  /\ (\A i \in Items : ~InText(i)) => parser.text = None

WellAnswered(types) ==
  \E items \in Seq(types) : \E sent \in [DOMAIN items -> Nat] : \E ends :
    answer = [items |-> items, sent |-> sent, ends |-> ends]
\* Items are streamed one after the other, except function calls.
Orderly ==
  /\ WellAnswered(ItemTypes)
  /\ \A i \in Items : answer.sent[i] <= Length(Type(i))
  /\ \A i, j \in Items :
       i < j /\ answer.sent[j] > 0 =>
         answer.sent[i] = Length(Type(i)) \/ (Type(i) = "function_call" /\ Type(j) = "function_call")

LEMMA AnswerIs ==
  ASSUME NEW types, WellAnswered(types)
  PROVE  /\ answer.items \in Seq(types) /\ Items = 1..Len(answer.items) /\ Len(answer.items) \in Nat
         /\ answer.sent \in [Items -> Nat] /\ \A i \in Items : answer.items[i] \in types
<1>1. PICK items \in Seq(types) : \E sent \in [DOMAIN items -> Nat] : \E ends :
         answer = [items |-> items, sent |-> sent, ends |-> ends]
  BY DEF WellAnswered
<1>2. PICK sent \in [DOMAIN items -> Nat] : \E ends : answer = [items |-> items, sent |-> sent, ends |-> ends]
  BY <1>1
<1>3. answer.items = items /\ answer.sent = sent
  BY <1>2
<1>4. DOMAIN items = 1..Len(items) /\ Len(items) \in Nat /\ \A i \in 1..Len(items) : items[i] \in types
  BY LenProperties, ElementOfSeq
<1> QED
  BY <1>3, <1>4 DEF Items

LEMMA AnswerNext ==
  ASSUME NEW types, WellAnswered(types), NEW i \in Items, answer' = [answer EXCEPT !.sent[i] = @ + 1]
  PROVE  /\ WellAnswered(types)' /\ answer'.items = answer.items /\ Items' = Items
         /\ answer'.sent = [answer.sent EXCEPT ![i] = @ + 1] /\ \A j \in Items : Type(j)' = Type(j)
<1>1. PICK items \in Seq(types) : \E sent \in [DOMAIN items -> Nat] : \E ends :
         answer = [items |-> items, sent |-> sent, ends |-> ends]
  BY DEF WellAnswered
<1>2. PICK sent \in [DOMAIN items -> Nat] : \E ends : answer = [items |-> items, sent |-> sent, ends |-> ends]
  BY <1>1
<1>3. PICK ends : answer = [items |-> items, sent |-> sent, ends |-> ends]
  BY <1>2
<1> DEFINE more == [sent EXCEPT ![i] = @ + 1]
<1>4. answer' = [items |-> items, sent |-> more, ends |-> ends]
  BY <1>3
<1>5. more \in [DOMAIN items -> Nat]
  <2>1. i \in DOMAIN items
    BY <1>3 DEF Items
  <2> QED
    BY <2>1
<1> HIDE DEF more
<1>6. WellAnswered(types)'
  BY <1>4, <1>5 DEF WellAnswered
<1>7. answer.items = items /\ answer.sent = sent /\ answer'.items = items /\ answer'.sent = more
  BY <1>3, <1>4
<1> QED
  BY <1>6, <1>7 DEF Items, Type, more

\* An item of which some events are sent and some not, when another may send.
LEMMA Alone ==
  ASSUME Orderly, NEW i \in Items, MaySend(i), NEW j \in Items, j # i, Midway(Type(j), answer.sent[j])
  PROVE  Type(i) = "function_call" /\ Type(j) = "function_call"
<1>1. /\ Items = 1..Len(answer.items) /\ Len(answer.items) \in Nat /\ answer.sent \in [Items -> Nat]
      /\ \A k \in Items : Type(k) \in ItemTypes
  BY AnswerIs DEF Orderly, Type
<1>2. \A k \in Items : Complete(k) <=> answer.sent[k] = Length(Type(k))
  BY <1>1, EventsAre DEF Complete
<1>3. CASE j < i
  <2>1. j \in 1..(i - 1)
    BY <1>1, <1>3
  <2>2. Complete(j) \/ (Type(j) = "function_call" /\ Type(i) = "function_call")
    BY <2>1 DEF MaySend
  <2> QED
    BY <2>2, <1>1, <1>2 DEF Midway
<1>4. CASE i < j
  <2>1. answer.sent[j] > 0
    BY <1>1 DEF Midway
  <2>2. ~Complete(i)
    BY DEF MaySend
  <2> QED
    BY <2>1, <2>2, <1>2, <1>4 DEF Orderly
<1> QED
  BY <1>1, <1>3, <1>4

LEMMA BlocksOwn ==
  ASSUME NEW type, NEW i, NEW n, NEW b \in BlocksOf(type, i, n)
  PROVE  b[2][2] = i /\ b[2][1] = 1 /\ (b[1] = "text" => type \in TextTypes)
  BY DEF BlocksOf

LEMMA OpenIs ==
  ASSUME NEW t, ResponsesMatch(t), NEW i \in Items
  PROVE  /\ \A b : b[2][2] = i => (b \in t.open <=> b \in BlocksOf(Type(i), i, answer.sent[i]))
         /\ <<1, i>> \in t.called <=> Made(Type(i), answer.sent[i])
<1>1. ASSUME NEW b, b[2][2] = i PROVE b \in t.open <=> b \in BlocksOf(Type(i), i, answer.sent[i])
  <2>1. b \in t.open <=> \E j \in Items : b \in BlocksOf(Type(j), j, answer.sent[j])
    BY DEF ResponsesMatch
  <2>2. \A j \in Items : b \in BlocksOf(Type(j), j, answer.sent[j]) => j = i
    BY <1>1, BlocksOwn
  <2> QED
    BY <2>1, <2>2
<1>2. <<1, i>> \in t.called <=> Made(Type(i), answer.sent[i])
  <2>1. <<1, i>> \in t.called <=> \E j \in Items : Made(Type(j), answer.sent[j]) /\ <<1, i>> = <<1, j>>
    BY DEF ResponsesMatch
  <2>2. \A j : <<1, i>> = <<1, j>> => i = j
    OBVIOUS
  <2> QED
    BY <2>1, <2>2
<1> QED
  BY <1>1, <1>2

\* What is known of the item the next event belongs to.
LEMMA MatchNow ==
  ASSUME Orderly, NEW t, ResponsesMatch(t), NEW i \in Items, MaySend(i)
  PROVE  LET type == Type(i)
             n == answer.sent[i]
         IN  /\ type \in ItemTypes /\ n \in 0..(Length(type) - 1)
             /\ parser.ongoing[i] = OngoingOf(type, i, n) /\ parser.active[i] = ActiveOf(type, i, n)
             /\ parser.current = CurrentOf(type, i, n) /\ parser.text = TextOf(type, i, n)
<1>1. /\ Items = 1..Len(answer.items) /\ Len(answer.items) \in Nat /\ answer.sent \in [Items -> Nat]
      /\ \A k \in Items : Type(k) \in ItemTypes
  BY AnswerIs DEF Orderly, Type
<1>2. answer.sent[i] # Length(Type(i)) /\ answer.sent[i] <= Length(Type(i)) /\ Length(Type(i)) \in Nat
  BY <1>1, EventsAre DEF MaySend, Complete, Orderly, Length, ItemTypes, InputTypes, TextTypes
<1>3. \A j \in Items : j # i => ~InText(j) /\ ~InReasoning(j)
  BY Alone DEF InText, InReasoning, TextTypes
<1>4. parser.current = CurrentOf(Type(i), i, answer.sent[i])
  <2>1. CASE InReasoning(i)
    BY <2>1 DEF ResponsesMatch, InReasoning, CurrentOf
  <2>2. CASE ~InReasoning(i)
    BY <2>2, <1>3 DEF ResponsesMatch, InReasoning, CurrentOf
  <2> QED
    BY <2>1, <2>2
<1>5. parser.text = TextOf(Type(i), i, answer.sent[i])
  <2>1. CASE InText(i)
    BY <2>1 DEF ResponsesMatch, InText, TextOf
  <2>2. CASE ~InText(i)
    BY <2>2, <1>3 DEF ResponsesMatch, InText, TextOf
  <2> QED
    BY <2>1, <2>2
<1> QED
  BY <1>1, <1>2, <1>4, <1>5 DEF ResponsesMatch

LEMMA OrderlyNext ==
  ASSUME Orderly, NEW i \in Items, MaySend(i), answer' = [answer EXCEPT !.sent[i] = @ + 1]
  PROVE  Orderly'
<1>1. /\ Items = 1..Len(answer.items) /\ Len(answer.items) \in Nat /\ answer.sent \in [Items -> Nat]
      /\ \A k \in Items : Type(k) \in ItemTypes
  BY AnswerIs DEF Orderly, Type
<1>2. /\ WellAnswered(ItemTypes)' /\ answer'.items = answer.items /\ Items' = Items
      /\ answer'.sent = [answer.sent EXCEPT ![i] = @ + 1] /\ \A j \in Items : Type(j)' = Type(j)
  BY AnswerNext DEF Orderly
<1>3. \A k \in Items : Length(Type(k)) \in Nat /\ (Complete(k) <=> answer.sent[k] = Length(Type(k)))
  BY <1>1, EventsAre DEF Complete, Length, ItemTypes, InputTypes, TextTypes
<1>4. ~Complete(i)
  BY DEF MaySend
<1>5. \A k \in Items : Length(Type(k)') = Length(Type(k))
  BY <1>2
<1>6. \A k \in Items : answer'.sent[k] <= Length(Type(k)')
  BY <1>1, <1>2, <1>3, <1>4, <1>5 DEF Orderly
<1>7. ASSUME NEW k \in Items, NEW j \in Items, k < j, answer'.sent[j] > 0
      PROVE  answer'.sent[k] = Length(Type(k)') \/ (Type(k)' = "function_call" /\ Type(j)' = "function_call")
  <2>1. CASE j = i
    <3>1. k \in 1..(i - 1) /\ k # i
      BY <1>1, <1>7, <2>1
    <3>2. Complete(k) \/ (Type(k) = "function_call" /\ Type(i) = "function_call")
      BY <3>1 DEF MaySend
    <3>3. answer'.sent[k] = answer.sent[k]
      BY <1>1, <1>2, <3>1
    <3> QED
      BY <3>2, <3>3, <2>1, <1>2, <1>3, <1>5
  <2>2. CASE j # i
    <3>1. answer.sent[j] > 0
      BY <1>1, <1>2, <1>7, <2>2
    <3>2. answer.sent[k] = Length(Type(k)) \/ (Type(k) = "function_call" /\ Type(j) = "function_call")
      BY <3>1, <1>7 DEF Orderly
    <3>3. k = i => Type(k) = "function_call" /\ Type(j) = "function_call"
      BY <3>2, <1>3, <1>4
    <3>4. k # i => answer'.sent[k] = answer.sent[k]
      BY <1>1, <1>2
    <3> QED
      BY <3>2, <3>3, <3>4, <1>2, <1>5
  <2> QED
    BY <2>1, <2>2
<1> QED
  BY <1>2, <1>6, <1>7 DEF Orderly

ParserAt(p, i, type, n) ==
  /\ p.ongoing[i] = OngoingOf(type, i, n) /\ p.active[i] = ActiveOf(type, i, n)
  /\ p.current = CurrentOf(type, i, n) /\ p.text = TextOf(type, i, n)
OthersStay(i) ==
  \A j \in Items : j # i => parser'.ongoing[j] = parser.ongoing[j] /\ parser'.active[j] = parser.active[j]

\* The parser has read the event, and the blocks of the item are what they are now.
LEMMA MatchNext ==
  ASSUME Orderly, NEW t, ResponsesMatch(t), NEW i \in Items, MaySend(i),
         answer' = [answer EXCEPT !.sent[i] = @ + 1],
         NEW type, type = Type(i), NEW n, n = answer.sent[i],
         NEW u,
         u.open = (t.open \ BlocksOf(type, i, n)) \cup BlocksOf(type, i, n + 1),
         u.called = IF Made(type, n + 1) THEN t.called \cup {<<1, i>>} ELSE t.called,
         OthersStay(i), ParserAt(parser', i, type, n + 1)
  PROVE  ResponsesMatch(u)'
<1>1. /\ Items = 1..Len(answer.items) /\ Len(answer.items) \in Nat /\ answer.sent \in [Items -> Nat]
      /\ \A k \in Items : Type(k) \in ItemTypes
  BY AnswerIs DEF Orderly, Type
<1>2. /\ Items' = Items /\ \A j \in Items : Type(j)' = Type(j)
      /\ answer'.sent[i] = n + 1 /\ \A j \in Items : j # i => answer'.sent[j] = answer.sent[j]
  BY <1>1, AnswerNext DEF Orderly
<1>3. \A j \in Items : j # i => ~InText(j) /\ ~InReasoning(j) /\ ~InText(j)' /\ ~InReasoning(j)'
  BY <1>2, Alone DEF InText, InReasoning, TextTypes
<1> DEFINE Now(j) == BlocksOf(Type(j), j, answer.sent[j])
           Then(j) == BlocksOf(Type(j)', j, answer'.sent[j])
<1>4. \A j \in Items : j # i => Then(j) = Now(j)
  BY <1>2
<1>5. Then(i) = BlocksOf(type, i, n + 1) /\ Now(i) = BlocksOf(type, i, n)
  BY <1>2
<1>6. u.open = UNION {Then(j) : j \in Items}
  <2>1. t.open = UNION {Now(j) : j \in Items}
    BY DEF ResponsesMatch
  <2>2. \A j \in Items : j # i => Now(j) \cap Now(i) = {}
    BY BlocksOwn
  <2> HIDE DEF Now, Then
  <2> QED
    BY <2>1, <2>2, <1>4, <1>5
<1>7. \A j \in Items : Made(Type(j)', answer'.sent[j]) <=> (j = i /\ Made(type, n + 1)) \/ Made(Type(j), answer.sent[j])
  <2>1. Made(type, n) => Made(type, n + 1)
    BY <1>1 DEF Made, ItemTypes, InputTypes, TextTypes
  <2> QED
    BY <2>1, <1>2
<1>8. u.called = {<<1, j>> : j \in {k \in Items : Made(Type(k)', answer'.sent[k])}}
  <2>1. t.called = {<<1, j>> : j \in {k \in Items : Made(Type(k), answer.sent[k])}}
    BY DEF ResponsesMatch
  <2> QED
    BY <2>1, <1>7
<1>9. ASSUME NEW j \in Items
      PROVE  /\ parser'.ongoing[j] = OngoingOf(Type(j)', j, answer'.sent[j])
             /\ parser'.active[j] = ActiveOf(Type(j)', j, answer'.sent[j])
             /\ InReasoning(j)' => parser'.current = j
             /\ InText(j)' => parser'.text = <<1, j, 0>>
  <2>1. CASE j = i
    BY <2>1, <1>2 DEF InReasoning, InText, CurrentOf, TextOf, ParserAt
  <2>2. CASE j # i
    BY <2>2, <1>2, <1>3 DEF ResponsesMatch, OthersStay
  <2> QED
    BY <2>1, <2>2
<1>10. (\A j \in Items : ~InReasoning(j)') => parser'.current = 0
  BY <1>2 DEF InReasoning, CurrentOf, ParserAt
<1>11. (\A j \in Items : ~InText(j)') => parser'.text = None
  BY <1>2 DEF InText, TextOf, ParserAt
<1> QED
  BY <1>2, <1>6, <1>8, <1>9, <1>10, <1>11 DEF ResponsesMatch

-----------------------------------------------------------------------------
(* CopilotResponses: the handlers of the events.                           *)

Parser(ongoing, made, active, current, text, finish) ==
  [ongoing |-> ongoing, hasFunctionCall |-> made, active |-> active,
   current |-> current, text |-> text, finish |-> finish]
Actives == {None} \cup [id : Ids, parts : Seq(Nat)]

ParserTyped ==
  \E ongoing \in [Items -> Ids \cup {None}] : \E active \in [Items -> Actives] :
  \E current \in Items \cup {0} : \E text \in Ids \cup {None} : \E made, finish :
    parser = Parser(ongoing, made, active, current, text, finish)
ResponsesTyped == Orderly /\ ParserTyped
ResponsesOwed ==
  \E t : Leads(Mark(view), queue, t) /\ t.phase = "open" /\ t.errored \in BOOLEAN /\ (~t.errored => ResponsesMatch(t))
ResponsesInv == ResponsesTyped /\ ResponsesOwed

LEMMA ChunkIs ==
  ASSUME ResponsesTyped, NEW i \in Items, NEW types, Chunk(i, types)
  PROVE  /\ MaySend(i) /\ UNCHANGED view /\ answer' = [answer EXCEPT !.sent[i] = @ + 1]
         /\ Orderly' /\ Items' = Items /\ i \in Nat \ {0}
         /\ Type(i) \in ItemTypes /\ answer.sent[i] \in 0..(Length(Type(i)) - 1)
         /\ NextEvent(i).type \in types /\ Placed(Type(i), answer.sent[i], NextEvent(i))
         /\ ItemId(i) = IF Type(i) \in TextTypes \cup {"reasoning"} THEN <<1, i, answer.sent[i]>> ELSE <<1, i>>
         /\ ItemId(i) \in Ids /\ CallId(i) = <<1, i>> /\ CallId(i) \in Ids
<1>1. /\ Items = 1..Len(answer.items) /\ Len(answer.items) \in Nat /\ answer.sent \in [Items -> Nat]
      /\ \A k \in Items : Type(k) \in ItemTypes
  BY AnswerIs DEF ResponsesTyped, Orderly, Type
<1>2. MaySend(i) /\ UNCHANGED view /\ answer' = [answer EXCEPT !.sent[i] = @ + 1] /\ NextEvent(i).type \in types
  BY DEF Chunk
<1>3. Orderly' /\ Items' = Items
  BY <1>2, OrderlyNext, AnswerNext DEF ResponsesTyped, Orderly
<1>4. answer.sent[i] # Length(Type(i)) /\ answer.sent[i] <= Length(Type(i)) /\ Length(Type(i)) \in Nat
  BY <1>1, <1>2, EventsAre DEF MaySend, Complete, ResponsesTyped, Orderly, Length, ItemTypes, InputTypes, TextTypes
<1>5. answer.sent[i] \in 0..(Length(Type(i)) - 1)
  BY <1>1, <1>4
<1>6. Placed(Type(i), answer.sent[i], NextEvent(i))
  BY <1>1, <1>5, EventsAre DEF NextEvent
<1>7. i \in Nat \ {0} /\ answer.sent[i] \in Nat
  BY <1>1
<1>8. \A k \in Nat : <<1, i>> \in Ids /\ <<1, i, k>> \in Ids
  BY <1>7 DEF Ids, None
<1> QED
  BY <1>1, <1>2, <1>3, <1>5, <1>6, <1>7, <1>8 DEF ItemId, CallId, TextTypes

LEMMA ParserIs ==
  ASSUME ParserTyped
  PROVE  /\ parser.ongoing \in [Items -> Ids \cup {None}] /\ parser.active \in [Items -> Actives]
         /\ parser.current \in Items \cup {0} /\ parser.text \in Ids \cup {None}
         /\ parser = Parser(parser.ongoing, parser.hasFunctionCall, parser.active,
                            parser.current, parser.text, parser.finish)
<1>1. PICK ongoing \in [Items -> Ids \cup {None}], active \in [Items -> Actives],
           current \in Items \cup {0}, text \in Ids \cup {None} : \E made, finish :
         parser = Parser(ongoing, made, active, current, text, finish)
  BY DEF ParserTyped
<1>2. PICK made, finish : parser = Parser(ongoing, made, active, current, text, finish)
  BY <1>1
<1> QED
  BY <1>2 DEF Parser

LEMMA ParserNext ==
  ASSUME Items' = Items,
         NEW ongoing \in [Items -> Ids \cup {None}], NEW active \in [Items -> Actives],
         NEW current \in Items \cup {0}, NEW text \in Ids \cup {None}, NEW made, NEW finish,
         parser' = Parser(ongoing, made, active, current, text, finish)
  PROVE  ParserTyped'
<1>1. \E made1, finish1 : parser' = Parser(ongoing, made1, active, current, text, finish1)
  OBVIOUS
<1> QED
  BY <1>1 DEF ParserTyped

\* The blocks of an item that are open, and whether its call is made; what another item changes of a state.
Held(t, i, blocks, made) ==
  /\ t.phase = "open" /\ t.errored = FALSE
  /\ \A b : b[2][2] = i => (b \in t.open <=> b \in blocks)
  /\ <<1, i>> \in t.called <=> made
Elsewhere(t, u, i) ==
  /\ \A b : b[2][2] # i => (b \in t.open <=> b \in u.open)
  /\ \A id : id # <<1, i>> => (id \in t.called <=> id \in u.called)
Moves(t, out, i, blocks, made) ==
  \E u : Leads(t, out, u) /\ Held(u, i, blocks, made) /\ Elsewhere(t, u, i)

LEMMA ElsewhereToo ==
  ASSUME NEW t, NEW u, NEW w, NEW i, Elsewhere(t, u, i), Elsewhere(u, w, i)
  PROVE  Elsewhere(t, w, i)
  BY DEF Elsewhere

LEMMA StartHolds ==
  ASSUME NEW t, NEW i, NEW blocks, NEW made, Held(t, i, blocks, made),
         NEW id \in Ids, id[2] = i, NEW type \in StartTypes, NEW b, b = <<KindOf(type), id>>, b \notin blocks,
         NEW more, more = blocks \cup {b}
  PROVE  /\ Allowed(t, Part(type, id))
         /\ Held(Apply(t, Part(type, id)), i, more, made)
         /\ Elsewhere(t, Apply(t, Part(type, id)), i)
<1> DEFINE u == Apply(t, Part(type, id))
<1>1. b[2][2] = i
  OBVIOUS
<1>2. t.phase = "open" /\ b \notin t.open
  BY <1>1 DEF Held
<1>3. Allowed(t, Part(type, id)) /\ u = State("open", t.open \cup {b}, t.called, t.errored)
  BY <1>2, StartDoes
<1>4. u.phase = "open" /\ u.open = t.open \cup {b} /\ u.called = t.called /\ u.errored = t.errored
  BY <1>3, StateIs
<1> HIDE DEF u
<1>5. Held(u, i, more, made) /\ Elsewhere(t, u, i)
  BY <1>1, <1>4 DEF Held, Elsewhere
<1> QED
  BY <1>3, <1>5 DEF u

LEMMA DeltaHolds ==
  ASSUME NEW t, NEW i, NEW blocks, NEW made, Held(t, i, blocks, made),
         NEW id \in Ids, id[2] = i, NEW type \in DeltaTypes, NEW b, b = <<KindOf(type), id>>, b \in blocks
  PROVE  /\ Allowed(t, Part(type, id))
         /\ Held(Apply(t, Part(type, id)), i, blocks, made)
         /\ Elsewhere(t, Apply(t, Part(type, id)), i)
<1> DEFINE u == Apply(t, Part(type, id))
<1>1. b[2][2] = i
  OBVIOUS
<1>2. t.phase = "open" /\ b \in t.open
  BY <1>1 DEF Held
<1>3. Allowed(t, Part(type, id)) /\ u = State("open", t.open, t.called, t.errored)
  BY <1>2, DeltaDoes
<1>4. u.phase = "open" /\ u.open = t.open /\ u.called = t.called /\ u.errored = t.errored
  BY <1>3, StateIs
<1> HIDE DEF u
<1>5. Held(u, i, blocks, made) /\ Elsewhere(t, u, i)
  BY <1>4 DEF Held, Elsewhere
<1> QED
  BY <1>3, <1>5 DEF u

LEMMA EndHolds ==
  ASSUME NEW t, NEW i, NEW blocks, NEW made, Held(t, i, blocks, made),
         NEW id \in Ids, id[2] = i, NEW type \in EndTypes, NEW b, b = <<KindOf(type), id>>, b \in blocks,
         NEW more, more = blocks \ {b}
  PROVE  /\ Allowed(t, Part(type, id))
         /\ Held(Apply(t, Part(type, id)), i, more, made)
         /\ Elsewhere(t, Apply(t, Part(type, id)), i)
<1> DEFINE u == Apply(t, Part(type, id))
<1>1. b[2][2] = i
  OBVIOUS
<1>2. t.phase = "open" /\ b \in t.open
  BY <1>1 DEF Held
<1>3. Allowed(t, Part(type, id)) /\ u = State("open", t.open \ {b}, t.called, t.errored)
  BY <1>2, EndDoes
<1>4. u.phase = "open" /\ u.open = t.open \ {b} /\ u.called = t.called /\ u.errored = t.errored
  BY <1>3, StateIs
<1> HIDE DEF u
<1>5. Held(u, i, more, made) /\ Elsewhere(t, u, i)
  BY <1>1, <1>4 DEF Held, Elsewhere
<1> QED
  BY <1>3, <1>5 DEF u

LEMMA CallHolds ==
  ASSUME NEW t, NEW i, NEW blocks, Held(t, i, blocks, FALSE), <<1, i>> \in Ids,
         <<"tool-input", <<1, i>>>> \notin blocks, NEW data
  PROVE  /\ Allowed(t, PartOf("tool-call", <<1, i>>, data))
         /\ Held(Apply(t, PartOf("tool-call", <<1, i>>, data)), i, blocks, TRUE)
         /\ Elsewhere(t, Apply(t, PartOf("tool-call", <<1, i>>, data)), i)
<1> DEFINE b == <<"tool-input", <<1, i>>>>
           u == Apply(t, PartOf("tool-call", <<1, i>>, data))
<1>1. b[2][2] = i
  OBVIOUS
<1>2. t.phase = "open" /\ b \notin t.open /\ <<1, i>> \notin t.called
  BY <1>1 DEF Held
<1>3. Allowed(t, PartOf("tool-call", <<1, i>>, data)) /\ u = State("open", t.open, t.called \cup {<<1, i>>}, t.errored)
  BY <1>2, CallDoes
<1>4. u.phase = "open" /\ u.open = t.open /\ u.called = t.called \cup {<<1, i>>} /\ u.errored = t.errored
  BY <1>3, StateIs
<1> HIDE DEF b, u
<1>5. Held(u, i, blocks, TRUE) /\ Elsewhere(t, u, i)
  BY <1>4 DEF Held, Elsewhere
<1> QED
  BY <1>3, <1>5 DEF u

LEMMA ResultHolds ==
  ASSUME NEW t, NEW i, NEW blocks, Held(t, i, blocks, TRUE), <<1, i>> \in Ids, NEW data
  PROVE  /\ Allowed(t, PartOf("tool-result", <<1, i>>, data))
         /\ Held(Apply(t, PartOf("tool-result", <<1, i>>, data)), i, blocks, TRUE)
         /\ Elsewhere(t, Apply(t, PartOf("tool-result", <<1, i>>, data)), i)
<1> DEFINE u == Apply(t, PartOf("tool-result", <<1, i>>, data))
<1>2. t.phase = "open" /\ <<1, i>> \in t.called
  BY DEF Held
<1>3. Allowed(t, PartOf("tool-result", <<1, i>>, data)) /\ u = State("open", t.open, t.called, t.errored)
  BY <1>2, ResultDoes
<1>4. u.phase = "open" /\ u.open = t.open /\ u.called = t.called /\ u.errored = t.errored
  BY <1>3, StateIs
<1> HIDE DEF u
<1>5. Held(u, i, blocks, TRUE) /\ Elsewhere(t, u, i)
  BY <1>4 DEF Held, Elsewhere
<1> QED
  BY <1>3, <1>5 DEF u

LEMMA NoteHolds ==
  ASSUME NEW t, NEW i, NEW blocks, NEW made, Held(t, i, blocks, made), NEW type \in {"response-metadata", "source"}
  PROVE  /\ Allowed(t, Part(type, None))
         /\ Held(Apply(t, Part(type, None)), i, blocks, made)
         /\ Elsewhere(t, Apply(t, Part(type, None)), i)
<1> DEFINE u == Apply(t, Part(type, None))
<1>2. t.phase = "open"
  BY DEF Held
<1>3. Allowed(t, Part(type, None)) /\ u = State("open", t.open, t.called, t.errored)
  BY <1>2, NoteDoes
<1>4. u.phase = "open" /\ u.open = t.open /\ u.called = t.called /\ u.errored = t.errored
  BY <1>3, StateIs
<1> HIDE DEF u
<1>5. Held(u, i, blocks, made) /\ Elsewhere(t, u, i)
  BY <1>4 DEF Held, Elsewhere
<1> QED
  BY <1>3, <1>5 DEF u

LEMMA MovesNone ==
  ASSUME NEW t, NEW i, NEW blocks, NEW made, Held(t, i, blocks, made)
  PROVE  Moves(t, <<>>, i, blocks, made)
  BY LeadsNowhere DEF Moves, Elsewhere

LEMMA MovesOne ==
  ASSUME NEW t, NEW i, NEW p, NEW blocks, NEW made,
         Allowed(t, p), Held(Apply(t, p), i, blocks, made), Elsewhere(t, Apply(t, p), i)
  PROVE  Moves(t, <<p>>, i, blocks, made)
  BY LeadsOne DEF Moves

LEMMA MovesTwo ==
  ASSUME NEW t, NEW i, NEW p, NEW r, NEW blocks, NEW made,
         Allowed(t, p), Elsewhere(t, Apply(t, p), i), Allowed(Apply(t, p), r),
         Held(Apply(Apply(t, p), r), i, blocks, made), Elsewhere(Apply(t, p), Apply(Apply(t, p), r), i)
  PROVE  Moves(t, <<p, r>>, i, blocks, made)
  BY LeadsTwo, ElsewhereToo DEF Moves

LEMMA MovesThree ==
  ASSUME NEW t, NEW i, NEW p, NEW r, NEW x, NEW blocks, NEW made,
         Allowed(t, p), Elsewhere(t, Apply(t, p), i),
         Allowed(Apply(t, p), r), Elsewhere(Apply(t, p), Apply(Apply(t, p), r), i),
         Allowed(Apply(Apply(t, p), r), x), Held(Apply(Apply(Apply(t, p), r), x), i, blocks, made),
         Elsewhere(Apply(Apply(t, p), r), Apply(Apply(Apply(t, p), r), x), i)
  PROVE  Moves(t, <<p, r, x>>, i, blocks, made)
  BY LeadsThree, ElsewhereToo DEF Moves

\* A handler has done what its event asks for.
LEMMA ItemKeeps ==
  ASSUME ResponsesInv, NEW i \in Items, MaySend(i), answer' = [answer EXCEPT !.sent[i] = @ + 1],
         UNCHANGED view, ParserTyped',
         NEW S, NEW out \in Seq(S), FitsAll(out), Emit(out),
         NEW type, type = Type(i), NEW n, n = answer.sent[i],
         ParserAt(parser, i, type, n) => ParserAt(parser', i, type, n + 1) /\ OthersStay(i),
         \A t : ParserAt(parser, i, type, n) /\ Held(t, i, BlocksOf(type, i, n), Made(type, n))
                  => Moves(t, out, i, BlocksOf(type, i, n + 1), Made(type, n + 1))
  PROVE  ResponsesInv'
<1>1. Orderly
  BY DEF ResponsesInv, ResponsesTyped
<1>2. Orderly' /\ Items' = Items
  BY <1>1, OrderlyNext, AnswerNext DEF Orderly
<1>3. ResponsesTyped'
  BY <1>2 DEF ResponsesTyped
<1>4. PICK t : Leads(Mark(view), queue, t) /\ t.phase = "open" /\ t.errored \in BOOLEAN /\ (~t.errored => ResponsesMatch(t))
  BY DEF ResponsesInv, ResponsesOwed
<1>5. ~t.errored => ParserAt(parser, i, type, n) /\ Held(t, i, BlocksOf(type, i, n), Made(type, n))
  BY <1>1, <1>4, MatchNow, OpenIs DEF ParserAt, Held
<1>6. PICK u : ~t.errored => /\ Leads(t, out, u) /\ Elsewhere(t, u, i)
                             /\ Held(u, i, BlocksOf(type, i, n + 1), Made(type, n + 1))
  BY <1>5 DEF Moves
<1>7. PICK w : /\ Leads(Mark(view'), queue', w) /\ w.phase = "open" /\ w.errored \in BOOLEAN
               /\ ~w.errored => ~t.errored /\ w = u
  <2>1. ~t.errored => Leads(t, out, u) /\ u.phase = "open" /\ u.errored \in BOOLEAN
    BY <1>6 DEF Held
  <2> QED
    BY <2>1, <1>4, Emits
<1>8. ~w.errored => ResponsesMatch(w)'
  <2> SUFFICES ASSUME ~w.errored PROVE ResponsesMatch(w)'
    OBVIOUS
  <2>1. ~t.errored /\ w = u /\ ResponsesMatch(t)
    BY <1>7, <1>4
  <2>2. w.open = (t.open \ BlocksOf(type, i, n)) \cup BlocksOf(type, i, n + 1)
    <3>1. \A b : b[2][2] = i => (b \in t.open <=> b \in BlocksOf(type, i, n)) /\ (b \in w.open <=> b \in BlocksOf(type, i, n + 1))
      BY <2>1, <1>5, <1>6 DEF Held
    <3>2. \A b : b[2][2] # i => b \notin BlocksOf(type, i, n) /\ b \notin BlocksOf(type, i, n + 1) /\ (b \in t.open <=> b \in w.open)
      BY <2>1, <1>6, BlocksOwn DEF Elsewhere
    <3> QED
      BY <3>1, <3>2
  <2>3. w.called = IF Made(type, n + 1) THEN t.called \cup {<<1, i>>} ELSE t.called
    <3>1. Made(type, n) => Made(type, n + 1)
      <4>1. n \in Nat
        BY <1>1, AnswerIs DEF Orderly
      <4> QED
        BY <4>1 DEF Made
    <3>2. <<1, i>> \in w.called <=> Made(type, n + 1)
      BY <2>1, <1>6 DEF Held
    <3>3. <<1, i>> \in t.called <=> Made(type, n)
      BY <2>1, <1>5 DEF Held
    <3>4. \A id : id # <<1, i>> => (id \in t.called <=> id \in w.called)
      BY <2>1, <1>6 DEF Elsewhere
    <3>5. CASE Made(type, n + 1)
      <4>1. w.called = t.called \cup {<<1, i>>}
        BY <3>2, <3>4, <3>5
      <4> QED
        BY <4>1, <3>5
    <3>6. CASE ~Made(type, n + 1)
      <4>1. \A id : id \in w.called <=> id \in t.called
        BY <3>1, <3>2, <3>3, <3>4, <3>6
      <4>2. w.called = t.called
        BY <4>1
      <4> QED
        BY <4>2, <3>6
    <3> QED
      BY <3>5, <3>6
  <2>4. ParserAt(parser', i, type, n + 1) /\ OthersStay(i) /\ Orderly /\ ResponsesMatch(t)
    BY <1>1, <2>1, <1>5
  <2> QED
    BY <2>2, <2>3, <2>4, MatchNext
<1>9. ResponsesOwed'
  BY <1>7, <1>8 DEF ResponsesOwed
<1> QED
  BY <1>3, <1>9 DEF ResponsesInv

\* The sequences of parts the handlers enqueue.
LEMMA OutNone == FitsAll(<<>>) /\ <<>> \in Seq({})
  BY EmptySeq DEF FitsAll
LEMMA OutOne == ASSUME NEW p, Fits(p) PROVE FitsAll(<<p>>) /\ <<p>> \in Seq({p})
  BY DEF FitsAll
LEMMA OutTwo == ASSUME NEW p, NEW r, Fits(p), Fits(r) PROVE FitsAll(<<p, r>>) /\ <<p, r>> \in Seq({p, r})
  BY DEF FitsAll
LEMMA OutThree ==
  ASSUME NEW p, NEW r, NEW x, Fits(p), Fits(r), Fits(x)
  PROVE  FitsAll(<<p, r, x>>) /\ <<p, r, x>> \in Seq({p, r, x})
  BY DEF FitsAll
LEMMA EmitNone == ASSUME queue = <<>>, UNCHANGED queue PROVE Emit(<<>>)
<1>1. <<>> \o <<>> = <<>>
  BY EmptySeq, ConcatEmptySeq
<1> QED
  BY <1>1 DEF Emit

\* What the handlers do to the parser.
Became(ongoing, active, current, text) ==
  /\ ParserTyped' /\ parser'.ongoing = ongoing /\ parser'.active = active
  /\ parser'.current = current /\ parser'.text = text
LEMMA ParserBecomes ==
  ASSUME Items' = Items,
         NEW ongoing \in [Items -> Ids \cup {None}], NEW active \in [Items -> Actives],
         NEW current \in Items \cup {0}, NEW text \in Ids \cup {None}, NEW made, NEW finish,
         parser' = Parser(ongoing, made, active, current, text, finish)
  PROVE  Became(ongoing, active, current, text)
  BY ParserNext DEF Parser, Became
LEMMA SetOngoing ==
  ASSUME ParserTyped, Items' = Items, NEW i \in Items, NEW x \in Ids \cup {None}, NEW made
  PROVE  parser' = [parser EXCEPT !.ongoing[i] = x, !.hasFunctionCall = made] => Became([parser.ongoing EXCEPT ![i] = x], parser.active, parser.current, parser.text)
<1>0. /\ parser.ongoing \in [Items -> Ids \cup {None}] /\ parser.active \in [Items -> Actives]
      /\ parser.current \in Items \cup {0} /\ parser.text \in Ids \cup {None}
  BY ParserIs
<1> DEFINE on == [parser.ongoing EXCEPT ![i] = x]
<1>1. on \in [Items -> Ids \cup {None}]
  BY <1>0
<1>2. ASSUME parser' = [parser EXCEPT !.ongoing[i] = x, !.hasFunctionCall = made]
      PROVE  parser' = Parser(on, made, parser.active, parser.current, parser.text, parser.finish)
  BY <1>2, ParserIs DEF Parser
<1> HIDE DEF on
<1>3. ASSUME parser' = Parser(on, made, parser.active, parser.current, parser.text, parser.finish)
      PROVE  Became(on, parser.active, parser.current, parser.text)
  BY <1>0, <1>1, <1>3, ParserBecomes
<1> QED
  BY <1>2, <1>3 DEF on
LEMMA OngoingSet ==
  ASSUME ParserTyped, Items' = Items, NEW i \in Items, NEW x \in Ids \cup {None}
  PROVE  parser' = [parser EXCEPT !.ongoing[i] = x] => Became([parser.ongoing EXCEPT ![i] = x], parser.active, parser.current, parser.text)
<1>1. ASSUME parser' = [parser EXCEPT !.ongoing[i] = x]
      PROVE  parser' = [parser EXCEPT !.ongoing[i] = x, !.hasFunctionCall = parser.hasFunctionCall]
  BY <1>1, ParserIs DEF Parser
<1> QED
  BY <1>1, SetOngoing
LEMMA SetText ==
  ASSUME ParserTyped, Items' = Items, NEW x \in Ids \cup {None}
  PROVE  parser' = [parser EXCEPT !.text = x] => Became(parser.ongoing, parser.active, parser.current, x)
<1>0. /\ parser.ongoing \in [Items -> Ids \cup {None}] /\ parser.active \in [Items -> Actives]
      /\ parser.current \in Items \cup {0} /\ parser.text \in Ids \cup {None}
  BY ParserIs
<1>1. ASSUME parser' = [parser EXCEPT !.text = x]
      PROVE  parser' = Parser(parser.ongoing, parser.hasFunctionCall, parser.active, parser.current, x, parser.finish)
  BY <1>1, ParserIs DEF Parser
<1>2. ASSUME parser' = Parser(parser.ongoing, parser.hasFunctionCall, parser.active, parser.current, x, parser.finish)
      PROVE  Became(parser.ongoing, parser.active, parser.current, x)
  BY <1>0, <1>2, ParserBecomes
<1> QED
  BY <1>1, <1>2
LEMMA SetActive ==
  ASSUME ParserTyped, Items' = Items, NEW i \in Items, NEW x \in Actives, NEW c \in Items \cup {0}
  PROVE  parser' = [parser EXCEPT !.active[i] = x, !.current = c] => Became(parser.ongoing, [parser.active EXCEPT ![i] = x], c, parser.text)
<1>0. /\ parser.ongoing \in [Items -> Ids \cup {None}] /\ parser.active \in [Items -> Actives]
      /\ parser.current \in Items \cup {0} /\ parser.text \in Ids \cup {None}
  BY ParserIs
<1> DEFINE act == [parser.active EXCEPT ![i] = x]
<1>1. act \in [Items -> Actives]
  BY <1>0
<1>2. ASSUME parser' = [parser EXCEPT !.active[i] = x, !.current = c]
      PROVE  parser' = Parser(parser.ongoing, parser.hasFunctionCall, act, c, parser.text, parser.finish)
  BY <1>2, ParserIs DEF Parser
<1> HIDE DEF act
<1>3. ASSUME parser' = Parser(parser.ongoing, parser.hasFunctionCall, act, c, parser.text, parser.finish)
      PROVE  Became(parser.ongoing, act, c, parser.text)
  BY <1>0, <1>1, <1>3, ParserBecomes
<1> QED
  BY <1>2, <1>3 DEF act
LEMMA SetParts ==
  ASSUME ParserTyped, Items' = Items, NEW i \in Items, i = parser.current, NEW a, a = parser.active[i], a # None, NEW e \in Nat
  PROVE  parser' = [parser EXCEPT !.active[parser.current] = [id |-> @.id, parts |-> Append(@.parts, e)]] =>
           Became(parser.ongoing, [parser.active EXCEPT ![i] = [id |-> a.id, parts |-> Append(a.parts, e)]],
                  parser.current, parser.text)
<1>0. /\ parser.ongoing \in [Items -> Ids \cup {None}] /\ parser.active \in [Items -> Actives]
      /\ parser.current \in Items \cup {0} /\ parser.text \in Ids \cup {None}
  BY ParserIs
<1> DEFINE x == [id |-> a.id, parts |-> Append(a.parts, e)]
           act == [parser.active EXCEPT ![i] = x]
<1>1. a.id \in Ids /\ a.parts \in Seq(Nat) /\ a = [id |-> a.id, parts |-> a.parts]
  BY <1>0 DEF Actives
<1>2. x \in Actives
  <2>1. Append(a.parts, e) \in Seq(Nat)
    BY <1>1, AppendProperties
  <2> QED
    BY <1>1, <2>1 DEF Actives
<1> HIDE DEF x
<1>4. act \in [Items -> Actives]
  BY <1>0, <1>2
<1>5. ASSUME parser' = [parser EXCEPT !.active[parser.current] = [id |-> @.id, parts |-> Append(@.parts, e)]]
      PROVE  parser' = Parser(parser.ongoing, parser.hasFunctionCall, act, parser.current, parser.text, parser.finish)
  <2>1. parser' = [parser EXCEPT !.active[i] = x]
    BY <1>5 DEF x
  <2> QED
    BY <2>1, ParserIs DEF Parser
<1> HIDE DEF act
<1>6. ASSUME parser' = Parser(parser.ongoing, parser.hasFunctionCall, act, parser.current, parser.text, parser.finish)
      PROVE  Became(parser.ongoing, act, parser.current, parser.text)
  BY <1>0, <1>4, <1>6, ParserBecomes
<1> QED
  BY <1>5, <1>6 DEF act, x
LEMMA SetNothing ==
  ASSUME ParserTyped, Items' = Items
  PROVE  parser' = parser => Became(parser.ongoing, parser.active, parser.current, parser.text)
<1>1. ASSUME parser' = parser
      PROVE  parser' = Parser(parser.ongoing, parser.hasFunctionCall, parser.active, parser.current, parser.text, parser.finish)
  BY <1>1, ParserIs
<1>2. ASSUME parser' = Parser(parser.ongoing, parser.hasFunctionCall, parser.active, parser.current, parser.text, parser.finish)
      PROVE  Became(parser.ongoing, parser.active, parser.current, parser.text)
  BY <1>2, ParserIs, ParserBecomes
<1> QED
  BY <1>1, <1>2

LEMMA AppendIs == ASSUME NEW a, NEW b, NEW c, NEW d PROVE Append(<<a, b, c>>, d) = <<a, b, c, d>>
<1> DEFINE q == <<a, b, c>>
           r == <<a, b, c, d>>
           S == {a, b, c, d}
           x == Append(q, d)
<1>1. q \in Seq(S) /\ d \in S
  OBVIOUS
<1>2. r \in Seq(S) /\ Len(q) = 3 /\ Len(r) = 4
  OBVIOUS
<1>3. q[1] = r[1] /\ q[2] = r[2] /\ q[3] = r[3] /\ d = r[4]
  OBVIOUS
<1> HIDE DEF q, r, S
<1>4. /\ x \in Seq(S) /\ Len(x) = Len(q) + 1 /\ x[Len(q) + 1] = d
      /\ \A k \in 1..Len(q) : x[k] = q[k]
  BY <1>1, AppendProperties
<1> HIDE DEF x
<1>5. Len(x) = 4 /\ x[1] = q[1] /\ x[2] = q[2] /\ x[3] = q[3] /\ x[4] = d
  BY <1>2, <1>4
<1>6. \A k \in 1..Len(x) : x[k] = r[k]
  BY <1>3, <1>5
<1>7. x = r
  BY <1>2, <1>4, <1>5, <1>6, SeqEqual
<1> QED
  BY <1>7 DEF x, q, r

LEMMA AppendOne == Append(<<0>>, 1) = <<0, 1>>
<1>1. <<0>> \in Seq(Nat) /\ 1 \in Nat
  OBVIOUS
<1>2. Append(<<0>>, 1) = <<0>> \o <<1>>
  BY <1>1, AppendIsConcat
<1> QED
  BY <1>2, PairIs

LEMMA AppendId == ASSUME NEW id \in Ids, NEW e \in Nat PROVE Append(id, e) \in Ids
<1>1. id \in Seq(Nat)
  BY DEF Ids
<1>2. Append(id, e) \in Seq(Nat) /\ Append(id, e) # <<>>
  BY <1>1, AppendProperties
<1> QED
  BY <1>2 DEF Ids, None

LEMMA TwoIs == ASSUME NEW S, NEW q \in Seq(S), Len(q) = 2 PROVE q = <<q[1], q[2]>>
<1> DEFINE r == <<q[1], q[2]>>
<1>1. q[1] \in S /\ q[2] \in S
  BY ElementOfSeq
<1>2. r \in Seq(S) /\ Len(r) = 2 /\ r[1] = q[1] /\ r[2] = q[2]
  BY <1>1
<1> HIDE DEF r
<1>3. \A k \in 1..2 : q[k] = r[k]
  BY <1>2
<1>4. q = r
  BY <1>2, <1>3, SeqEqual
<1> QED
  BY <1>4 DEF r

\* What an item's handler has to work with.
LEMMA ChunkNow ==
  ASSUME ResponsesInv, NEW i \in Items, NEW types, Chunk(i, types)
  PROVE  /\ MaySend(i) /\ UNCHANGED view /\ answer' = [answer EXCEPT !.sent[i] = @ + 1]
         /\ Items' = Items /\ i \in Nat \ {0} /\ ParserTyped /\ queue = <<>>
         /\ Type(i) \in ItemTypes /\ answer.sent[i] \in 0..(Length(Type(i)) - 1)
         /\ NextEvent(i).type \in types /\ Placed(Type(i), answer.sent[i], NextEvent(i))
         /\ ItemId(i) = IF Type(i) \in TextTypes \cup {"reasoning"} THEN <<1, i, answer.sent[i]>> ELSE <<1, i>>
         /\ ItemId(i) \in Ids /\ CallId(i) = <<1, i>> /\ <<1, i>> \in Ids
<1>1. ResponsesTyped /\ ParserTyped /\ queue = <<>>
  BY DEF ResponsesInv, ResponsesTyped, Chunk
<1> QED
  BY <1>1, ChunkIs

LEMMA AddedKeeps ==
  ASSUME ResponsesInv, NEW i \in Items, OutputItemAdded(i)
  PROVE  ResponsesInv'
<1> DEFINE type == Type(i)
           n == answer.sent[i]
           id == ItemId(i)
           input == <<"tool-input", <<1, i>>>>
           words == <<"text", <<1, i, 0>>>>
           thought == <<"reasoning", <<1, i, 0, 0>>>>
           more == <<"reasoning", <<1, i, 0, 1>>>>
<1>1. Chunk(i, {"added"})
  BY DEF OutputItemAdded
<1>2. /\ MaySend(i) /\ UNCHANGED view /\ answer' = [answer EXCEPT !.sent[i] = @ + 1]
      /\ Items' = Items /\ i \in Nat \ {0} /\ ParserTyped /\ queue = <<>>
      /\ type \in ItemTypes /\ n \in Nat /\ n = 0 /\ type # "bare_message"
      /\ id = (IF type \in TextTypes \cup {"reasoning"} THEN <<1, i, n>> ELSE <<1, i>>)
      /\ id \in Ids /\ <<1, i>> \in Ids /\ id[2] = i /\ CallId(i) = <<1, i>>
  BY <1>1, ChunkNow DEF Placed
<1>3. <<1, i, 0>> \in Ids /\ <<1, i, 0, 0>> \in Ids /\ <<1, i, 0, 1>> \in Ids
  BY <1>2 DEF Ids, None
<1>4. \A k \in Ids : k # None
  BY DEF Ids
<1>5. /\ parser.ongoing \in [Items -> Ids \cup {None}] /\ parser.active \in [Items -> Actives]
      /\ parser.current \in Items \cup {0} /\ parser.text \in Ids \cup {None}
  BY <1>2, ParserIs
<1> HIDE DEF type, n, id, input, words, thought, more
<1>6. CASE type \in {"function_call", "web_search_call", "computer_call"}
  <2> DEFINE p == Part("tool-input-start", id)
  <2>1. parser' = [parser EXCEPT !.ongoing[i] = id] /\ Emit(<<p>>) /\ id = <<1, i>>
    BY <1>6, <1>2 DEF OutputItemAdded, type, id, TextTypes, InputStart
  <2>2. Became([parser.ongoing EXCEPT ![i] = id], parser.active, parser.current, parser.text)
    BY <2>1, <1>2, OngoingSet
  <2>3. /\ BlocksOf(type, i, n) = {} /\ Made(type, n) = FALSE
        /\ BlocksOf(type, i, n + 1) = {input} /\ Made(type, n + 1) = FALSE
        /\ OngoingOf(type, i, n + 1) = <<1, i>> /\ ActiveOf(type, i, n + 1) = None
        /\ CurrentOf(type, i, n + 1) = 0 /\ TextOf(type, i, n + 1) = None
        /\ ActiveOf(type, i, n) = None /\ CurrentOf(type, i, n) = 0
        /\ TextOf(type, i, n) = None
    BY <1>2, <1>6 DEF BlocksOf, Made, Midway, InputTypes, TextTypes, InputsEnd, Length, OngoingOf, ActiveOf, CurrentOf, TextOf, input, thought, more, words
  <2>4. ParserAt(parser, i, type, n) => ParserAt(parser', i, type, n + 1) /\ OthersStay(i)
    BY <2>1, <2>2, <2>3, <1>2, <1>4, <1>5, <1>6 DEF ParserAt, OthersStay, Became
  <2>5. ASSUME NEW t, ParserAt(parser, i, type, n), Held(t, i, {}, FALSE)
        PROVE  Moves(t, <<p>>, i, {input}, FALSE)
    <3> DEFINE u == Apply(t, p)
    <3>1. Allowed(t, p) /\ Held(u, i, {input}, FALSE) /\ Elsewhere(t, u, i)
      <4>1. "tool-input-start" \in StartTypes /\ KindOf("tool-input-start") = "tool-input"
        BY KindsAre
      <4>2. id \in Ids /\ id[2] = i /\ Held(t, i, {}, FALSE)
        BY <1>2, <2>5
      <4>3. input = <<"tool-input", id>> /\ input \notin {} /\ {input} = {} \cup {input}
        BY <2>1 DEF input, thought, more, words
      <4> QED
        BY <4>1, <4>2, <4>3, StartHolds
    <3> QED
      BY <3>1, MovesOne
  <2>6. Fits(p)
    BY <1>2, PartsFit, KindsAre
  <2> HIDE DEF p
  <2>7. FitsAll(<<p>>) /\ <<p>> \in Seq({p})
    BY <2>6, OutOne
  <2>8. ASSUME NEW t, ParserAt(parser, i, type, n), Held(t, i, BlocksOf(type, i, n), Made(type, n))
        PROVE  Moves(t, <<p>>, i, BlocksOf(type, i, n + 1), Made(type, n + 1))
    <3>1. Held(t, i, {}, FALSE)
      BY <2>8, <2>3
    <3> QED
      BY <3>1, <2>3, <2>5, <2>8
  <2>9. ParserTyped' /\ type = Type(i) /\ n = answer.sent[i] /\ Emit(<<p>>)
    BY <2>1, <2>2 DEF Became, type, n
  <2> QED
    BY <2>4, <2>7, <2>8, <2>9, <1>2, ItemKeeps
<1>7. CASE type = "code_interpreter_call"
  <2> DEFINE p == Part("tool-input-start", id)
             r == Part("tool-input-delta", id)
  <2>1. parser' = [parser EXCEPT !.ongoing[i] = id] /\ Emit(<<p, r>>) /\ id = <<1, i>>
    BY <1>7, <1>2 DEF OutputItemAdded, type, id, TextTypes, InputStart, InputDelta
  <2>2. Became([parser.ongoing EXCEPT ![i] = id], parser.active, parser.current, parser.text)
    BY <2>1, <1>2, OngoingSet
  <2>3. /\ BlocksOf(type, i, n) = {} /\ Made(type, n) = FALSE
        /\ BlocksOf(type, i, n + 1) = {input} /\ Made(type, n + 1) = FALSE
        /\ OngoingOf(type, i, n + 1) = <<1, i>> /\ ActiveOf(type, i, n + 1) = None
        /\ CurrentOf(type, i, n + 1) = 0 /\ TextOf(type, i, n + 1) = None
        /\ ActiveOf(type, i, n) = None /\ CurrentOf(type, i, n) = 0
        /\ TextOf(type, i, n) = None
    BY <1>2, <1>7 DEF BlocksOf, Made, Midway, InputTypes, TextTypes, InputsEnd, Length, OngoingOf, ActiveOf, CurrentOf, TextOf, input, thought, more, words
  <2>4. ParserAt(parser, i, type, n) => ParserAt(parser', i, type, n + 1) /\ OthersStay(i)
    BY <2>1, <2>2, <2>3, <1>2, <1>4, <1>5, <1>7 DEF ParserAt, OthersStay, Became
  <2>5. ASSUME NEW t, ParserAt(parser, i, type, n), Held(t, i, {}, FALSE)
        PROVE  Moves(t, <<p, r>>, i, {input}, FALSE)
    <3> DEFINE u == Apply(t, p)
               v == Apply(u, r)
    <3>1. Allowed(t, p) /\ Held(u, i, {input}, FALSE) /\ Elsewhere(t, u, i)
      <4>1. "tool-input-start" \in StartTypes /\ KindOf("tool-input-start") = "tool-input"
        BY KindsAre
      <4>2. id \in Ids /\ id[2] = i /\ Held(t, i, {}, FALSE)
        BY <1>2, <2>5
      <4>3. input = <<"tool-input", id>> /\ input \notin {} /\ {input} = {} \cup {input}
        BY <2>1 DEF input, thought, more, words
      <4> QED
        BY <4>1, <4>2, <4>3, StartHolds
    <3>2. Allowed(u, r) /\ Held(v, i, {input}, FALSE) /\ Elsewhere(u, v, i)
      <4>1. "tool-input-delta" \in DeltaTypes /\ KindOf("tool-input-delta") = "tool-input"
        BY KindsAre
      <4>2. id \in Ids /\ id[2] = i /\ Held(u, i, {input}, FALSE)
        BY <1>2, <3>1
      <4>3. input = <<"tool-input", id>> /\ input \in {input}
        BY <2>1 DEF input, thought, more, words
      <4> QED
        BY <4>1, <4>2, <4>3, DeltaHolds
    <3> QED
      BY <3>1, <3>2, MovesTwo
  <2>6. Fits(p) /\ Fits(r)
    BY <1>2, PartsFit, KindsAre
  <2> HIDE DEF p, r
  <2>7. FitsAll(<<p, r>>) /\ <<p, r>> \in Seq({p, r})
    BY <2>6, OutTwo
  <2>8. ASSUME NEW t, ParserAt(parser, i, type, n), Held(t, i, BlocksOf(type, i, n), Made(type, n))
        PROVE  Moves(t, <<p, r>>, i, BlocksOf(type, i, n + 1), Made(type, n + 1))
    <3>1. Held(t, i, {}, FALSE)
      BY <2>8, <2>3
    <3> QED
      BY <3>1, <2>3, <2>5, <2>8
  <2>9. ParserTyped' /\ type = Type(i) /\ n = answer.sent[i] /\ Emit(<<p, r>>)
    BY <2>1, <2>2 DEF Became, type, n
  <2> QED
    BY <2>4, <2>7, <2>8, <2>9, <1>2, ItemKeeps
<1>8. CASE type \in {"file_search_call", "image_generation_call"}
  <2> DEFINE p == PartOf("tool-call", <<1, i>>, CallData(type))
  <2>1. parser' = parser /\ Emit(<<p>>) /\ id = <<1, i>>
    BY <1>8, <1>2 DEF OutputItemAdded, type, id, TextTypes, CallPart
  <2>2. Became(parser.ongoing, parser.active, parser.current, parser.text)
    BY <2>1, <1>2, SetNothing
  <2>3. /\ BlocksOf(type, i, n) = {} /\ Made(type, n) = FALSE
        /\ BlocksOf(type, i, n + 1) = {} /\ Made(type, n + 1) = TRUE
        /\ OngoingOf(type, i, n + 1) = None /\ ActiveOf(type, i, n + 1) = None
        /\ CurrentOf(type, i, n + 1) = 0 /\ TextOf(type, i, n + 1) = None
        /\ ActiveOf(type, i, n) = None /\ CurrentOf(type, i, n) = 0
        /\ TextOf(type, i, n) = None /\ OngoingOf(type, i, n) = None
    BY <1>2, <1>8 DEF BlocksOf, Made, Midway, InputTypes, TextTypes, InputsEnd, Length, OngoingOf, ActiveOf, CurrentOf, TextOf, input, thought, more, words
  <2>4. ParserAt(parser, i, type, n) => ParserAt(parser', i, type, n + 1) /\ OthersStay(i)
    BY <2>1, <2>2, <2>3, <1>2, <1>4, <1>5, <1>8 DEF ParserAt, OthersStay, Became
  <2>5. ASSUME NEW t, ParserAt(parser, i, type, n), Held(t, i, {}, FALSE)
        PROVE  Moves(t, <<p>>, i, {}, TRUE)
    <3> DEFINE u == Apply(t, p)
    <3>1. Allowed(t, p) /\ Held(u, i, {}, TRUE) /\ Elsewhere(t, u, i)
      BY <2>1, <2>5, <1>2, CallHolds DEF input
    <3> QED
      BY <3>1, MovesOne
  <2>6. Fits(p)
    BY <1>2, PartsFit, KindsAre
  <2> HIDE DEF p
  <2>7. FitsAll(<<p>>) /\ <<p>> \in Seq({p})
    BY <2>6, OutOne
  <2>8. ASSUME NEW t, ParserAt(parser, i, type, n), Held(t, i, BlocksOf(type, i, n), Made(type, n))
        PROVE  Moves(t, <<p>>, i, BlocksOf(type, i, n + 1), Made(type, n + 1))
    <3>1. Held(t, i, {}, FALSE)
      BY <2>8, <2>3
    <3> QED
      BY <3>1, <2>3, <2>5, <2>8
  <2>9. ParserTyped' /\ type = Type(i) /\ n = answer.sent[i] /\ Emit(<<p>>)
    BY <2>1, <2>2 DEF Became, type, n
  <2> QED
    BY <2>4, <2>7, <2>8, <2>9, <1>2, ItemKeeps
<1>9. CASE type = "message"
  <2> DEFINE p == Part("text-start", id)
  <2>1. parser' = [parser EXCEPT !.text = id] /\ Emit(<<p>>) /\ id = <<1, i, 0>>
    BY <1>9, <1>2 DEF OutputItemAdded, type, id, TextTypes
  <2>2. Became(parser.ongoing, parser.active, parser.current, id)
    BY <2>1, <1>2, SetText
  <2>3. /\ BlocksOf(type, i, n) = {} /\ Made(type, n) = FALSE
        /\ BlocksOf(type, i, n + 1) = {words} /\ Made(type, n + 1) = FALSE
        /\ OngoingOf(type, i, n + 1) = None /\ ActiveOf(type, i, n + 1) = None
        /\ CurrentOf(type, i, n + 1) = 0 /\ TextOf(type, i, n + 1) = id
        /\ ActiveOf(type, i, n) = None /\ CurrentOf(type, i, n) = 0
        /\ TextOf(type, i, n) = None /\ OngoingOf(type, i, n) = None
    BY <1>2, <1>9 DEF BlocksOf, Made, Midway, InputTypes, TextTypes, InputsEnd, Length, OngoingOf, ActiveOf, CurrentOf, TextOf, input, thought, more, words
  <2>4. ParserAt(parser, i, type, n) => ParserAt(parser', i, type, n + 1) /\ OthersStay(i)
    BY <2>1, <2>2, <2>3, <1>2, <1>4, <1>5, <1>9 DEF ParserAt, OthersStay, Became
  <2>5. ASSUME NEW t, ParserAt(parser, i, type, n), Held(t, i, {}, FALSE)
        PROVE  Moves(t, <<p>>, i, {words}, FALSE)
    <3> DEFINE u == Apply(t, p)
    <3>1. Allowed(t, p) /\ Held(u, i, {words}, FALSE) /\ Elsewhere(t, u, i)
      <4>1. "text-start" \in StartTypes /\ KindOf("text-start") = "text"
        BY KindsAre
      <4>2. id \in Ids /\ id[2] = i /\ Held(t, i, {}, FALSE)
        BY <1>2, <2>5
      <4>3. words = <<"text", id>> /\ words \notin {} /\ {words} = {} \cup {words}
        BY <2>1 DEF input, thought, more, words
      <4> QED
        BY <4>1, <4>2, <4>3, StartHolds
    <3> QED
      BY <3>1, MovesOne
  <2>6. Fits(p)
    BY <1>2, PartsFit, KindsAre
  <2> HIDE DEF p
  <2>7. FitsAll(<<p>>) /\ <<p>> \in Seq({p})
    BY <2>6, OutOne
  <2>8. ASSUME NEW t, ParserAt(parser, i, type, n), Held(t, i, BlocksOf(type, i, n), Made(type, n))
        PROVE  Moves(t, <<p>>, i, BlocksOf(type, i, n + 1), Made(type, n + 1))
    <3>1. Held(t, i, {}, FALSE)
      BY <2>8, <2>3
    <3> QED
      BY <3>1, <2>3, <2>5, <2>8
  <2>9. ParserTyped' /\ type = Type(i) /\ n = answer.sent[i] /\ Emit(<<p>>)
    BY <2>1, <2>2 DEF Became, type, n
  <2> QED
    BY <2>4, <2>7, <2>8, <2>9, <1>2, ItemKeeps
<1>10. CASE type = "reasoning"
  <2> DEFINE p == Part("reasoning-start", <<1, i, 0, 0>>)
  <2>0. [id |-> id, parts |-> <<0>>] \in Actives /\ id = <<1, i, 0>> /\ Append(id, 0) = <<1, i, 0, 0>>
    <3>0. id = <<1, i, 0>>
      BY <1>2, <1>10
    <3>1. <<0>> \in Seq(Nat)
      OBVIOUS
    <3> QED
      BY <3>0, <3>1, <1>2, AppendIs DEF Actives
  <2>1. parser' = [parser EXCEPT !.active[i] = [id |-> id, parts |-> <<0>>], !.current = i] /\ Emit(<<p>>) /\ id = <<1, i, 0>> /\ Append(id, 0) = <<1, i, 0, 0>>
    BY <1>10, <1>2, <2>0 DEF OutputItemAdded, type, id, TextTypes
  <2>2. Became(parser.ongoing, [parser.active EXCEPT ![i] = [id |-> id, parts |-> <<0>>]], i, parser.text)
    BY <2>1, <1>2, <2>0, SetActive
  <2>3. /\ BlocksOf(type, i, n) = {} /\ Made(type, n) = FALSE
        /\ BlocksOf(type, i, n + 1) = {thought} /\ Made(type, n + 1) = FALSE
        /\ OngoingOf(type, i, n + 1) = None /\ ActiveOf(type, i, n + 1) = [id |-> id, parts |-> <<0>>]
        /\ CurrentOf(type, i, n + 1) = i /\ TextOf(type, i, n + 1) = None
        /\ ActiveOf(type, i, n) = None /\ CurrentOf(type, i, n) = 0
        /\ TextOf(type, i, n) = None /\ OngoingOf(type, i, n) = None
    BY <1>2, <1>10 DEF BlocksOf, Made, Midway, InputTypes, TextTypes, InputsEnd, Length, OngoingOf, ActiveOf, CurrentOf, TextOf, input, thought, more, words
  <2>4. ParserAt(parser, i, type, n) => ParserAt(parser', i, type, n + 1) /\ OthersStay(i)
    BY <2>1, <2>2, <2>3, <1>2, <1>4, <1>5, <1>10 DEF ParserAt, OthersStay, Became
  <2>5. ASSUME NEW t, ParserAt(parser, i, type, n), Held(t, i, {}, FALSE)
        PROVE  Moves(t, <<p>>, i, {thought}, FALSE)
    <3> DEFINE u == Apply(t, p)
    <3>1. Allowed(t, p) /\ Held(u, i, {thought}, FALSE) /\ Elsewhere(t, u, i)
      <4>1. "reasoning-start" \in StartTypes /\ KindOf("reasoning-start") = "reasoning"
        BY KindsAre
      <4>2. <<1, i, 0, 0>> \in Ids /\ <<1, i, 0, 0>>[2] = i /\ Held(t, i, {}, FALSE)
        BY <1>2, <1>3, <2>5 DEF words, type
      <4>3. thought = <<"reasoning", <<1, i, 0, 0>>>> /\ thought \notin {} /\ {thought} = {} \cup {thought}
        BY <2>1 DEF input, thought, more, words
      <4> QED
        BY <4>1, <4>2, <4>3, StartHolds
    <3> QED
      BY <3>1, MovesOne
  <2>6. Fits(p)
    BY <1>2, PartsFit, KindsAre, <1>3
  <2> HIDE DEF p
  <2>7. FitsAll(<<p>>) /\ <<p>> \in Seq({p})
    BY <2>6, OutOne
  <2>8. ASSUME NEW t, ParserAt(parser, i, type, n), Held(t, i, BlocksOf(type, i, n), Made(type, n))
        PROVE  Moves(t, <<p>>, i, BlocksOf(type, i, n + 1), Made(type, n + 1))
    <3>1. Held(t, i, {}, FALSE)
      BY <2>8, <2>3
    <3> QED
      BY <3>1, <2>3, <2>5, <2>8
  <2>9. ParserTyped' /\ type = Type(i) /\ n = answer.sent[i] /\ Emit(<<p>>)
    BY <2>1, <2>2 DEF Became, type, n
  <2> QED
    BY <2>4, <2>7, <2>8, <2>9, <1>2, ItemKeeps
<1>11. CASE type = "local_shell_call"
  <2>1. parser' = parser /\ Emit(<<>>)
    BY <1>11, <1>2, EmitNone DEF OutputItemAdded, type, id, TextTypes
  <2>2. Became(parser.ongoing, parser.active, parser.current, parser.text)
    BY <2>1, <1>2, SetNothing
  <2>3. /\ BlocksOf(type, i, n) = {} /\ Made(type, n) = FALSE
        /\ BlocksOf(type, i, n + 1) = {} /\ Made(type, n + 1) = FALSE
        /\ OngoingOf(type, i, n + 1) = None /\ ActiveOf(type, i, n + 1) = None
        /\ CurrentOf(type, i, n + 1) = 0 /\ TextOf(type, i, n + 1) = None
        /\ ActiveOf(type, i, n) = None /\ CurrentOf(type, i, n) = 0
        /\ TextOf(type, i, n) = None /\ OngoingOf(type, i, n) = None
    BY <1>2, <1>11 DEF BlocksOf, Made, Midway, InputTypes, TextTypes, InputsEnd, Length, OngoingOf, ActiveOf, CurrentOf, TextOf, input, thought, more, words
  <2>4. ParserAt(parser, i, type, n) => ParserAt(parser', i, type, n + 1) /\ OthersStay(i)
    BY <2>1, <2>2, <2>3, <1>2, <1>4, <1>5, <1>11 DEF ParserAt, OthersStay, Became
  <2>5. ASSUME NEW t, ParserAt(parser, i, type, n), Held(t, i, {}, FALSE)
        PROVE  Moves(t, <<>>, i, {}, FALSE)
    BY <2>5, MovesNone
  <2>7. FitsAll(<<>>) /\ <<>> \in Seq({})
    BY OutNone
  <2>8. ASSUME NEW t, ParserAt(parser, i, type, n), Held(t, i, BlocksOf(type, i, n), Made(type, n))
        PROVE  Moves(t, <<>>, i, BlocksOf(type, i, n + 1), Made(type, n + 1))
    <3>1. Held(t, i, {}, FALSE)
      BY <2>8, <2>3
    <3> QED
      BY <3>1, <2>3, <2>5, <2>8
  <2>9. ParserTyped' /\ type = Type(i) /\ n = answer.sent[i] /\ Emit(<<>>)
    BY <2>1, <2>2 DEF Became, type, n
  <2> QED
    BY <2>4, <2>7, <2>8, <2>9, <1>2, ItemKeeps
<1> QED
  BY <1>6, <1>7, <1>8, <1>9, <1>10, <1>11, <1>2 DEF ItemTypes, InputTypes, TextTypes

LEMMA DoneKeeps ==
  ASSUME ResponsesInv, NEW i \in Items, OutputItemDone(i)
  PROVE  ResponsesInv'
<1> DEFINE type == Type(i)
           n == answer.sent[i]
           id == ItemId(i)
           input == <<"tool-input", <<1, i>>>>
           words == <<"text", <<1, i, 0>>>>
           thought == <<"reasoning", <<1, i, 0, 0>>>>
           more == <<"reasoning", <<1, i, 0, 1>>>>
<1>1. Chunk(i, {"done"})
  BY DEF OutputItemDone
<1>2. /\ MaySend(i) /\ UNCHANGED view /\ answer' = [answer EXCEPT !.sent[i] = @ + 1]
      /\ Items' = Items /\ i \in Nat \ {0} /\ ParserTyped /\ queue = <<>>
      /\ type \in ItemTypes /\ n \in Nat /\ n = Length(type) - 1
      /\ id = (IF type \in TextTypes \cup {"reasoning"} THEN <<1, i, n>> ELSE <<1, i>>)
      /\ id \in Ids /\ <<1, i>> \in Ids /\ id[2] = i /\ CallId(i) = <<1, i>>
  BY <1>1, ChunkNow DEF Placed
<1>3. <<1, i, 0>> \in Ids /\ <<1, i, 0, 0>> \in Ids /\ <<1, i, 0, 1>> \in Ids
  BY <1>2 DEF Ids, None
<1>4. \A k \in Ids : k # None
  BY DEF Ids
<1>5. /\ parser.ongoing \in [Items -> Ids \cup {None}] /\ parser.active \in [Items -> Actives]
      /\ parser.current \in Items \cup {0} /\ parser.text \in Ids \cup {None}
  BY <1>2, ParserIs
<1> HIDE DEF type, n, id, input, words, thought, more
<1>6. CASE type = "function_call"
  <2> DEFINE p == Part("tool-input-end", <<1, i>>)
             r == PartOf("tool-call", <<1, i>>, CallData(type))
  <2>1. parser' = [parser EXCEPT !.ongoing[i] = None, !.hasFunctionCall = TRUE] /\ Emit(<<p, r>>)
    BY <1>6, <1>2 DEF OutputItemDone, type, id, TextTypes, InputEnd, CallPart
  <2>2. Became([parser.ongoing EXCEPT ![i] = None], parser.active, parser.current, parser.text)
    BY <2>1, <1>2, SetOngoing
  <2>3. /\ BlocksOf(type, i, n) = {input} /\ Made(type, n) = FALSE
        /\ BlocksOf(type, i, n + 1) = {} /\ Made(type, n + 1) = TRUE
        /\ OngoingOf(type, i, n + 1) = None /\ ActiveOf(type, i, n + 1) = None
        /\ CurrentOf(type, i, n + 1) = 0 /\ TextOf(type, i, n + 1) = None
        /\ ActiveOf(type, i, n) = None /\ CurrentOf(type, i, n) = 0
        /\ TextOf(type, i, n) = None
    BY <1>2, <1>6 DEF BlocksOf, Made, Midway, InputTypes, TextTypes, InputsEnd, Length, OngoingOf, ActiveOf, CurrentOf, TextOf, input, thought, more, words
  <2>4. ParserAt(parser, i, type, n) => ParserAt(parser', i, type, n + 1) /\ OthersStay(i)
    BY <2>1, <2>2, <2>3, <1>2, <1>4, <1>5, <1>6 DEF ParserAt, OthersStay, Became
  <2>5. ASSUME NEW t, ParserAt(parser, i, type, n), Held(t, i, {input}, FALSE)
        PROVE  Moves(t, <<p, r>>, i, {}, TRUE)
    <3> DEFINE u == Apply(t, p)
               v == Apply(u, r)
    <3>1. Allowed(t, p) /\ Held(u, i, {}, FALSE) /\ Elsewhere(t, u, i)
      <4>1. "tool-input-end" \in EndTypes /\ KindOf("tool-input-end") = "tool-input"
        BY KindsAre
      <4>2. <<1, i>> \in Ids /\ <<1, i>>[2] = i /\ Held(t, i, {input}, FALSE)
        BY <1>2, <2>5
      <4>3. input = <<"tool-input", <<1, i>>>> /\ input \in {input} /\ {} = {input} \ {input}
        BY <2>1 DEF input, thought, more, words
      <4> QED
        BY <4>1, <4>2, <4>3, EndHolds
    <3>2. Allowed(u, r) /\ Held(v, i, {}, TRUE) /\ Elsewhere(u, v, i)
      BY <2>1, <3>1, <1>2, CallHolds DEF input
    <3> QED
      BY <3>1, <3>2, MovesTwo
  <2>6. Fits(p) /\ Fits(r)
    BY <1>2, PartsFit, KindsAre
  <2> HIDE DEF p, r
  <2>7. FitsAll(<<p, r>>) /\ <<p, r>> \in Seq({p, r})
    BY <2>6, OutTwo
  <2>8. ASSUME NEW t, ParserAt(parser, i, type, n), Held(t, i, BlocksOf(type, i, n), Made(type, n))
        PROVE  Moves(t, <<p, r>>, i, BlocksOf(type, i, n + 1), Made(type, n + 1))
    <3>1. Held(t, i, {input}, FALSE)
      BY <2>8, <2>3
    <3> QED
      BY <3>1, <2>3, <2>5, <2>8
  <2>9. ParserTyped' /\ type = Type(i) /\ n = answer.sent[i] /\ Emit(<<p, r>>)
    BY <2>1, <2>2 DEF Became, type, n
  <2> QED
    BY <2>4, <2>7, <2>8, <2>9, <1>2, ItemKeeps
<1>7. CASE type \in {"web_search_call", "computer_call"}
  <2> DEFINE p == Part("tool-input-end", <<1, i>>)
             r == PartOf("tool-call", <<1, i>>, CallData(type))
             x == PartOf("tool-result", <<1, i>>, <<ToolName(type), "final">>)
  <2>1. parser' = [parser EXCEPT !.ongoing[i] = None] /\ Emit(<<p, r, x>>) /\ id = <<1, i>>
    BY <1>7, <1>2 DEF OutputItemDone, type, id, TextTypes, InputEnd, CallPart, ResultPart
  <2>2. Became([parser.ongoing EXCEPT ![i] = None], parser.active, parser.current, parser.text)
    BY <2>1, <1>2, OngoingSet
  <2>3. /\ BlocksOf(type, i, n) = {input} /\ Made(type, n) = FALSE
        /\ BlocksOf(type, i, n + 1) = {} /\ Made(type, n + 1) = TRUE
        /\ OngoingOf(type, i, n + 1) = None /\ ActiveOf(type, i, n + 1) = None
        /\ CurrentOf(type, i, n + 1) = 0 /\ TextOf(type, i, n + 1) = None
        /\ ActiveOf(type, i, n) = None /\ CurrentOf(type, i, n) = 0
        /\ TextOf(type, i, n) = None
    BY <1>2, <1>7 DEF BlocksOf, Made, Midway, InputTypes, TextTypes, InputsEnd, Length, OngoingOf, ActiveOf, CurrentOf, TextOf, input, thought, more, words
  <2>4. ParserAt(parser, i, type, n) => ParserAt(parser', i, type, n + 1) /\ OthersStay(i)
    BY <2>1, <2>2, <2>3, <1>2, <1>4, <1>5, <1>7 DEF ParserAt, OthersStay, Became
  <2>5. ASSUME NEW t, ParserAt(parser, i, type, n), Held(t, i, {input}, FALSE)
        PROVE  Moves(t, <<p, r, x>>, i, {}, TRUE)
    <3> DEFINE u == Apply(t, p)
               v == Apply(u, r)
               w == Apply(v, x)
    <3>1. Allowed(t, p) /\ Held(u, i, {}, FALSE) /\ Elsewhere(t, u, i)
      <4>1. "tool-input-end" \in EndTypes /\ KindOf("tool-input-end") = "tool-input"
        BY KindsAre
      <4>2. <<1, i>> \in Ids /\ <<1, i>>[2] = i /\ Held(t, i, {input}, FALSE)
        BY <1>2, <2>5
      <4>3. input = <<"tool-input", <<1, i>>>> /\ input \in {input} /\ {} = {input} \ {input}
        BY <2>1 DEF input, thought, more, words
      <4> QED
        BY <4>1, <4>2, <4>3, EndHolds
    <3>2. Allowed(u, r) /\ Held(v, i, {}, TRUE) /\ Elsewhere(u, v, i)
      BY <2>1, <3>1, <1>2, CallHolds DEF input
    <3>3. Allowed(v, x) /\ Held(w, i, {}, TRUE) /\ Elsewhere(v, w, i)
      BY <2>1, <3>2, <1>2, ResultHolds
    <3> QED
      BY <3>1, <3>2, <3>3, MovesThree
  <2>6. Fits(p) /\ Fits(r) /\ Fits(x)
    BY <1>2, PartsFit, KindsAre
  <2> HIDE DEF p, r, x
  <2>7. FitsAll(<<p, r, x>>) /\ <<p, r, x>> \in Seq({p, r, x})
    BY <2>6, OutThree
  <2>8. ASSUME NEW t, ParserAt(parser, i, type, n), Held(t, i, BlocksOf(type, i, n), Made(type, n))
        PROVE  Moves(t, <<p, r, x>>, i, BlocksOf(type, i, n + 1), Made(type, n + 1))
    <3>1. Held(t, i, {input}, FALSE)
      BY <2>8, <2>3
    <3> QED
      BY <3>1, <2>3, <2>5, <2>8
  <2>9. ParserTyped' /\ type = Type(i) /\ n = answer.sent[i] /\ Emit(<<p, r, x>>)
    BY <2>1, <2>2 DEF Became, type, n
  <2> QED
    BY <2>4, <2>7, <2>8, <2>9, <1>2, ItemKeeps
<1>8. CASE type \in {"file_search_call", "code_interpreter_call"}
  <2> DEFINE p == PartOf("tool-result", <<1, i>>, <<ToolName(type), "final">>)
  <2>1. parser' = [parser EXCEPT !.ongoing[i] = None] /\ Emit(<<p>>) /\ id = <<1, i>>
    BY <1>8, <1>2 DEF OutputItemDone, type, id, TextTypes, ResultPart
  <2>2. Became([parser.ongoing EXCEPT ![i] = None], parser.active, parser.current, parser.text)
    BY <2>1, <1>2, OngoingSet
  <2>3. /\ BlocksOf(type, i, n) = {} /\ Made(type, n) = TRUE
        /\ BlocksOf(type, i, n + 1) = {} /\ Made(type, n + 1) = TRUE
        /\ OngoingOf(type, i, n + 1) = None /\ ActiveOf(type, i, n + 1) = None
        /\ CurrentOf(type, i, n + 1) = 0 /\ TextOf(type, i, n + 1) = None
        /\ ActiveOf(type, i, n) = None /\ CurrentOf(type, i, n) = 0
        /\ TextOf(type, i, n) = None
    BY <1>2, <1>8 DEF BlocksOf, Made, Midway, InputTypes, TextTypes, InputsEnd, Length, OngoingOf, ActiveOf, CurrentOf, TextOf, input, thought, more, words
  <2>4. ParserAt(parser, i, type, n) => ParserAt(parser', i, type, n + 1) /\ OthersStay(i)
    BY <2>1, <2>2, <2>3, <1>2, <1>4, <1>5, <1>8 DEF ParserAt, OthersStay, Became
  <2>5. ASSUME NEW t, ParserAt(parser, i, type, n), Held(t, i, {}, TRUE)
        PROVE  Moves(t, <<p>>, i, {}, TRUE)
    <3> DEFINE u == Apply(t, p)
    <3>1. Allowed(t, p) /\ Held(u, i, {}, TRUE) /\ Elsewhere(t, u, i)
      BY <2>1, <2>5, <1>2, ResultHolds
    <3> QED
      BY <3>1, MovesOne
  <2>6. Fits(p)
    BY <1>2, PartsFit, KindsAre
  <2> HIDE DEF p
  <2>7. FitsAll(<<p>>) /\ <<p>> \in Seq({p})
    BY <2>6, OutOne
  <2>8. ASSUME NEW t, ParserAt(parser, i, type, n), Held(t, i, BlocksOf(type, i, n), Made(type, n))
        PROVE  Moves(t, <<p>>, i, BlocksOf(type, i, n + 1), Made(type, n + 1))
    <3>1. Held(t, i, {}, TRUE)
      BY <2>8, <2>3
    <3> QED
      BY <3>1, <2>3, <2>5, <2>8
  <2>9. ParserTyped' /\ type = Type(i) /\ n = answer.sent[i] /\ Emit(<<p>>)
    BY <2>1, <2>2 DEF Became, type, n
  <2> QED
    BY <2>4, <2>7, <2>8, <2>9, <1>2, ItemKeeps
<1>9. CASE type = "image_generation_call"
  <2> DEFINE p == PartOf("tool-result", <<1, i>>, <<ToolName(type), "final">>)
  <2>1. parser' = parser /\ Emit(<<p>>) /\ id = <<1, i>>
    BY <1>9, <1>2 DEF OutputItemDone, type, id, TextTypes, ResultPart
  <2>2. Became(parser.ongoing, parser.active, parser.current, parser.text)
    BY <2>1, <1>2, SetNothing
  <2>3. /\ BlocksOf(type, i, n) = {} /\ Made(type, n) = TRUE
        /\ BlocksOf(type, i, n + 1) = {} /\ Made(type, n + 1) = TRUE
        /\ OngoingOf(type, i, n + 1) = None /\ ActiveOf(type, i, n + 1) = None
        /\ CurrentOf(type, i, n + 1) = 0 /\ TextOf(type, i, n + 1) = None
        /\ ActiveOf(type, i, n) = None /\ CurrentOf(type, i, n) = 0
        /\ TextOf(type, i, n) = None /\ OngoingOf(type, i, n) = None
    BY <1>2, <1>9 DEF BlocksOf, Made, Midway, InputTypes, TextTypes, InputsEnd, Length, OngoingOf, ActiveOf, CurrentOf, TextOf, input, thought, more, words
  <2>4. ParserAt(parser, i, type, n) => ParserAt(parser', i, type, n + 1) /\ OthersStay(i)
    BY <2>1, <2>2, <2>3, <1>2, <1>4, <1>5, <1>9 DEF ParserAt, OthersStay, Became
  <2>5. ASSUME NEW t, ParserAt(parser, i, type, n), Held(t, i, {}, TRUE)
        PROVE  Moves(t, <<p>>, i, {}, TRUE)
    <3> DEFINE u == Apply(t, p)
    <3>1. Allowed(t, p) /\ Held(u, i, {}, TRUE) /\ Elsewhere(t, u, i)
      BY <2>1, <2>5, <1>2, ResultHolds
    <3> QED
      BY <3>1, MovesOne
  <2>6. Fits(p)
    BY <1>2, PartsFit, KindsAre
  <2> HIDE DEF p
  <2>7. FitsAll(<<p>>) /\ <<p>> \in Seq({p})
    BY <2>6, OutOne
  <2>8. ASSUME NEW t, ParserAt(parser, i, type, n), Held(t, i, BlocksOf(type, i, n), Made(type, n))
        PROVE  Moves(t, <<p>>, i, BlocksOf(type, i, n + 1), Made(type, n + 1))
    <3>1. Held(t, i, {}, TRUE)
      BY <2>8, <2>3
    <3> QED
      BY <3>1, <2>3, <2>5, <2>8
  <2>9. ParserTyped' /\ type = Type(i) /\ n = answer.sent[i] /\ Emit(<<p>>)
    BY <2>1, <2>2 DEF Became, type, n
  <2> QED
    BY <2>4, <2>7, <2>8, <2>9, <1>2, ItemKeeps
<1>10. CASE type = "local_shell_call"
  <2> DEFINE p == PartOf("tool-call", <<1, i>>, CallData(type))
  <2>1. parser' = [parser EXCEPT !.ongoing[i] = None] /\ Emit(<<p>>)
    BY <1>10, <1>2 DEF OutputItemDone, type, id, TextTypes, CallPart
  <2>2. Became([parser.ongoing EXCEPT ![i] = None], parser.active, parser.current, parser.text)
    BY <2>1, <1>2, OngoingSet
  <2>3. /\ BlocksOf(type, i, n) = {} /\ Made(type, n) = FALSE
        /\ BlocksOf(type, i, n + 1) = {} /\ Made(type, n + 1) = TRUE
        /\ OngoingOf(type, i, n + 1) = None /\ ActiveOf(type, i, n + 1) = None
        /\ CurrentOf(type, i, n + 1) = 0 /\ TextOf(type, i, n + 1) = None
        /\ ActiveOf(type, i, n) = None /\ CurrentOf(type, i, n) = 0
        /\ TextOf(type, i, n) = None
    BY <1>2, <1>10 DEF BlocksOf, Made, Midway, InputTypes, TextTypes, InputsEnd, Length, OngoingOf, ActiveOf, CurrentOf, TextOf, input, thought, more, words
  <2>4. ParserAt(parser, i, type, n) => ParserAt(parser', i, type, n + 1) /\ OthersStay(i)
    BY <2>1, <2>2, <2>3, <1>2, <1>4, <1>5, <1>10 DEF ParserAt, OthersStay, Became
  <2>5. ASSUME NEW t, ParserAt(parser, i, type, n), Held(t, i, {}, FALSE)
        PROVE  Moves(t, <<p>>, i, {}, TRUE)
    <3> DEFINE u == Apply(t, p)
    <3>1. Allowed(t, p) /\ Held(u, i, {}, TRUE) /\ Elsewhere(t, u, i)
      BY <2>1, <2>5, <1>2, CallHolds DEF input
    <3> QED
      BY <3>1, MovesOne
  <2>6. Fits(p)
    BY <1>2, PartsFit, KindsAre
  <2> HIDE DEF p
  <2>7. FitsAll(<<p>>) /\ <<p>> \in Seq({p})
    BY <2>6, OutOne
  <2>8. ASSUME NEW t, ParserAt(parser, i, type, n), Held(t, i, BlocksOf(type, i, n), Made(type, n))
        PROVE  Moves(t, <<p>>, i, BlocksOf(type, i, n + 1), Made(type, n + 1))
    <3>1. Held(t, i, {}, FALSE)
      BY <2>8, <2>3
    <3> QED
      BY <3>1, <2>3, <2>5, <2>8
  <2>9. ParserTyped' /\ type = Type(i) /\ n = answer.sent[i] /\ Emit(<<p>>)
    BY <2>1, <2>2 DEF Became, type, n
  <2> QED
    BY <2>4, <2>7, <2>8, <2>9, <1>2, ItemKeeps
<1>11. CASE type \in {"message", "bare_message"} /\ parser.text # None
  <2> DEFINE p == Part("text-end", parser.text)
  <2>0. ParserAt(parser, i, type, n) => parser.text = <<1, i, 0>> /\ parser.text[2] = i
    BY <1>2, <1>11 DEF ParserAt, TextOf, TextTypes, Midway, Length
  <2>1. parser' = [parser EXCEPT !.text = None] /\ Emit(<<p>>) /\ parser.text \in Ids
    BY <1>11, <1>2, <1>5 DEF OutputItemDone, type, id, TextTypes
  <2>2. Became(parser.ongoing, parser.active, parser.current, None)
    BY <2>1, <1>2, SetText
  <2>3. /\ BlocksOf(type, i, n) = {words} /\ Made(type, n) = FALSE
        /\ BlocksOf(type, i, n + 1) = {} /\ Made(type, n + 1) = FALSE
        /\ OngoingOf(type, i, n + 1) = None /\ ActiveOf(type, i, n + 1) = None
        /\ CurrentOf(type, i, n + 1) = 0 /\ TextOf(type, i, n + 1) = None
        /\ ActiveOf(type, i, n) = None /\ CurrentOf(type, i, n) = 0
        /\ TextOf(type, i, n) = <<1, i, 0>> /\ OngoingOf(type, i, n) = None
    BY <1>2, <1>11 DEF BlocksOf, Made, Midway, InputTypes, TextTypes, InputsEnd, Length, OngoingOf, ActiveOf, CurrentOf, TextOf, input, thought, more, words
  <2>4. ParserAt(parser, i, type, n) => ParserAt(parser', i, type, n + 1) /\ OthersStay(i)
    BY <2>1, <2>2, <2>3, <1>2, <1>4, <1>5, <1>11, <2>0 DEF ParserAt, OthersStay, Became
  <2>5. ASSUME NEW t, ParserAt(parser, i, type, n), Held(t, i, {words}, FALSE)
        PROVE  Moves(t, <<p>>, i, {}, FALSE)
    <3> DEFINE u == Apply(t, p)
    <3>1. Allowed(t, p) /\ Held(u, i, {}, FALSE) /\ Elsewhere(t, u, i)
      <4>1. "text-end" \in EndTypes /\ KindOf("text-end") = "text"
        BY KindsAre
      <4>2. parser.text \in Ids /\ parser.text[2] = i /\ Held(t, i, {words}, FALSE)
        BY <2>1, <2>0, <2>5 DEF words, type
      <4>3. words = <<"text", parser.text>> /\ words \in {words} /\ {} = {words} \ {words}
        BY <2>0, <2>5 DEF input, thought, more, words
      <4> QED
        BY <4>1, <4>2, <4>3, EndHolds
    <3> QED
      BY <3>1, MovesOne
  <2>6. Fits(p)
    BY <1>2, PartsFit, KindsAre, <2>1
  <2> HIDE DEF p
  <2>7. FitsAll(<<p>>) /\ <<p>> \in Seq({p})
    BY <2>6, OutOne
  <2>8. ASSUME NEW t, ParserAt(parser, i, type, n), Held(t, i, BlocksOf(type, i, n), Made(type, n))
        PROVE  Moves(t, <<p>>, i, BlocksOf(type, i, n + 1), Made(type, n + 1))
    <3>1. Held(t, i, {words}, FALSE)
      BY <2>8, <2>3
    <3> QED
      BY <3>1, <2>3, <2>5, <2>8
  <2>9. ParserTyped' /\ type = Type(i) /\ n = answer.sent[i] /\ Emit(<<p>>)
    BY <2>1, <2>2 DEF Became, type, n
  <2> QED
    BY <2>4, <2>7, <2>8, <2>9, <1>2, ItemKeeps
<1>12. CASE type \in {"message", "bare_message"} /\ parser.text = None
  <2>0. ParserAt(parser, i, type, n) => parser.text = <<1, i, 0>> /\ parser.text[2] = i
    BY <1>2, <1>12 DEF ParserAt, TextOf, TextTypes, Midway, Length
  <2>1. parser' = parser /\ Emit(<<>>)
    BY <1>12, <1>2, EmitNone DEF OutputItemDone, type, id, TextTypes
  <2>2. Became(parser.ongoing, parser.active, parser.current, parser.text)
    BY <2>1, <1>2, SetNothing
  <2>3. /\ BlocksOf(type, i, n) = {words} /\ Made(type, n) = FALSE
        /\ BlocksOf(type, i, n + 1) = {} /\ Made(type, n + 1) = FALSE
        /\ OngoingOf(type, i, n + 1) = None /\ ActiveOf(type, i, n + 1) = None
        /\ CurrentOf(type, i, n + 1) = 0 /\ TextOf(type, i, n + 1) = None
        /\ ActiveOf(type, i, n) = None /\ CurrentOf(type, i, n) = 0
        /\ TextOf(type, i, n) = <<1, i, 0>> /\ OngoingOf(type, i, n) = None
    BY <1>2, <1>12 DEF BlocksOf, Made, Midway, InputTypes, TextTypes, InputsEnd, Length, OngoingOf, ActiveOf, CurrentOf, TextOf, input, thought, more, words
  <2>4. ParserAt(parser, i, type, n) => ParserAt(parser', i, type, n + 1) /\ OthersStay(i)
    BY <2>1, <2>2, <2>3, <1>2, <1>4, <1>5, <1>12, <2>0 DEF ParserAt, OthersStay, Became
  <2>5. ASSUME NEW t, ParserAt(parser, i, type, n), Held(t, i, {words}, FALSE)
        PROVE  Moves(t, <<>>, i, {}, FALSE)
    BY <2>5, <2>0, <1>12, <1>3, <1>4
  <2>7. FitsAll(<<>>) /\ <<>> \in Seq({})
    BY OutNone
  <2>8. ASSUME NEW t, ParserAt(parser, i, type, n), Held(t, i, BlocksOf(type, i, n), Made(type, n))
        PROVE  Moves(t, <<>>, i, BlocksOf(type, i, n + 1), Made(type, n + 1))
    <3>1. Held(t, i, {words}, FALSE)
      BY <2>8, <2>3
    <3> QED
      BY <3>1, <2>3, <2>5, <2>8
  <2>9. ParserTyped' /\ type = Type(i) /\ n = answer.sent[i] /\ Emit(<<>>)
    BY <2>1, <2>2 DEF Became, type, n
  <2> QED
    BY <2>4, <2>7, <2>8, <2>9, <1>2, ItemKeeps
<1>13. CASE type = "reasoning" /\ parser.active[i] # None
  <2> DEFINE a == parser.active[i]
             S == {Part("reasoning-end", x) : x \in Ids}
             out == [k \in DOMAIN a.parts |-> Part("reasoning-end", Append(a.id, a.parts[k]))]
             p == Part("reasoning-end", <<1, i, 0, 0>>)
             r == Part("reasoning-end", <<1, i, 0, 1>>)
             c == IF parser.current = i THEN 0 ELSE parser.current
  <2>0. a.id \in Ids /\ a.parts \in Seq(Nat) /\ c \in Items \cup {0} /\ None \in Actives
    BY <1>13, <1>5 DEF Actives
  <2>1. parser' = [parser EXCEPT !.active[i] = None, !.current = c] /\ Emit(out)
    BY <1>13, <1>2 DEF OutputItemDone, type, id, TextTypes, ReasoningId
  <2>2. Became(parser.ongoing, [parser.active EXCEPT ![i] = None], c, parser.text)
    BY <2>0, <2>1, <1>2, SetActive
  <2>3. /\ BlocksOf(type, i, n) = {thought, more} /\ Made(type, n) = FALSE
        /\ BlocksOf(type, i, n + 1) = {} /\ Made(type, n + 1) = FALSE
        /\ OngoingOf(type, i, n + 1) = None /\ ActiveOf(type, i, n + 1) = None
        /\ CurrentOf(type, i, n + 1) = 0 /\ TextOf(type, i, n + 1) = None
        /\ OngoingOf(type, i, n) = None /\ CurrentOf(type, i, n) = i /\ TextOf(type, i, n) = None
        /\ ActiveOf(type, i, n) = [id |-> <<1, i, 0>>, parts |-> <<0, 1>>]
    BY <1>2, <1>13 DEF BlocksOf, Made, Midway, InputTypes, TextTypes, InputsEnd, Length, OngoingOf, ActiveOf, CurrentOf, TextOf, input, thought, more, words
  <2>4. ParserAt(parser, i, type, n) => ParserAt(parser', i, type, n + 1) /\ OthersStay(i)
    BY <2>1, <2>2, <2>3, <1>2, <1>4, <1>5, <1>13 DEF ParserAt, OthersStay, Became
  <2>5. FitsAll(out) /\ out \in Seq(S) /\ Len(out) = Len(a.parts)
    <3>1. DOMAIN a.parts = 1..Len(a.parts) /\ Len(a.parts) \in Nat /\ \A k \in 1..Len(a.parts) : a.parts[k] \in Nat
      BY <2>0, LenProperties, ElementOfSeq
    <3>2. \A k \in 1..Len(a.parts) : Append(a.id, a.parts[k]) \in Ids
      BY <2>0, <3>1, AppendId
    <3>3. out \in [1..Len(a.parts) -> S]
      BY <3>1, <3>2
    <3>4. out \in Seq(S) /\ Len(out) = Len(a.parts)
      BY <3>1, <3>3, LenProperties
    <3>5. \A k \in 1..Len(out) : Fits(out[k])
      BY <3>1, <3>2, <3>4, PartsFit, KindsAre
    <3> QED
      BY <3>4, <3>5 DEF FitsAll
  <2>6. ParserAt(parser, i, type, n) => out = <<p, r>>
    <3> SUFFICES ASSUME ParserAt(parser, i, type, n) PROVE out = <<p, r>>
      OBVIOUS
    <3>1. a.id = <<1, i, 0>> /\ a.parts = <<0, 1>>
      BY <2>3 DEF ParserAt
    <3>2. DOMAIN a.parts = 1..2 /\ a.parts[1] = 0 /\ a.parts[2] = 1
      BY <3>1
    <3>3. Append(a.id, 0) = <<1, i, 0, 0>> /\ Append(a.id, 1) = <<1, i, 0, 1>>
      BY <3>1, AppendIs
    <3>4. Len(out) = 2 /\ out[1] = p /\ out[2] = r
      <4>1. Len(a.parts) = 2
        BY <3>1
      <4>2. out[1] = Part("reasoning-end", Append(a.id, a.parts[1])) /\ out[2] = Part("reasoning-end", Append(a.id, a.parts[2]))
        BY <3>2
      <4>3. Len(out) = 2
        BY <4>1, <2>5
      <4>4. out[1] = p /\ out[2] = r
        BY <4>2, <3>2, <3>3
      <4> QED
        BY <4>3, <4>4
    <3> HIDE DEF out, p, r, S
    <3> QED
      BY <2>5, <3>4, TwoIs
  <2>7. ASSUME NEW t, ParserAt(parser, i, type, n), Held(t, i, {thought, more}, FALSE)
        PROVE  Moves(t, <<p, r>>, i, {}, FALSE)
    <3> DEFINE u == Apply(t, p)
               v == Apply(u, r)
    <3>0. "reasoning-end" \in EndTypes /\ KindOf("reasoning-end") = "reasoning"
      BY KindsAre
    <3>1. Allowed(t, p) /\ Held(u, i, {more}, FALSE) /\ Elsewhere(t, u, i)
      <4>1. thought = <<"reasoning", <<1, i, 0, 0>>>> /\ thought \in {thought, more} /\ {more} = {thought, more} \ {thought}
        BY DEF thought, more
      <4> QED
        BY <3>0, <4>1, <2>7, <1>3, EndHolds
    <3>2. Allowed(u, r) /\ Held(v, i, {}, FALSE) /\ Elsewhere(u, v, i)
      <4>1. more = <<"reasoning", <<1, i, 0, 1>>>> /\ more \in {more} /\ {} = {more} \ {more}
        BY DEF more
      <4>2. <<1, i, 0, 1>> \in Ids /\ <<1, i, 0, 1>>[2] = i /\ Held(u, i, {more}, FALSE)
        BY <1>3, <3>1
      <4> QED
        BY <3>0, <4>1, <4>2, EndHolds
    <3> QED
      BY <3>1, <3>2, MovesTwo
  <2> HIDE DEF out, p, r, S
  <2>8. ASSUME NEW t, ParserAt(parser, i, type, n), Held(t, i, BlocksOf(type, i, n), Made(type, n))
        PROVE  Moves(t, out, i, BlocksOf(type, i, n + 1), Made(type, n + 1))
    <3>1. Held(t, i, {thought, more}, FALSE)
      BY <2>8, <2>3
    <3>2. Moves(t, <<p, r>>, i, {}, FALSE)
      BY <3>1, <2>7, <2>8
    <3> QED
      BY <3>2, <2>3, <2>6, <2>8
  <2>9. ParserTyped' /\ type = Type(i) /\ n = answer.sent[i] /\ Emit(out)
    BY <2>1, <2>2 DEF Became, type, n
  <2> QED
    BY <2>4, <2>5, <2>8, <2>9, <1>2, ItemKeeps
<1>14. CASE type = "reasoning" /\ parser.active[i] = None
  <2>0. ~ParserAt(parser, i, type, n)
    BY <1>2, <1>14 DEF ParserAt, ActiveOf, Midway, Length, None
  <2>1. parser' = parser /\ Emit(<<>>)
    BY <1>14, <1>2, EmitNone DEF OutputItemDone, type, id, TextTypes
  <2>2. Became(parser.ongoing, parser.active, parser.current, parser.text)
    BY <2>1, <1>2, SetNothing
  <2>3. /\ BlocksOf(type, i, n) = {thought, more} /\ Made(type, n) = FALSE
        /\ BlocksOf(type, i, n + 1) = {} /\ Made(type, n + 1) = FALSE
        /\ OngoingOf(type, i, n + 1) = None /\ ActiveOf(type, i, n + 1) = None
        /\ CurrentOf(type, i, n + 1) = 0 /\ TextOf(type, i, n + 1) = None
        /\ ActiveOf(type, i, n) = [id |-> <<1, i, 0>>, parts |-> <<0, 1>>] /\ CurrentOf(type, i, n) = i
        /\ TextOf(type, i, n) = None /\ OngoingOf(type, i, n) = None
    BY <1>2, <1>14 DEF BlocksOf, Made, Midway, InputTypes, TextTypes, InputsEnd, Length, OngoingOf, ActiveOf, CurrentOf, TextOf, input, thought, more, words
  <2>4. ParserAt(parser, i, type, n) => ParserAt(parser', i, type, n + 1) /\ OthersStay(i)
    BY <2>1, <2>2, <2>3, <1>2, <1>4, <1>5, <1>14, <2>0 DEF ParserAt, OthersStay, Became
  <2>5. ASSUME NEW t, ParserAt(parser, i, type, n), Held(t, i, {thought, more}, FALSE)
        PROVE  Moves(t, <<>>, i, {}, FALSE)
    BY <2>5, <2>0
  <2>7. FitsAll(<<>>) /\ <<>> \in Seq({})
    BY OutNone
  <2>8. ASSUME NEW t, ParserAt(parser, i, type, n), Held(t, i, BlocksOf(type, i, n), Made(type, n))
        PROVE  Moves(t, <<>>, i, BlocksOf(type, i, n + 1), Made(type, n + 1))
    <3>1. Held(t, i, {thought, more}, FALSE)
      BY <2>8, <2>3
    <3> QED
      BY <3>1, <2>3, <2>5, <2>8
  <2>9. ParserTyped' /\ type = Type(i) /\ n = answer.sent[i] /\ Emit(<<>>)
    BY <2>1, <2>2 DEF Became, type, n
  <2> QED
    BY <2>4, <2>7, <2>8, <2>9, <1>2, ItemKeeps
<1> QED
  BY <1>6, <1>7, <1>8, <1>9, <1>10, <1>11, <1>12, <1>13, <1>14, <1>2 DEF ItemTypes, InputTypes, TextTypes

LEMMA InputKeeps ==
  ASSUME ResponsesInv, NEW i \in Items, InputChunk(i)
  PROVE  ResponsesInv'
<1> DEFINE type == Type(i)
           n == answer.sent[i]
           id == ItemId(i)
           input == <<"tool-input", <<1, i>>>>
           words == <<"text", <<1, i, 0>>>>
           thought == <<"reasoning", <<1, i, 0, 0>>>>
           more == <<"reasoning", <<1, i, 0, 1>>>>
<1>1. Chunk(i, {"arguments_delta", "code_delta"})
  BY DEF InputChunk
<1>2. /\ MaySend(i) /\ UNCHANGED view /\ answer' = [answer EXCEPT !.sent[i] = @ + 1]
      /\ Items' = Items /\ i \in Nat \ {0} /\ ParserTyped /\ queue = <<>>
      /\ type \in ItemTypes /\ n \in Nat /\ n = 1 /\ type \in {"function_call", "code_interpreter_call"}
      /\ id = (IF type \in TextTypes \cup {"reasoning"} THEN <<1, i, n>> ELSE <<1, i>>)
      /\ id \in Ids /\ <<1, i>> \in Ids /\ id[2] = i /\ CallId(i) = <<1, i>>
  BY <1>1, ChunkNow DEF Placed
<1>3. <<1, i, 0>> \in Ids /\ <<1, i, 0, 0>> \in Ids /\ <<1, i, 0, 1>> \in Ids
  BY <1>2 DEF Ids, None
<1>4. \A k \in Ids : k # None
  BY DEF Ids
<1>5. /\ parser.ongoing \in [Items -> Ids \cup {None}] /\ parser.active \in [Items -> Actives]
      /\ parser.current \in Items \cup {0} /\ parser.text \in Ids \cup {None}
  BY <1>2, ParserIs
<1> HIDE DEF type, n, id, input, words, thought, more
<1>6. CASE parser.ongoing[i] # None
  <2> DEFINE p == Part("tool-input-delta", parser.ongoing[i])
  <2>0. /\ parser.ongoing[i] \in Ids
        /\ ParserAt(parser, i, type, n) => parser.ongoing[i] = <<1, i>> /\ parser.ongoing[i][2] = i
    <3>1. OngoingOf(type, i, n) = <<1, i>>
      BY <1>2 DEF OngoingOf, Midway, Length, InputTypes
    <3>2. parser.ongoing[i] \in Ids
      BY <1>5, <1>6
    <3> QED
      BY <3>1, <3>2 DEF ParserAt
  <2>1. parser' = parser /\ Emit(<<p>>)
    BY <1>6, <1>2 DEF InputChunk, InputDelta
  <2>2. Became(parser.ongoing, parser.active, parser.current, parser.text)
    BY <2>1, <1>2, SetNothing
  <2>3. /\ BlocksOf(type, i, n) = {input} /\ Made(type, n) = FALSE
        /\ BlocksOf(type, i, n + 1) = {input} /\ Made(type, n + 1) = FALSE
        /\ OngoingOf(type, i, n + 1) = <<1, i>> /\ ActiveOf(type, i, n + 1) = None
        /\ CurrentOf(type, i, n + 1) = 0 /\ TextOf(type, i, n + 1) = None
        /\ ActiveOf(type, i, n) = None /\ CurrentOf(type, i, n) = 0
        /\ TextOf(type, i, n) = None /\ OngoingOf(type, i, n) = <<1, i>>
    BY <1>2, <1>6 DEF BlocksOf, Made, Midway, InputTypes, TextTypes, InputsEnd, Length, OngoingOf, ActiveOf, CurrentOf, TextOf, input, thought, more, words
  <2>4. ParserAt(parser, i, type, n) => ParserAt(parser', i, type, n + 1) /\ OthersStay(i)
    BY <2>1, <2>2, <2>3, <1>2, <1>4, <1>5, <1>6 DEF ParserAt, OthersStay, Became
  <2>5. ASSUME NEW t, ParserAt(parser, i, type, n), Held(t, i, {input}, FALSE)
        PROVE  Moves(t, <<p>>, i, {input}, FALSE)
    <3> DEFINE u == Apply(t, p)
    <3>1. Allowed(t, p) /\ Held(u, i, {input}, FALSE) /\ Elsewhere(t, u, i)
      <4>1. "tool-input-delta" \in DeltaTypes /\ KindOf("tool-input-delta") = "tool-input"
        BY KindsAre
      <4>2. parser.ongoing[i] \in Ids /\ parser.ongoing[i][2] = i /\ Held(t, i, {input}, FALSE)
        BY <2>0, <2>5 DEF words, type
      <4>3. input = <<"tool-input", parser.ongoing[i]>> /\ input \in {input}
        BY <2>0, <2>5 DEF input, thought, more, words
      <4> QED
        BY <4>1, <4>2, <4>3, DeltaHolds
    <3> QED
      BY <3>1, MovesOne
  <2>6. Fits(p)
    BY <1>2, PartsFit, KindsAre, <2>0
  <2> HIDE DEF p
  <2>7. FitsAll(<<p>>) /\ <<p>> \in Seq({p})
    BY <2>6, OutOne
  <2>8. ASSUME NEW t, ParserAt(parser, i, type, n), Held(t, i, BlocksOf(type, i, n), Made(type, n))
        PROVE  Moves(t, <<p>>, i, BlocksOf(type, i, n + 1), Made(type, n + 1))
    <3>1. Held(t, i, {input}, FALSE)
      BY <2>8, <2>3
    <3> QED
      BY <3>1, <2>3, <2>5, <2>8
  <2>9. ParserTyped' /\ type = Type(i) /\ n = answer.sent[i] /\ Emit(<<p>>)
    BY <2>1, <2>2 DEF Became, type, n
  <2> QED
    BY <2>4, <2>7, <2>8, <2>9, <1>2, ItemKeeps
<1>7. CASE parser.ongoing[i] = None
  <2>0. ~ParserAt(parser, i, type, n)
    BY <1>2, <1>7 DEF ParserAt, OngoingOf, Midway, Length, None, TextTypes, InputTypes
  <2>1. parser' = parser /\ Emit(<<>>)
    BY <1>7, <1>2, <1>7, EmitNone DEF InputChunk
  <2>2. Became(parser.ongoing, parser.active, parser.current, parser.text)
    BY <2>1, <1>2, SetNothing
  <2>4. ParserAt(parser, i, type, n) => ParserAt(parser', i, type, n + 1) /\ OthersStay(i)
    BY <2>0
  <2>7. FitsAll(<<>>) /\ <<>> \in Seq({})
    BY OutNone
  <2>8. ASSUME NEW t, ParserAt(parser, i, type, n), Held(t, i, BlocksOf(type, i, n), Made(type, n))
        PROVE  Moves(t, <<>>, i, BlocksOf(type, i, n + 1), Made(type, n + 1))
    BY <2>0, <2>8
  <2>9. ParserTyped' /\ type = Type(i) /\ n = answer.sent[i] /\ Emit(<<>>)
    BY <2>1, <2>2 DEF Became, type, n
  <2> QED
    BY <2>4, <2>7, <2>8, <2>9, <1>2, ItemKeeps
<1> QED
  BY <1>6, <1>7, <1>2 DEF ItemTypes

LEMMA CodeKeeps ==
  ASSUME ResponsesInv, NEW i \in Items, CodeDone(i)
  PROVE  ResponsesInv'
<1> DEFINE type == Type(i)
           n == answer.sent[i]
           id == ItemId(i)
           input == <<"tool-input", <<1, i>>>>
           words == <<"text", <<1, i, 0>>>>
           thought == <<"reasoning", <<1, i, 0, 0>>>>
           more == <<"reasoning", <<1, i, 0, 1>>>>
<1>1. Chunk(i, {"code_done"})
  BY DEF CodeDone
<1>2. /\ MaySend(i) /\ UNCHANGED view /\ answer' = [answer EXCEPT !.sent[i] = @ + 1]
      /\ Items' = Items /\ i \in Nat \ {0} /\ ParserTyped /\ queue = <<>>
      /\ type \in ItemTypes /\ n \in Nat /\ n = 2 /\ type = "code_interpreter_call"
      /\ id = (IF type \in TextTypes \cup {"reasoning"} THEN <<1, i, n>> ELSE <<1, i>>)
      /\ id \in Ids /\ <<1, i>> \in Ids /\ id[2] = i /\ CallId(i) = <<1, i>>
  BY <1>1, ChunkNow DEF Placed
<1>3. <<1, i, 0>> \in Ids /\ <<1, i, 0, 0>> \in Ids /\ <<1, i, 0, 1>> \in Ids
  BY <1>2 DEF Ids, None
<1>4. \A k \in Ids : k # None
  BY DEF Ids
<1>5. /\ parser.ongoing \in [Items -> Ids \cup {None}] /\ parser.active \in [Items -> Actives]
      /\ parser.current \in Items \cup {0} /\ parser.text \in Ids \cup {None}
  BY <1>2, ParserIs
<1> HIDE DEF type, n, id, input, words, thought, more
<1>6. CASE parser.ongoing[i] # None
  <2> DEFINE p == Part("tool-input-delta", parser.ongoing[i])
             r == Part("tool-input-end", parser.ongoing[i])
             x == PartOf("tool-call", parser.ongoing[i], CallData(type))
  <2>0. /\ parser.ongoing[i] \in Ids
        /\ ParserAt(parser, i, type, n) => parser.ongoing[i] = <<1, i>> /\ parser.ongoing[i][2] = i
    <3>1. OngoingOf(type, i, n) = <<1, i>>
      BY <1>2 DEF OngoingOf, Midway, Length, InputTypes
    <3>2. parser.ongoing[i] \in Ids
      BY <1>5, <1>6
    <3> QED
      BY <3>1, <3>2 DEF ParserAt
  <2>1. parser' = parser /\ Emit(<<p, r, x>>)
    BY <1>6, <1>2 DEF CodeDone, InputDelta, InputEnd, CallPart, type
  <2>2. Became(parser.ongoing, parser.active, parser.current, parser.text)
    BY <2>1, <1>2, SetNothing
  <2>3. /\ BlocksOf(type, i, n) = {input} /\ Made(type, n) = FALSE
        /\ BlocksOf(type, i, n + 1) = {} /\ Made(type, n + 1) = TRUE
        /\ OngoingOf(type, i, n + 1) = <<1, i>> /\ ActiveOf(type, i, n + 1) = None
        /\ CurrentOf(type, i, n + 1) = 0 /\ TextOf(type, i, n + 1) = None
        /\ ActiveOf(type, i, n) = None /\ CurrentOf(type, i, n) = 0
        /\ TextOf(type, i, n) = None /\ OngoingOf(type, i, n) = <<1, i>>
    BY <1>2, <1>6 DEF BlocksOf, Made, Midway, InputTypes, TextTypes, InputsEnd, Length, OngoingOf, ActiveOf, CurrentOf, TextOf, input, thought, more, words
  <2>4. ParserAt(parser, i, type, n) => ParserAt(parser', i, type, n + 1) /\ OthersStay(i)
    BY <2>1, <2>2, <2>3, <1>2, <1>4, <1>5, <1>6 DEF ParserAt, OthersStay, Became
  <2>5. ASSUME NEW t, ParserAt(parser, i, type, n), Held(t, i, {input}, FALSE)
        PROVE  Moves(t, <<p, r, x>>, i, {}, TRUE)
    <3> DEFINE u == Apply(t, p)
               v == Apply(u, r)
               w == Apply(v, x)
    <3>1. Allowed(t, p) /\ Held(u, i, {input}, FALSE) /\ Elsewhere(t, u, i)
      <4>1. "tool-input-delta" \in DeltaTypes /\ KindOf("tool-input-delta") = "tool-input"
        BY KindsAre
      <4>2. parser.ongoing[i] \in Ids /\ parser.ongoing[i][2] = i /\ Held(t, i, {input}, FALSE)
        BY <2>0, <2>5 DEF words, type
      <4>3. input = <<"tool-input", parser.ongoing[i]>> /\ input \in {input}
        BY <2>0, <2>5 DEF input, thought, more, words
      <4> QED
        BY <4>1, <4>2, <4>3, DeltaHolds
    <3>2. Allowed(u, r) /\ Held(v, i, {}, FALSE) /\ Elsewhere(u, v, i)
      <4>1. "tool-input-end" \in EndTypes /\ KindOf("tool-input-end") = "tool-input"
        BY KindsAre
      <4>2. parser.ongoing[i] \in Ids /\ parser.ongoing[i][2] = i /\ Held(u, i, {input}, FALSE)
        BY <2>0, <2>5, <3>1 DEF words, type
      <4>3. input = <<"tool-input", parser.ongoing[i]>> /\ input \in {input} /\ {} = {input} \ {input}
        BY <2>0, <2>5 DEF input, thought, more, words
      <4> QED
        BY <4>1, <4>2, <4>3, EndHolds
    <3>3. Allowed(v, x) /\ Held(w, i, {}, TRUE) /\ Elsewhere(v, w, i)
      BY <2>0, <2>5, <3>2, <1>2, CallHolds DEF input
    <3> QED
      BY <3>1, <3>2, <3>3, MovesThree
  <2>6. Fits(p) /\ Fits(r) /\ Fits(x)
    BY <1>2, PartsFit, KindsAre, <2>0
  <2> HIDE DEF p, r, x
  <2>7. FitsAll(<<p, r, x>>) /\ <<p, r, x>> \in Seq({p, r, x})
    BY <2>6, OutThree
  <2>8. ASSUME NEW t, ParserAt(parser, i, type, n), Held(t, i, BlocksOf(type, i, n), Made(type, n))
        PROVE  Moves(t, <<p, r, x>>, i, BlocksOf(type, i, n + 1), Made(type, n + 1))
    <3>1. Held(t, i, {input}, FALSE)
      BY <2>8, <2>3
    <3> QED
      BY <3>1, <2>3, <2>5, <2>8
  <2>9. ParserTyped' /\ type = Type(i) /\ n = answer.sent[i] /\ Emit(<<p, r, x>>)
    BY <2>1, <2>2 DEF Became, type, n
  <2> QED
    BY <2>4, <2>7, <2>8, <2>9, <1>2, ItemKeeps
<1>7. CASE parser.ongoing[i] = None
  <2>0. ~ParserAt(parser, i, type, n)
    BY <1>2, <1>7 DEF ParserAt, OngoingOf, Midway, Length, None, TextTypes, InputTypes
  <2>1. parser' = parser /\ Emit(<<>>)
    BY <1>7, <1>2, <1>7, EmitNone DEF CodeDone
  <2>2. Became(parser.ongoing, parser.active, parser.current, parser.text)
    BY <2>1, <1>2, SetNothing
  <2>4. ParserAt(parser, i, type, n) => ParserAt(parser', i, type, n + 1) /\ OthersStay(i)
    BY <2>0
  <2>7. FitsAll(<<>>) /\ <<>> \in Seq({})
    BY OutNone
  <2>8. ASSUME NEW t, ParserAt(parser, i, type, n), Held(t, i, BlocksOf(type, i, n), Made(type, n))
        PROVE  Moves(t, <<>>, i, BlocksOf(type, i, n + 1), Made(type, n + 1))
    BY <2>0, <2>8
  <2>9. ParserTyped' /\ type = Type(i) /\ n = answer.sent[i] /\ Emit(<<>>)
    BY <2>1, <2>2 DEF Became, type, n
  <2> QED
    BY <2>4, <2>7, <2>8, <2>9, <1>2, ItemKeeps
<1> QED
  BY <1>6, <1>7, <1>2 DEF ItemTypes

LEMMA ImageKeeps ==
  ASSUME ResponsesInv, NEW i \in Items, PartialImage(i)
  PROVE  ResponsesInv'
<1> DEFINE type == Type(i)
           n == answer.sent[i]
           id == ItemId(i)
           input == <<"tool-input", <<1, i>>>>
           words == <<"text", <<1, i, 0>>>>
           thought == <<"reasoning", <<1, i, 0, 0>>>>
           more == <<"reasoning", <<1, i, 0, 1>>>>
<1>1. Chunk(i, {"partial_image"})
  BY DEF PartialImage
<1>2. /\ MaySend(i) /\ UNCHANGED view /\ answer' = [answer EXCEPT !.sent[i] = @ + 1]
      /\ Items' = Items /\ i \in Nat \ {0} /\ ParserTyped /\ queue = <<>>
      /\ type \in ItemTypes /\ n \in Nat /\ n = 1 /\ type = "image_generation_call"
      /\ id = (IF type \in TextTypes \cup {"reasoning"} THEN <<1, i, n>> ELSE <<1, i>>)
      /\ id \in Ids /\ <<1, i>> \in Ids /\ id[2] = i /\ CallId(i) = <<1, i>>
  BY <1>1, ChunkNow DEF Placed
<1>3. <<1, i, 0>> \in Ids /\ <<1, i, 0, 0>> \in Ids /\ <<1, i, 0, 1>> \in Ids
  BY <1>2 DEF Ids, None
<1>4. \A k \in Ids : k # None
  BY DEF Ids
<1>5. /\ parser.ongoing \in [Items -> Ids \cup {None}] /\ parser.active \in [Items -> Actives]
      /\ parser.current \in Items \cup {0} /\ parser.text \in Ids \cup {None}
  BY <1>2, ParserIs
<1> HIDE DEF type, n, id, input, words, thought, more
<1>6. CASE type = "image_generation_call"
  <2> DEFINE p == PartOf("tool-result", <<1, i>>, <<ToolName(type), "partial">>)
  <2>1. parser' = parser /\ Emit(<<p>>) /\ id = <<1, i>>
    BY <1>6, <1>2 DEF PartialImage, ResultPart, type, id, TextTypes
  <2>2. Became(parser.ongoing, parser.active, parser.current, parser.text)
    BY <2>1, <1>2, SetNothing
  <2>3. /\ BlocksOf(type, i, n) = {} /\ Made(type, n) = TRUE
        /\ BlocksOf(type, i, n + 1) = {} /\ Made(type, n + 1) = TRUE
        /\ OngoingOf(type, i, n + 1) = None /\ ActiveOf(type, i, n + 1) = None
        /\ CurrentOf(type, i, n + 1) = 0 /\ TextOf(type, i, n + 1) = None
        /\ ActiveOf(type, i, n) = None /\ CurrentOf(type, i, n) = 0
        /\ TextOf(type, i, n) = None /\ OngoingOf(type, i, n) = None
    BY <1>2, <1>6 DEF BlocksOf, Made, Midway, InputTypes, TextTypes, InputsEnd, Length, OngoingOf, ActiveOf, CurrentOf, TextOf, input, thought, more, words
  <2>4. ParserAt(parser, i, type, n) => ParserAt(parser', i, type, n + 1) /\ OthersStay(i)
    BY <2>1, <2>2, <2>3, <1>2, <1>4, <1>5, <1>6 DEF ParserAt, OthersStay, Became
  <2>5. ASSUME NEW t, ParserAt(parser, i, type, n), Held(t, i, {}, TRUE)
        PROVE  Moves(t, <<p>>, i, {}, TRUE)
    <3> DEFINE u == Apply(t, p)
    <3>1. Allowed(t, p) /\ Held(u, i, {}, TRUE) /\ Elsewhere(t, u, i)
      BY <2>1, <2>5, <1>2, ResultHolds
    <3> QED
      BY <3>1, MovesOne
  <2>6. Fits(p)
    BY <1>2, PartsFit, KindsAre
  <2> HIDE DEF p
  <2>7. FitsAll(<<p>>) /\ <<p>> \in Seq({p})
    BY <2>6, OutOne
  <2>8. ASSUME NEW t, ParserAt(parser, i, type, n), Held(t, i, BlocksOf(type, i, n), Made(type, n))
        PROVE  Moves(t, <<p>>, i, BlocksOf(type, i, n + 1), Made(type, n + 1))
    <3>1. Held(t, i, {}, TRUE)
      BY <2>8, <2>3
    <3> QED
      BY <3>1, <2>3, <2>5, <2>8
  <2>9. ParserTyped' /\ type = Type(i) /\ n = answer.sent[i] /\ Emit(<<p>>)
    BY <2>1, <2>2 DEF Became, type, n
  <2> QED
    BY <2>4, <2>7, <2>8, <2>9, <1>2, ItemKeeps
<1> QED
  BY <1>6, <1>2 DEF ItemTypes

LEMMA TextKeeps ==
  ASSUME ResponsesInv, NEW i \in Items, TextDelta(i)
  PROVE  ResponsesInv'
<1> DEFINE type == Type(i)
           n == answer.sent[i]
           id == ItemId(i)
           input == <<"tool-input", <<1, i>>>>
           words == <<"text", <<1, i, 0>>>>
           thought == <<"reasoning", <<1, i, 0, 0>>>>
           more == <<"reasoning", <<1, i, 0, 1>>>>
<1>1. Chunk(i, {"text_delta"})
  BY DEF TextDelta
<1>2. /\ MaySend(i) /\ UNCHANGED view /\ answer' = [answer EXCEPT !.sent[i] = @ + 1]
      /\ Items' = Items /\ i \in Nat \ {0} /\ ParserTyped /\ queue = <<>>
      /\ type \in ItemTypes /\ n \in Nat /\ n \in 0..2 /\ type \in TextTypes /\ (type = "message" => n > 0) /\ (type = "bare_message" => n < 2)
      /\ id = (IF type \in TextTypes \cup {"reasoning"} THEN <<1, i, n>> ELSE <<1, i>>)
      /\ id \in Ids /\ <<1, i>> \in Ids /\ id[2] = i /\ CallId(i) = <<1, i>>
  BY <1>1, ChunkNow DEF Placed, TextTypes
<1>3. <<1, i, 0>> \in Ids /\ <<1, i, 0, 0>> \in Ids /\ <<1, i, 0, 1>> \in Ids
  BY <1>2 DEF Ids, None
<1>4. \A k \in Ids : k # None
  BY DEF Ids
<1>5. /\ parser.ongoing \in [Items -> Ids \cup {None}] /\ parser.active \in [Items -> Actives]
      /\ parser.current \in Items \cup {0} /\ parser.text \in Ids \cup {None}
  BY <1>2, ParserIs
<1> HIDE DEF type, n, id, input, words, thought, more
<1>6. CASE parser.text = None /\ n = 0
  <2> DEFINE p == Part("text-start", id)
             r == Part("text-delta", id)
  <2>1. parser' = [parser EXCEPT !.text = id] /\ Emit(<<p, r>>) /\ id = <<1, i, 0>>
    BY <1>6, <1>2, <1>6 DEF TextDelta, id
  <2>2. Became(parser.ongoing, parser.active, parser.current, id)
    BY <2>1, <1>2, SetText
  <2>3. /\ BlocksOf(type, i, n) = {} /\ Made(type, n) = FALSE
        /\ BlocksOf(type, i, n + 1) = {words} /\ Made(type, n + 1) = FALSE
        /\ OngoingOf(type, i, n + 1) = None /\ ActiveOf(type, i, n + 1) = None
        /\ CurrentOf(type, i, n + 1) = 0 /\ TextOf(type, i, n + 1) = <<1, i, 0>>
        /\ ActiveOf(type, i, n) = None /\ CurrentOf(type, i, n) = 0
        /\ TextOf(type, i, n) = None /\ OngoingOf(type, i, n) = None
    BY <1>2, <1>6 DEF BlocksOf, Made, Midway, InputTypes, TextTypes, InputsEnd, Length, OngoingOf, ActiveOf, CurrentOf, TextOf, input, thought, more, words
  <2>4. ParserAt(parser, i, type, n) => ParserAt(parser', i, type, n + 1) /\ OthersStay(i)
    BY <2>1, <2>2, <2>3, <1>2, <1>4, <1>5, <1>6 DEF ParserAt, OthersStay, Became
  <2>5. ASSUME NEW t, ParserAt(parser, i, type, n), Held(t, i, {}, FALSE)
        PROVE  Moves(t, <<p, r>>, i, {words}, FALSE)
    <3> DEFINE u == Apply(t, p)
               v == Apply(u, r)
    <3>1. Allowed(t, p) /\ Held(u, i, {words}, FALSE) /\ Elsewhere(t, u, i)
      <4>1. "text-start" \in StartTypes /\ KindOf("text-start") = "text"
        BY KindsAre
      <4>2. id \in Ids /\ id[2] = i /\ Held(t, i, {}, FALSE)
        BY <1>2, <2>5
      <4>3. words = <<"text", id>> /\ words \notin {} /\ {words} = {} \cup {words}
        BY <2>1 DEF input, thought, more, words
      <4> QED
        BY <4>1, <4>2, <4>3, StartHolds
    <3>2. Allowed(u, r) /\ Held(v, i, {words}, FALSE) /\ Elsewhere(u, v, i)
      <4>1. "text-delta" \in DeltaTypes /\ KindOf("text-delta") = "text"
        BY KindsAre
      <4>2. id \in Ids /\ id[2] = i /\ Held(u, i, {words}, FALSE)
        BY <1>2, <3>1
      <4>3. words = <<"text", id>> /\ words \in {words}
        BY <2>1 DEF input, thought, more, words
      <4> QED
        BY <4>1, <4>2, <4>3, DeltaHolds
    <3> QED
      BY <3>1, <3>2, MovesTwo
  <2>6. Fits(p) /\ Fits(r)
    BY <1>2, PartsFit, KindsAre
  <2> HIDE DEF p, r
  <2>7. FitsAll(<<p, r>>) /\ <<p, r>> \in Seq({p, r})
    BY <2>6, OutTwo
  <2>8. ASSUME NEW t, ParserAt(parser, i, type, n), Held(t, i, BlocksOf(type, i, n), Made(type, n))
        PROVE  Moves(t, <<p, r>>, i, BlocksOf(type, i, n + 1), Made(type, n + 1))
    <3>1. Held(t, i, {}, FALSE)
      BY <2>8, <2>3
    <3> QED
      BY <3>1, <2>3, <2>5, <2>8
  <2>9. ParserTyped' /\ type = Type(i) /\ n = answer.sent[i] /\ Emit(<<p, r>>)
    BY <2>1, <2>2 DEF Became, type, n
  <2> QED
    BY <2>4, <2>7, <2>8, <2>9, <1>2, ItemKeeps
<1>7. CASE parser.text = None /\ n # 0
  <2> DEFINE p == Part("text-start", id)
             r == Part("text-delta", id)
  <2>0. ~ParserAt(parser, i, type, n)
    BY <1>2, <1>7 DEF ParserAt, TextOf, Midway, Length, None, TextTypes, InputTypes
  <2>1. parser' = [parser EXCEPT !.text = id] /\ Emit(<<p, r>>)
    BY <1>7, <1>2 DEF TextDelta, id
  <2>2. Became(parser.ongoing, parser.active, parser.current, id)
    BY <2>1, <1>2, SetText
  <2>4. ParserAt(parser, i, type, n) => ParserAt(parser', i, type, n + 1) /\ OthersStay(i)
    BY <2>0
  <2>6. Fits(p) /\ Fits(r)
    BY <1>2, PartsFit, KindsAre
  <2> HIDE DEF p, r
  <2>7. FitsAll(<<p, r>>) /\ <<p, r>> \in Seq({p, r})
    BY <2>6, OutTwo
  <2>8. ASSUME NEW t, ParserAt(parser, i, type, n), Held(t, i, BlocksOf(type, i, n), Made(type, n))
        PROVE  Moves(t, <<p, r>>, i, BlocksOf(type, i, n + 1), Made(type, n + 1))
    BY <2>0, <2>8
  <2>9. ParserTyped' /\ type = Type(i) /\ n = answer.sent[i] /\ Emit(<<p, r>>)
    BY <2>1, <2>2 DEF Became, type, n
  <2> QED
    BY <2>4, <2>7, <2>8, <2>9, <1>2, ItemKeeps
<1>8. CASE parser.text # None /\ n # 0
  <2> DEFINE p == Part("text-delta", parser.text)
  <2>0. /\ parser.text \in Ids
        /\ ParserAt(parser, i, type, n) => parser.text = <<1, i, 0>> /\ parser.text[2] = i
    <3>1. TextOf(type, i, n) = <<1, i, 0>>
      BY <1>2, <1>8 DEF TextOf, Midway, Length, TextTypes
    <3>2. parser.text \in Ids
      BY <1>5, <1>8
    <3> QED
      BY <3>1, <3>2 DEF ParserAt
  <2>1. parser' = parser /\ Emit(<<p>>)
    BY <1>8, <1>2 DEF TextDelta
  <2>2. Became(parser.ongoing, parser.active, parser.current, parser.text)
    BY <2>1, <1>2, SetNothing
  <2>3. /\ BlocksOf(type, i, n) = {words} /\ Made(type, n) = FALSE
        /\ BlocksOf(type, i, n + 1) = {words} /\ Made(type, n + 1) = FALSE
        /\ OngoingOf(type, i, n + 1) = None /\ ActiveOf(type, i, n + 1) = None
        /\ CurrentOf(type, i, n + 1) = 0 /\ TextOf(type, i, n + 1) = <<1, i, 0>>
        /\ ActiveOf(type, i, n) = None /\ CurrentOf(type, i, n) = 0
        /\ TextOf(type, i, n) = <<1, i, 0>> /\ OngoingOf(type, i, n) = None
    BY <1>2, <1>8 DEF BlocksOf, Made, Midway, InputTypes, TextTypes, InputsEnd, Length, OngoingOf, ActiveOf, CurrentOf, TextOf, input, thought, more, words
  <2>4. ParserAt(parser, i, type, n) => ParserAt(parser', i, type, n + 1) /\ OthersStay(i)
    BY <2>1, <2>2, <2>3, <1>2, <1>4, <1>5, <1>8 DEF ParserAt, OthersStay, Became
  <2>5. ASSUME NEW t, ParserAt(parser, i, type, n), Held(t, i, {words}, FALSE)
        PROVE  Moves(t, <<p>>, i, {words}, FALSE)
    <3> DEFINE u == Apply(t, p)
    <3>1. Allowed(t, p) /\ Held(u, i, {words}, FALSE) /\ Elsewhere(t, u, i)
      <4>1. "text-delta" \in DeltaTypes /\ KindOf("text-delta") = "text"
        BY KindsAre
      <4>2. parser.text \in Ids /\ parser.text[2] = i /\ Held(t, i, {words}, FALSE)
        BY <2>0, <2>5 DEF words, type
      <4>3. words = <<"text", parser.text>> /\ words \in {words}
        BY <2>0, <2>5 DEF input, thought, more, words
      <4> QED
        BY <4>1, <4>2, <4>3, DeltaHolds
    <3> QED
      BY <3>1, MovesOne
  <2>6. Fits(p)
    BY <1>2, PartsFit, KindsAre, <2>0
  <2> HIDE DEF p
  <2>7. FitsAll(<<p>>) /\ <<p>> \in Seq({p})
    BY <2>6, OutOne
  <2>8. ASSUME NEW t, ParserAt(parser, i, type, n), Held(t, i, BlocksOf(type, i, n), Made(type, n))
        PROVE  Moves(t, <<p>>, i, BlocksOf(type, i, n + 1), Made(type, n + 1))
    <3>1. Held(t, i, {words}, FALSE)
      BY <2>8, <2>3
    <3> QED
      BY <3>1, <2>3, <2>5, <2>8
  <2>9. ParserTyped' /\ type = Type(i) /\ n = answer.sent[i] /\ Emit(<<p>>)
    BY <2>1, <2>2 DEF Became, type, n
  <2> QED
    BY <2>4, <2>7, <2>8, <2>9, <1>2, ItemKeeps
<1>9. CASE parser.text # None /\ n = 0
  <2> DEFINE p == Part("text-delta", parser.text)
  <2>0. ~ParserAt(parser, i, type, n)
    BY <1>2, <1>9 DEF ParserAt, TextOf, Midway, Length, None, TextTypes, InputTypes
  <2>1. parser' = parser /\ Emit(<<p>>)
    BY <1>9, <1>2 DEF TextDelta
  <2>2. Became(parser.ongoing, parser.active, parser.current, parser.text)
    BY <2>1, <1>2, SetNothing
  <2>4. ParserAt(parser, i, type, n) => ParserAt(parser', i, type, n + 1) /\ OthersStay(i)
    BY <2>0
  <2>6. Fits(p)
    BY <1>2, PartsFit, KindsAre, <1>5, <1>9
  <2> HIDE DEF p
  <2>7. FitsAll(<<p>>) /\ <<p>> \in Seq({p})
    BY <2>6, OutOne
  <2>8. ASSUME NEW t, ParserAt(parser, i, type, n), Held(t, i, BlocksOf(type, i, n), Made(type, n))
        PROVE  Moves(t, <<p>>, i, BlocksOf(type, i, n + 1), Made(type, n + 1))
    BY <2>0, <2>8
  <2>9. ParserTyped' /\ type = Type(i) /\ n = answer.sent[i] /\ Emit(<<p>>)
    BY <2>1, <2>2 DEF Became, type, n
  <2> QED
    BY <2>4, <2>7, <2>8, <2>9, <1>2, ItemKeeps
<1> QED
  BY <1>6, <1>7, <1>8, <1>9, <1>2 DEF ItemTypes

LEMMA AnnotationKeeps ==
  ASSUME ResponsesInv, NEW i \in Items, AnnotationAdded(i)
  PROVE  ResponsesInv'
<1> DEFINE type == Type(i)
           n == answer.sent[i]
           id == ItemId(i)
           input == <<"tool-input", <<1, i>>>>
           words == <<"text", <<1, i, 0>>>>
           thought == <<"reasoning", <<1, i, 0, 0>>>>
           more == <<"reasoning", <<1, i, 0, 1>>>>
<1>1. Chunk(i, {"annotation"})
  BY DEF AnnotationAdded
<1>2. /\ MaySend(i) /\ UNCHANGED view /\ answer' = [answer EXCEPT !.sent[i] = @ + 1]
      /\ Items' = Items /\ i \in Nat \ {0} /\ ParserTyped /\ queue = <<>>
      /\ type \in ItemTypes /\ n \in Nat /\ n = 3 /\ type = "message"
      /\ id = (IF type \in TextTypes \cup {"reasoning"} THEN <<1, i, n>> ELSE <<1, i>>)
      /\ id \in Ids /\ <<1, i>> \in Ids /\ id[2] = i /\ CallId(i) = <<1, i>>
  BY <1>1, ChunkNow DEF Placed
<1>3. <<1, i, 0>> \in Ids /\ <<1, i, 0, 0>> \in Ids /\ <<1, i, 0, 1>> \in Ids
  BY <1>2 DEF Ids, None
<1>4. \A k \in Ids : k # None
  BY DEF Ids
<1>5. /\ parser.ongoing \in [Items -> Ids \cup {None}] /\ parser.active \in [Items -> Actives]
      /\ parser.current \in Items \cup {0} /\ parser.text \in Ids \cup {None}
  BY <1>2, ParserIs
<1> HIDE DEF type, n, id, input, words, thought, more
<1>6. CASE type = "message"
  <2> DEFINE p == Part("source", None)
  <2>1. parser' = parser /\ Emit(<<p>>)
    BY <1>6, <1>2 DEF AnnotationAdded
  <2>2. Became(parser.ongoing, parser.active, parser.current, parser.text)
    BY <2>1, <1>2, SetNothing
  <2>3. /\ BlocksOf(type, i, n) = {words} /\ Made(type, n) = FALSE
        /\ BlocksOf(type, i, n + 1) = {words} /\ Made(type, n + 1) = FALSE
        /\ OngoingOf(type, i, n + 1) = None /\ ActiveOf(type, i, n + 1) = None
        /\ CurrentOf(type, i, n + 1) = 0 /\ TextOf(type, i, n + 1) = <<1, i, 0>>
        /\ ActiveOf(type, i, n) = None /\ CurrentOf(type, i, n) = 0
        /\ TextOf(type, i, n) = <<1, i, 0>> /\ OngoingOf(type, i, n) = None
    BY <1>2, <1>6 DEF BlocksOf, Made, Midway, InputTypes, TextTypes, InputsEnd, Length, OngoingOf, ActiveOf, CurrentOf, TextOf, input, thought, more, words
  <2>4. ParserAt(parser, i, type, n) => ParserAt(parser', i, type, n + 1) /\ OthersStay(i)
    BY <2>1, <2>2, <2>3, <1>2, <1>4, <1>5, <1>6 DEF ParserAt, OthersStay, Became
  <2>5. ASSUME NEW t, ParserAt(parser, i, type, n), Held(t, i, {words}, FALSE)
        PROVE  Moves(t, <<p>>, i, {words}, FALSE)
    <3> DEFINE u == Apply(t, p)
    <3>1. Allowed(t, p) /\ Held(u, i, {words}, FALSE) /\ Elsewhere(t, u, i)
      BY <2>5, NoteHolds
    <3> QED
      BY <3>1, MovesOne
  <2>6. Fits(p)
    BY <1>2, PartsFit, KindsAre, NotesFit
  <2> HIDE DEF p
  <2>7. FitsAll(<<p>>) /\ <<p>> \in Seq({p})
    BY <2>6, OutOne
  <2>8. ASSUME NEW t, ParserAt(parser, i, type, n), Held(t, i, BlocksOf(type, i, n), Made(type, n))
        PROVE  Moves(t, <<p>>, i, BlocksOf(type, i, n + 1), Made(type, n + 1))
    <3>1. Held(t, i, {words}, FALSE)
      BY <2>8, <2>3
    <3> QED
      BY <3>1, <2>3, <2>5, <2>8
  <2>9. ParserTyped' /\ type = Type(i) /\ n = answer.sent[i] /\ Emit(<<p>>)
    BY <2>1, <2>2 DEF Became, type, n
  <2> QED
    BY <2>4, <2>7, <2>8, <2>9, <1>2, ItemKeeps
<1> QED
  BY <1>6, <1>2 DEF ItemTypes

LEMMA SummaryPartKeeps ==
  ASSUME ResponsesInv, NEW i \in Items, SummaryPartAdded(i)
  PROVE  ResponsesInv'
<1> DEFINE type == Type(i)
           n == answer.sent[i]
           id == ItemId(i)
           input == <<"tool-input", <<1, i>>>>
           words == <<"text", <<1, i, 0>>>>
           thought == <<"reasoning", <<1, i, 0, 0>>>>
           more == <<"reasoning", <<1, i, 0, 1>>>>
<1>1. Chunk(i, {"summary_part"})
  BY DEF SummaryPartAdded
<1>2. /\ MaySend(i) /\ UNCHANGED view /\ answer' = [answer EXCEPT !.sent[i] = @ + 1]
      /\ Items' = Items /\ i \in Nat \ {0} /\ ParserTyped /\ queue = <<>>
      /\ type \in ItemTypes /\ n \in Nat /\ type = "reasoning" /\ <<n, NextEvent(i).part>> \in {<<1, 0>>, <<3, 1>>}
      /\ id = (IF type \in TextTypes \cup {"reasoning"} THEN <<1, i, n>> ELSE <<1, i>>)
      /\ id \in Ids /\ <<1, i>> \in Ids /\ id[2] = i /\ CallId(i) = <<1, i>>
  BY <1>1, ChunkNow DEF Placed
<1>3. <<1, i, 0>> \in Ids /\ <<1, i, 0, 0>> \in Ids /\ <<1, i, 0, 1>> \in Ids
  BY <1>2 DEF Ids, None
<1>4. \A k \in Ids : k # None
  BY DEF Ids
<1>5. /\ parser.ongoing \in [Items -> Ids \cup {None}] /\ parser.active \in [Items -> Actives]
      /\ parser.current \in Items \cup {0} /\ parser.text \in Ids \cup {None}
  BY <1>2, ParserIs
<1> HIDE DEF type, n, id, input, words, thought, more
<1>6. CASE CurrentReasoning # None /\ NextEvent(i).part > 0
  <2> DEFINE a == parser.active[parser.current]
             p == Part("reasoning-start", Append(a.id, 1))
  <2>0. n = 3 /\ NextEvent(i).part = 1 /\ parser.current \in Items /\ a # None /\ a.id \in Ids /\ a.parts \in Seq(Nat)
    BY <1>2, <1>5, <1>6 DEF CurrentReasoning, Actives
  <2>01. ParserAt(parser, i, type, n) => /\ parser.current = i /\ a.id = <<1, i, 0>> /\ Append(a.id, 1) = <<1, i, 0, 1>>
                                        /\ Append(a.id, 1)[2] = i /\ Append(a.parts, 1) = <<0, 1>>
    <3> SUFFICES ASSUME ParserAt(parser, i, type, n) PROVE /\ parser.current = i /\ a.id = <<1, i, 0>> /\ Append(a.id, 1) = <<1, i, 0, 1>>
                                                           /\ Append(a.id, 1)[2] = i /\ Append(a.parts, 1) = <<0, 1>>
      OBVIOUS
    <3>1. parser.current = i /\ parser.active[i] = [id |-> <<1, i, 0>>, parts |-> <<0>>]
      BY <1>2, <2>0 DEF ParserAt, CurrentOf, ActiveOf, Midway, Length
    <3>2. a.id = <<1, i, 0>> /\ a.parts = <<0>>
      BY <3>1
    <3>3. Append(<<0>>, 1) = <<0, 1>>
      BY AppendOne
    <3> QED
      BY <3>1, <3>2, <3>3, AppendIs
  <2>02. Append(a.id, 1) \in Ids /\ more # thought
    BY <2>0, AppendId DEF more, thought
  <2>03. ParserAt(parser, i, type, n) => [id |-> a.id, parts |-> Append(a.parts, 1)] = [id |-> <<1, i, 0>>, parts |-> <<0, 1>>]
    BY <2>01
  <2>1. parser' = [parser EXCEPT !.active[parser.current] = [id |-> @.id, parts |-> Append(@.parts, 1)]] /\ Emit(<<p>>)
    BY <1>6, <1>2, <1>6, <2>0 DEF SummaryPartAdded, ReasoningId, CurrentReasoning
  <2>2. Became(parser.ongoing, [parser.active EXCEPT ![parser.current] = [id |-> a.id, parts |-> Append(a.parts, 1)]], parser.current, parser.text)
    BY <2>1, <1>2, <2>0, SetParts
  <2>3. /\ BlocksOf(type, i, n) = {thought} /\ Made(type, n) = FALSE
        /\ BlocksOf(type, i, n + 1) = {thought, more} /\ Made(type, n + 1) = FALSE
        /\ OngoingOf(type, i, n + 1) = None /\ ActiveOf(type, i, n + 1) = [id |-> <<1, i, 0>>, parts |-> <<0, 1>>]
        /\ CurrentOf(type, i, n + 1) = i /\ TextOf(type, i, n + 1) = None
        /\ ActiveOf(type, i, n) = [id |-> <<1, i, 0>>, parts |-> <<0>>] /\ CurrentOf(type, i, n) = i
        /\ TextOf(type, i, n) = None /\ OngoingOf(type, i, n) = None
    BY <1>2, <1>6 DEF BlocksOf, Made, Midway, InputTypes, TextTypes, InputsEnd, Length, OngoingOf, ActiveOf, CurrentOf, TextOf, input, thought, more, words
  <2> HIDE DEF a
  <2>4. ParserAt(parser, i, type, n) => ParserAt(parser', i, type, n + 1) /\ OthersStay(i)
    <3> SUFFICES ASSUME ParserAt(parser, i, type, n) PROVE ParserAt(parser', i, type, n + 1) /\ OthersStay(i)
      OBVIOUS
    <3> DEFINE x == [id |-> a.id, parts |-> Append(a.parts, 1)]
    <3>1. /\ parser'.active = [parser.active EXCEPT ![parser.current] = x] /\ parser'.ongoing = parser.ongoing
          /\ parser'.current = parser.current /\ parser'.text = parser.text
      BY <2>2 DEF Became
    <3>2. x = [id |-> <<1, i, 0>>, parts |-> <<0, 1>>] /\ parser.current = i
      BY <2>01, <2>03
    <3> HIDE DEF x
    <3>3. parser'.active[i] = x /\ \A j \in Items : j # i => parser'.active[j] = parser.active[j]
      BY <3>1, <3>2, <1>5
    <3>4. ParserAt(parser', i, type, n + 1)
      BY <3>1, <3>2, <3>3, <2>3 DEF ParserAt
    <3> QED
      BY <3>1, <3>3, <3>4 DEF OthersStay
  <2>5. ASSUME NEW t, ParserAt(parser, i, type, n), Held(t, i, {thought}, FALSE)
        PROVE  Moves(t, <<p>>, i, {thought, more}, FALSE)
    <3> DEFINE u == Apply(t, p)
    <3>1. Allowed(t, p) /\ Held(u, i, {thought, more}, FALSE) /\ Elsewhere(t, u, i)
      <4>1. "reasoning-start" \in StartTypes /\ KindOf("reasoning-start") = "reasoning"
        BY KindsAre
      <4>2. Append(a.id, 1) \in Ids /\ Append(a.id, 1)[2] = i /\ Held(t, i, {thought}, FALSE)
        BY <2>01, <2>02, <2>5 DEF words, type
      <4>3. more = <<"reasoning", Append(a.id, 1)>> /\ more \notin {thought} /\ {thought, more} = {thought} \cup {more}
        BY <2>01, <2>02, <2>5 DEF input, thought, more, words
      <4> QED
        BY <4>1, <4>2, <4>3, StartHolds
    <3> QED
      BY <3>1, MovesOne
  <2>6. Fits(p)
    BY <1>2, PartsFit, KindsAre, <2>02
  <2> HIDE DEF p
  <2>7. FitsAll(<<p>>) /\ <<p>> \in Seq({p})
    BY <2>6, OutOne
  <2>8. ASSUME NEW t, ParserAt(parser, i, type, n), Held(t, i, BlocksOf(type, i, n), Made(type, n))
        PROVE  Moves(t, <<p>>, i, BlocksOf(type, i, n + 1), Made(type, n + 1))
    <3>1. Held(t, i, {thought}, FALSE)
      BY <2>8, <2>3
    <3> QED
      BY <3>1, <2>3, <2>5, <2>8
  <2>9. ParserTyped' /\ type = Type(i) /\ n = answer.sent[i] /\ Emit(<<p>>)
    BY <2>1, <2>2 DEF Became, type, n
  <2> QED
    BY <2>4, <2>7, <2>8, <2>9, <1>2, ItemKeeps
<1>7. CASE n = 1
  <2>1. parser' = parser /\ Emit(<<>>)
    BY <1>7, <1>2, <1>7, EmitNone DEF SummaryPartAdded
  <2>2. Became(parser.ongoing, parser.active, parser.current, parser.text)
    BY <2>1, <1>2, SetNothing
  <2>3. /\ BlocksOf(type, i, n) = {thought} /\ Made(type, n) = FALSE
        /\ BlocksOf(type, i, n + 1) = {thought} /\ Made(type, n + 1) = FALSE
        /\ OngoingOf(type, i, n + 1) = None /\ ActiveOf(type, i, n + 1) = [id |-> <<1, i, 0>>, parts |-> <<0>>]
        /\ CurrentOf(type, i, n + 1) = i /\ TextOf(type, i, n + 1) = None
        /\ ActiveOf(type, i, n) = [id |-> <<1, i, 0>>, parts |-> <<0>>] /\ CurrentOf(type, i, n) = i
        /\ TextOf(type, i, n) = None /\ OngoingOf(type, i, n) = None
    BY <1>2, <1>7 DEF BlocksOf, Made, Midway, InputTypes, TextTypes, InputsEnd, Length, OngoingOf, ActiveOf, CurrentOf, TextOf, input, thought, more, words
  <2>4. ParserAt(parser, i, type, n) => ParserAt(parser', i, type, n + 1) /\ OthersStay(i)
    BY <2>1, <2>2, <2>3, <1>2, <1>4, <1>5, <1>7 DEF ParserAt, OthersStay, Became
  <2>5. ASSUME NEW t, ParserAt(parser, i, type, n), Held(t, i, {thought}, FALSE)
        PROVE  Moves(t, <<>>, i, {thought}, FALSE)
    BY <2>5, MovesNone
  <2>7. FitsAll(<<>>) /\ <<>> \in Seq({})
    BY OutNone
  <2>8. ASSUME NEW t, ParserAt(parser, i, type, n), Held(t, i, BlocksOf(type, i, n), Made(type, n))
        PROVE  Moves(t, <<>>, i, BlocksOf(type, i, n + 1), Made(type, n + 1))
    <3>1. Held(t, i, {thought}, FALSE)
      BY <2>8, <2>3
    <3> QED
      BY <3>1, <2>3, <2>5, <2>8
  <2>9. ParserTyped' /\ type = Type(i) /\ n = answer.sent[i] /\ Emit(<<>>)
    BY <2>1, <2>2 DEF Became, type, n
  <2> QED
    BY <2>4, <2>7, <2>8, <2>9, <1>2, ItemKeeps
<1>8. CASE n # 1 /\ ~(CurrentReasoning # None /\ NextEvent(i).part > 0)
  <2>0. ~ParserAt(parser, i, type, n)
    <3> SUFFICES ASSUME ParserAt(parser, i, type, n) PROVE FALSE
      OBVIOUS
    <3>1. parser.current = i /\ parser.active[i] = ActiveOf(type, i, n) /\ ActiveOf(type, i, n) # None
      BY <1>2, <1>8 DEF ParserAt, CurrentOf, ActiveOf, Midway, Length, None
    <3>2. CurrentReasoning # None
      BY <3>1, <1>2 DEF CurrentReasoning
    <3> QED
      BY <3>2, <1>2, <1>8
  <2>1. parser' = parser /\ Emit(<<>>)
    BY <1>8, <1>2, <1>8, EmitNone DEF SummaryPartAdded
  <2>2. Became(parser.ongoing, parser.active, parser.current, parser.text)
    BY <2>1, <1>2, SetNothing
  <2>4. ParserAt(parser, i, type, n) => ParserAt(parser', i, type, n + 1) /\ OthersStay(i)
    BY <2>0
  <2>7. FitsAll(<<>>) /\ <<>> \in Seq({})
    BY OutNone
  <2>8. ASSUME NEW t, ParserAt(parser, i, type, n), Held(t, i, BlocksOf(type, i, n), Made(type, n))
        PROVE  Moves(t, <<>>, i, BlocksOf(type, i, n + 1), Made(type, n + 1))
    BY <2>0, <2>8
  <2>9. ParserTyped' /\ type = Type(i) /\ n = answer.sent[i] /\ Emit(<<>>)
    BY <2>1, <2>2 DEF Became, type, n
  <2> QED
    BY <2>4, <2>7, <2>8, <2>9, <1>2, ItemKeeps
<1> QED
  BY <1>6, <1>7, <1>8, <1>2 DEF ItemTypes

LEMMA SummaryTextKeeps ==
  ASSUME ResponsesInv, NEW i \in Items, SummaryTextDelta(i)
  PROVE  ResponsesInv'
<1> DEFINE type == Type(i)
           n == answer.sent[i]
           id == ItemId(i)
           input == <<"tool-input", <<1, i>>>>
           words == <<"text", <<1, i, 0>>>>
           thought == <<"reasoning", <<1, i, 0, 0>>>>
           more == <<"reasoning", <<1, i, 0, 1>>>>
<1>1. Chunk(i, {"summary_delta"})
  BY DEF SummaryTextDelta
<1>2. /\ MaySend(i) /\ UNCHANGED view /\ answer' = [answer EXCEPT !.sent[i] = @ + 1]
      /\ Items' = Items /\ i \in Nat \ {0} /\ ParserTyped /\ queue = <<>>
      /\ type \in ItemTypes /\ n \in Nat /\ type = "reasoning" /\ <<n, NextEvent(i).part>> \in {<<2, 0>>, <<4, 1>>}
      /\ id = (IF type \in TextTypes \cup {"reasoning"} THEN <<1, i, n>> ELSE <<1, i>>)
      /\ id \in Ids /\ <<1, i>> \in Ids /\ id[2] = i /\ CallId(i) = <<1, i>>
  BY <1>1, ChunkNow DEF Placed
<1>3. <<1, i, 0>> \in Ids /\ <<1, i, 0, 0>> \in Ids /\ <<1, i, 0, 1>> \in Ids
  BY <1>2 DEF Ids, None
<1>4. \A k \in Ids : k # None
  BY DEF Ids
<1>5. /\ parser.ongoing \in [Items -> Ids \cup {None}] /\ parser.active \in [Items -> Actives]
      /\ parser.current \in Items \cup {0} /\ parser.text \in Ids \cup {None}
  BY <1>2, ParserIs
<1> HIDE DEF type, n, id, input, words, thought, more
<1>6. CASE CurrentReasoning # None /\ n = 2
  <2> DEFINE a == parser.active[parser.current]
             p == Part("reasoning-delta", Append(a.id, 0))
  <2>0. n = 2 /\ NextEvent(i).part = 0 /\ parser.current \in Items /\ a # None /\ a.id \in Ids /\ Append(a.id, 0) \in Ids
    <3>1. n = 2 /\ NextEvent(i).part = 0 /\ parser.current \in Items /\ a # None /\ a.id \in Ids
      BY <1>2, <1>5, <1>6 DEF CurrentReasoning, Actives
    <3> QED
      BY <3>1, AppendId
  <2>01. ParserAt(parser, i, type, n) => a.id = <<1, i, 0>> /\ Append(a.id, 0) = <<1, i, 0, 0>> /\ Append(a.id, 0)[2] = i
    <3> SUFFICES ASSUME ParserAt(parser, i, type, n) PROVE a.id = <<1, i, 0>> /\ Append(a.id, 0) = <<1, i, 0, 0>> /\ Append(a.id, 0)[2] = i
      OBVIOUS
    <3>1. parser.current = i /\ parser.active[i] = ActiveOf(type, i, n) /\ ActiveOf(type, i, n).id = <<1, i, 0>>
      BY <1>2, <2>0 DEF ParserAt, CurrentOf, ActiveOf, Midway, Length
    <3> QED
      BY <3>1, AppendIs
  <2>1. parser' = parser /\ Emit(<<p>>)
    BY <1>6, <1>2, <1>6, <2>0 DEF SummaryTextDelta, ReasoningId, CurrentReasoning
  <2>2. Became(parser.ongoing, parser.active, parser.current, parser.text)
    BY <2>1, <1>2, SetNothing
  <2>3. /\ BlocksOf(type, i, n) = {thought} /\ Made(type, n) = FALSE
        /\ BlocksOf(type, i, n + 1) = {thought} /\ Made(type, n + 1) = FALSE
        /\ OngoingOf(type, i, n + 1) = None /\ ActiveOf(type, i, n + 1) = [id |-> <<1, i, 0>>, parts |-> <<0>>]
        /\ CurrentOf(type, i, n + 1) = i /\ TextOf(type, i, n + 1) = None
        /\ ActiveOf(type, i, n) = [id |-> <<1, i, 0>>, parts |-> <<0>>] /\ CurrentOf(type, i, n) = i
        /\ TextOf(type, i, n) = None /\ OngoingOf(type, i, n) = None
    BY <1>2, <1>6 DEF BlocksOf, Made, Midway, InputTypes, TextTypes, InputsEnd, Length, OngoingOf, ActiveOf, CurrentOf, TextOf, input, thought, more, words
  <2>4. ParserAt(parser, i, type, n) => ParserAt(parser', i, type, n + 1) /\ OthersStay(i)
    BY <2>1, <2>2, <2>3, <1>2, <1>4, <1>5, <1>6 DEF ParserAt, OthersStay, Became
  <2>5. ASSUME NEW t, ParserAt(parser, i, type, n), Held(t, i, {thought}, FALSE)
        PROVE  Moves(t, <<p>>, i, {thought}, FALSE)
    <3> DEFINE u == Apply(t, p)
    <3>1. Allowed(t, p) /\ Held(u, i, {thought}, FALSE) /\ Elsewhere(t, u, i)
      <4>1. "reasoning-delta" \in DeltaTypes /\ KindOf("reasoning-delta") = "reasoning"
        BY KindsAre
      <4>2. Append(a.id, 0) \in Ids /\ Append(a.id, 0)[2] = i /\ Held(t, i, {thought}, FALSE)
        BY <2>01, <2>0, <2>5 DEF words, type
      <4>3. thought = <<"reasoning", Append(a.id, 0)>> /\ thought \in {thought}
        BY <2>01, <2>5 DEF input, thought, more, words
      <4> QED
        BY <4>1, <4>2, <4>3, DeltaHolds
    <3> QED
      BY <3>1, MovesOne
  <2>6. Fits(p)
    BY <1>2, PartsFit, KindsAre, <2>0
  <2> HIDE DEF p
  <2>7. FitsAll(<<p>>) /\ <<p>> \in Seq({p})
    BY <2>6, OutOne
  <2>8. ASSUME NEW t, ParserAt(parser, i, type, n), Held(t, i, BlocksOf(type, i, n), Made(type, n))
        PROVE  Moves(t, <<p>>, i, BlocksOf(type, i, n + 1), Made(type, n + 1))
    <3>1. Held(t, i, {thought}, FALSE)
      BY <2>8, <2>3
    <3> QED
      BY <3>1, <2>3, <2>5, <2>8
  <2>9. ParserTyped' /\ type = Type(i) /\ n = answer.sent[i] /\ Emit(<<p>>)
    BY <2>1, <2>2 DEF Became, type, n
  <2> QED
    BY <2>4, <2>7, <2>8, <2>9, <1>2, ItemKeeps
<1>7. CASE CurrentReasoning # None /\ n = 4
  <2> DEFINE a == parser.active[parser.current]
             p == Part("reasoning-delta", Append(a.id, 1))
  <2>0. n = 4 /\ NextEvent(i).part = 1 /\ parser.current \in Items /\ a # None /\ a.id \in Ids /\ Append(a.id, 1) \in Ids
    <3>1. n = 4 /\ NextEvent(i).part = 1 /\ parser.current \in Items /\ a # None /\ a.id \in Ids
      BY <1>2, <1>5, <1>7 DEF CurrentReasoning, Actives
    <3> QED
      BY <3>1, AppendId
  <2>01. ParserAt(parser, i, type, n) => a.id = <<1, i, 0>> /\ Append(a.id, 1) = <<1, i, 0, 1>> /\ Append(a.id, 1)[2] = i
    <3> SUFFICES ASSUME ParserAt(parser, i, type, n) PROVE a.id = <<1, i, 0>> /\ Append(a.id, 1) = <<1, i, 0, 1>> /\ Append(a.id, 1)[2] = i
      OBVIOUS
    <3>1. parser.current = i /\ parser.active[i] = ActiveOf(type, i, n) /\ ActiveOf(type, i, n).id = <<1, i, 0>>
      BY <1>2, <2>0 DEF ParserAt, CurrentOf, ActiveOf, Midway, Length
    <3> QED
      BY <3>1, AppendIs
  <2>1. parser' = parser /\ Emit(<<p>>)
    BY <1>7, <1>2, <1>7, <2>0 DEF SummaryTextDelta, ReasoningId, CurrentReasoning
  <2>2. Became(parser.ongoing, parser.active, parser.current, parser.text)
    BY <2>1, <1>2, SetNothing
  <2>3. /\ BlocksOf(type, i, n) = {thought, more} /\ Made(type, n) = FALSE
        /\ BlocksOf(type, i, n + 1) = {thought, more} /\ Made(type, n + 1) = FALSE
        /\ OngoingOf(type, i, n + 1) = None /\ ActiveOf(type, i, n + 1) = [id |-> <<1, i, 0>>, parts |-> <<0, 1>>]
        /\ CurrentOf(type, i, n + 1) = i /\ TextOf(type, i, n + 1) = None
        /\ ActiveOf(type, i, n) = [id |-> <<1, i, 0>>, parts |-> <<0, 1>>] /\ CurrentOf(type, i, n) = i
        /\ TextOf(type, i, n) = None /\ OngoingOf(type, i, n) = None
    BY <1>2, <1>7 DEF BlocksOf, Made, Midway, InputTypes, TextTypes, InputsEnd, Length, OngoingOf, ActiveOf, CurrentOf, TextOf, input, thought, more, words
  <2>4. ParserAt(parser, i, type, n) => ParserAt(parser', i, type, n + 1) /\ OthersStay(i)
    BY <2>1, <2>2, <2>3, <1>2, <1>4, <1>5, <1>7 DEF ParserAt, OthersStay, Became
  <2>5. ASSUME NEW t, ParserAt(parser, i, type, n), Held(t, i, {thought, more}, FALSE)
        PROVE  Moves(t, <<p>>, i, {thought, more}, FALSE)
    <3> DEFINE u == Apply(t, p)
    <3>1. Allowed(t, p) /\ Held(u, i, {thought, more}, FALSE) /\ Elsewhere(t, u, i)
      <4>1. "reasoning-delta" \in DeltaTypes /\ KindOf("reasoning-delta") = "reasoning"
        BY KindsAre
      <4>2. Append(a.id, 1) \in Ids /\ Append(a.id, 1)[2] = i /\ Held(t, i, {thought, more}, FALSE)
        BY <2>01, <2>0, <2>5 DEF words, type
      <4>3. more = <<"reasoning", Append(a.id, 1)>> /\ more \in {thought, more}
        BY <2>01, <2>5 DEF input, thought, more, words
      <4> QED
        BY <4>1, <4>2, <4>3, DeltaHolds
    <3> QED
      BY <3>1, MovesOne
  <2>6. Fits(p)
    BY <1>2, PartsFit, KindsAre, <2>0
  <2> HIDE DEF p
  <2>7. FitsAll(<<p>>) /\ <<p>> \in Seq({p})
    BY <2>6, OutOne
  <2>8. ASSUME NEW t, ParserAt(parser, i, type, n), Held(t, i, BlocksOf(type, i, n), Made(type, n))
        PROVE  Moves(t, <<p>>, i, BlocksOf(type, i, n + 1), Made(type, n + 1))
    <3>1. Held(t, i, {thought, more}, FALSE)
      BY <2>8, <2>3
    <3> QED
      BY <3>1, <2>3, <2>5, <2>8
  <2>9. ParserTyped' /\ type = Type(i) /\ n = answer.sent[i] /\ Emit(<<p>>)
    BY <2>1, <2>2 DEF Became, type, n
  <2> QED
    BY <2>4, <2>7, <2>8, <2>9, <1>2, ItemKeeps
<1>8. CASE CurrentReasoning = None
  <2>0. ~ParserAt(parser, i, type, n)
    <3> SUFFICES ASSUME ParserAt(parser, i, type, n) PROVE FALSE
      OBVIOUS
    <3>1. parser.current = i /\ parser.active[i] = ActiveOf(type, i, n) /\ ActiveOf(type, i, n) # None
      BY <1>2, <1>8 DEF ParserAt, CurrentOf, ActiveOf, Midway, Length, None
    <3>2. CurrentReasoning # None
      BY <3>1, <1>2 DEF CurrentReasoning
    <3> QED
      BY <3>2, <1>2, <1>8
  <2>1. parser' = parser /\ Emit(<<>>)
    BY <1>8, <1>2, <1>8, EmitNone DEF SummaryTextDelta
  <2>2. Became(parser.ongoing, parser.active, parser.current, parser.text)
    BY <2>1, <1>2, SetNothing
  <2>4. ParserAt(parser, i, type, n) => ParserAt(parser', i, type, n + 1) /\ OthersStay(i)
    BY <2>0
  <2>7. FitsAll(<<>>) /\ <<>> \in Seq({})
    BY OutNone
  <2>8. ASSUME NEW t, ParserAt(parser, i, type, n), Held(t, i, BlocksOf(type, i, n), Made(type, n))
        PROVE  Moves(t, <<>>, i, BlocksOf(type, i, n + 1), Made(type, n + 1))
    BY <2>0, <2>8
  <2>9. ParserTyped' /\ type = Type(i) /\ n = answer.sent[i] /\ Emit(<<>>)
    BY <2>1, <2>2 DEF Became, type, n
  <2> QED
    BY <2>4, <2>7, <2>8, <2>9, <1>2, ItemKeeps
<1> QED
  BY <1>6, <1>7, <1>8, <1>2 DEF ItemTypes

-----------------------------------------------------------------------------
(* CopilotResponses: the other steps, and the whole.                       *)

LEMMA SetFinish ==
  ASSUME ParserTyped, Items' = Items, NEW x
  PROVE  parser' = [parser EXCEPT !.finish = x] => Became(parser.ongoing, parser.active, parser.current, parser.text)
<1>0. /\ parser.ongoing \in [Items -> Ids \cup {None}] /\ parser.active \in [Items -> Actives]
      /\ parser.current \in Items \cup {0} /\ parser.text \in Ids \cup {None}
  BY ParserIs
<1>1. ASSUME parser' = [parser EXCEPT !.finish = x]
      PROVE  parser' = Parser(parser.ongoing, parser.hasFunctionCall, parser.active, parser.current, parser.text, x)
  BY <1>1, ParserIs DEF Parser
<1>2. ASSUME parser' = Parser(parser.ongoing, parser.hasFunctionCall, parser.active, parser.current, parser.text, x)
      PROVE  Became(parser.ongoing, parser.active, parser.current, parser.text)
  BY <1>0, <1>2, ParserBecomes
<1> QED
  BY <1>1, <1>2

LEMMA MatchStays ==
  ASSUME NEW t, ResponsesMatch(t), answer'.items = answer.items, answer'.sent = answer.sent,
         parser'.ongoing = parser.ongoing, parser'.active = parser.active,
         parser'.current = parser.current, parser'.text = parser.text
  PROVE  ResponsesMatch(t)'
  BY DEF ResponsesMatch, Items, Type, InText, InReasoning

LEMMA EndsNext ==
  ASSUME Orderly, NEW x, answer' = [answer EXCEPT !.ends = x]
  PROVE  Orderly' /\ Items' = Items /\ answer'.items = answer.items /\ answer'.sent = answer.sent
<1>1. PICK items \in Seq(ItemTypes) : \E sent \in [DOMAIN items -> Nat] : \E ends :
         answer = [items |-> items, sent |-> sent, ends |-> ends]
  BY DEF Orderly, WellAnswered
<1>2. PICK sent \in [DOMAIN items -> Nat] : \E ends : answer = [items |-> items, sent |-> sent, ends |-> ends]
  BY <1>1
<1>3. answer' = [items |-> items, sent |-> sent, ends |-> x]
  BY <1>2
<1>4. WellAnswered(ItemTypes)'
  BY <1>3 DEF WellAnswered
<1>5. answer'.items = answer.items /\ answer'.sent = answer.sent
  BY <1>2, <1>3
<1> QED
  BY <1>4, <1>5 DEF Orderly, Items, Type

\* An error part: from then on only the finish is promised.
LEMMA EmitsError ==
  ASSUME NEW t, Leads(Mark(view), queue, t), t.phase = "open", t.errored \in BOOLEAN,
         Emit(<<Part("error", None)>>), UNCHANGED view
  PROVE  \E w : Leads(Mark(view'), queue', w) /\ w.phase = "open" /\ w.errored = TRUE
<1> DEFINE p == Part("error", None)
<1>1. Fits(p) /\ Allowed(t, p) /\ Failing(Apply(t, p))
  BY NotesFit, ErrorDoes
<1> HIDE DEF p
<1>2. Emit(<<p>>)
  BY DEF p
<1>3. PICK w : /\ Leads(Mark(view'), queue', w) /\ w.phase = "open" /\ w.errored \in BOOLEAN
               /\ ~w.errored => ~t.errored /\ w = Apply(t, p)
  BY <1>1, <1>2, EmitsOne
<1>4. w.errored = TRUE
  BY <1>1, <1>3 DEF Failing
<1> QED
  BY <1>3, <1>4

LEMMA UnparsableKeeps ==
  ASSUME ResponsesInv, NEW i \in Items, UnparsableChunk(i)
  PROVE  ResponsesInv'
<1>1. /\ MaySend(i) /\ answer' = [answer EXCEPT !.sent[i] = @ + 1] /\ UNCHANGED view
      /\ parser' = [parser EXCEPT !.finish = <<"error">>] /\ Emit(<<Part("error", None)>>)
  BY DEF UnparsableChunk
<1>2. Orderly' /\ Items' = Items
  BY <1>1, OrderlyNext, AnswerNext DEF ResponsesInv, ResponsesTyped, Orderly
<1>3. ParserTyped'
  BY <1>1, <1>2, SetFinish DEF ResponsesInv, ResponsesTyped, Became
<1>4. PICK t : Leads(Mark(view), queue, t) /\ t.phase = "open" /\ t.errored \in BOOLEAN
  BY DEF ResponsesInv, ResponsesOwed
<1>5. PICK w : Leads(Mark(view'), queue', w) /\ w.phase = "open" /\ w.errored = TRUE
  BY <1>1, <1>4, EmitsError
<1>6. ResponsesOwed'
  BY <1>5 DEF ResponsesOwed
<1> QED
  BY <1>2, <1>3, <1>6 DEF ResponsesInv, ResponsesTyped

LEMMA CreatedKeeps == ASSUME ResponsesInv, Created PROVE ResponsesInv'
<1> DEFINE p == Part("response-metadata", None)
<1>1. UNCHANGED <<answer, parser, view>> /\ Emit(<<p>>)
  BY DEF Created
<1>2. ResponsesTyped'
  BY <1>1 DEF ResponsesInv, ResponsesTyped, Orderly, WellAnswered, Items, Type, ParserTyped
<1>3. PICK t : Leads(Mark(view), queue, t) /\ t.phase = "open" /\ t.errored \in BOOLEAN /\ (~t.errored => ResponsesMatch(t))
  BY DEF ResponsesInv, ResponsesOwed
<1>4. Fits(p) /\ Allowed(t, p) /\ Apply(t, p) = State("open", t.open, t.called, t.errored)
  BY <1>3, NotesFit, NoteDoes
<1> HIDE DEF p
<1>5. PICK w : /\ Leads(Mark(view'), queue', w) /\ w.phase = "open" /\ w.errored \in BOOLEAN
               /\ ~w.errored => ~t.errored /\ w = Apply(t, p)
  BY <1>1, <1>3, <1>4, EmitsOne
<1>6. ~w.errored => ResponsesMatch(w)'
  <2>1. ~w.errored => ResponsesMatch(t)'
    BY <1>1, <1>3, <1>5, MatchStays
  <2>2. ~w.errored => w.open = t.open /\ w.called = t.called
    BY <1>4, <1>5, StateIs
  <2> QED
    BY <2>1, <2>2 DEF ResponsesMatch
<1> QED
  BY <1>2, <1>5, <1>6 DEF ResponsesInv, ResponsesOwed

LEMMA FinishedKeeps == ASSUME ResponsesInv, ResponseFinished PROVE ResponsesInv'
<1>1. UNCHANGED <<queue, view>>
  BY DEF ResponseFinished
<1>2. PICK ends : /\ answer' = [answer EXCEPT !.ends = <<ends>>]
                  /\ parser' = [parser EXCEPT !.finish = <<MapFinishReason(ends, parser.hasFunctionCall)>>]
  BY DEF ResponseFinished
<1>3. Orderly' /\ Items' = Items /\ answer'.items = answer.items /\ answer'.sent = answer.sent
  BY <1>2, EndsNext DEF ResponsesInv, ResponsesTyped
<1>4. Became(parser.ongoing, parser.active, parser.current, parser.text)
  BY <1>2, <1>3, SetFinish DEF ResponsesInv, ResponsesTyped
<1>5. \A t : ResponsesMatch(t) => ResponsesMatch(t)'
  BY <1>3, <1>4, MatchStays DEF Became
<1> QED
  BY <1>1, <1>3, <1>4, <1>5 DEF ResponsesInv, ResponsesTyped, ResponsesOwed, Became

LEMMA ErrorKeeps == ASSUME ResponsesInv, ErrorChunk PROVE ResponsesInv'
<1>1. UNCHANGED <<answer, parser, view>> /\ Emit(<<Part("error", None)>>)
  BY DEF ErrorChunk
<1>2. ResponsesTyped'
  BY <1>1 DEF ResponsesInv, ResponsesTyped, Orderly, WellAnswered, Items, Type, ParserTyped
<1>3. PICK t : Leads(Mark(view), queue, t) /\ t.phase = "open" /\ t.errored \in BOOLEAN
  BY DEF ResponsesInv, ResponsesOwed
<1>4. PICK w : Leads(Mark(view'), queue', w) /\ w.phase = "open" /\ w.errored = TRUE
  BY <1>1, <1>3, EmitsError
<1> QED
  BY <1>2, <1>4 DEF ResponsesInv, ResponsesOwed

LEMMA CutKeeps == ASSUME ResponsesInv, UNCHANGED <<answer, parser, queue, view>> PROVE ResponsesInv'
<1>1. ResponsesTyped'
  BY DEF ResponsesInv, ResponsesTyped, Orderly, WellAnswered, Items, Type, ParserTyped
<1>2. \A t : ResponsesMatch(t) => ResponsesMatch(t)'
  BY MatchStays
<1> QED
  BY <1>1, <1>2 DEF ResponsesInv, ResponsesOwed

\* A stream ends with its finish, no text of its attempt being open.
LEMMA EmitsFinish ==
  ASSUME NEW t, Leads(Mark(view), queue, t), t.phase = "open", t.errored \in BOOLEAN, UNCHANGED view,
         NEW S, NEW out \in Seq(S), FitsAll(out), NEW id \in Ids, NEW data,
         Emit(out \o <<PartOf("finish", id, data)>>),
         NEW u, ~t.errored => /\ Leads(t, out, u) /\ u.phase = "open" /\ u.errored \in BOOLEAN
                              /\ \A b \in u.open : b[1] = "text" => Head(b[2]) # Head(id)
  PROVE  \E w : Leads(Mark(view'), queue', w)
<1> DEFINE p == PartOf("finish", id, data)
<1>1. \E v : /\ Leads(t, out, v) /\ v.phase = "open"
             /\ ~v.errored => \A b \in v.open : b[1] = "text" => Head(b[2]) # Head(id)
  <2>1. CASE t.errored
    <3>1. Failing(t)
      BY <2>1 DEF Failing
    <3> QED
      BY <3>1, LeadsFailed DEF Failing
  <2>2. CASE ~t.errored
    BY <2>2
  <2> QED
    BY <2>1, <2>2
<1>2. PICK v : /\ Leads(t, out, v) /\ v.phase = "open"
               /\ ~v.errored => \A b \in v.open : b[1] = "text" => Head(b[2]) # Head(id)
  BY <1>1
<1>3. Allowed(v, p)
  BY <1>2, FinishDoes
<1>4. Leads(v, <<p>>, Apply(v, p))
  BY <1>3, LeadsOne
<1>5. Leads(t, out \o <<p>>, Apply(v, p))
  BY <1>2, <1>4, LeadsOn
<1>6. queue' = queue \o (out \o <<p>>)
  BY DEF Emit
<1> QED
  BY <1>5, <1>6, LeadsOn

LEMMA FlushLeads == ASSUME ResponsesInv, ResponsesFlush PROVE \E w : Leads(Mark(view'), queue', w)
<1> DEFINE p == Part("text-end", parser.text)
           out == IF parser.text # None THEN <<p>> ELSE <<>>
<1>1. UNCHANGED view /\ queue = <<>> /\ Emit(out \o <<PartOf("finish", <<1>>, parser.finish)>>)
  BY DEF ResponsesFlush
<1>2. PICK t : Leads(Mark(view), queue, t) /\ t.phase = "open" /\ t.errored \in BOOLEAN /\ (~t.errored => ResponsesMatch(t))
  BY DEF ResponsesInv, ResponsesOwed
<1>3. parser.text \in Ids \cup {None}
  BY ParserIs DEF ResponsesInv, ResponsesTyped
<1>4. <<1>> \in Ids /\ Head(<<1>>) = 1
  BY DEF Ids, None
<1>5. FitsAll(out) /\ out \in Seq({p})
  <2>1. CASE parser.text # None
    <3>1. Fits(p)
      BY <2>1, <1>3, PartsFit, KindsAre
    <3> HIDE DEF p
    <3> QED
      BY <2>1, <3>1, OutOne
  <2>2. CASE parser.text = None
    <3>1. out = <<>> /\ <<>> \in Seq({p})
      BY <2>2
    <3> QED
      BY <3>1, OutNone
  <2> QED
    BY <2>1, <2>2
<1>6. ~t.errored => \A b \in t.open : b[1] = "text" => b = <<"text", parser.text>> /\ parser.text # None
  <2> SUFFICES ASSUME ~t.errored, NEW b \in t.open, b[1] = "text" PROVE b = <<"text", parser.text>> /\ parser.text # None
    OBVIOUS
  <2>1. PICK i \in Items : b \in BlocksOf(Type(i), i, answer.sent[i])
    BY <1>2 DEF ResponsesMatch
  <2>2. b = <<"text", <<1, i, 0>>>> /\ InText(i)
    BY <2>1 DEF BlocksOf, InText
  <2>3. parser.text = <<1, i, 0>>
    BY <2>2, <1>2 DEF ResponsesMatch
  <2> QED
    BY <2>2, <2>3 DEF None
<1>7. ~t.errored /\ parser.text # None => <<"text", parser.text>> \in t.open
  <2> SUFFICES ASSUME ~t.errored, parser.text # None PROVE <<"text", parser.text>> \in t.open
    OBVIOUS
  <2>1. PICK i \in Items : InText(i)
    BY <1>2 DEF ResponsesMatch
  <2>2. parser.text = <<1, i, 0>>
    BY <2>1, <1>2 DEF ResponsesMatch
  <2>3. <<"text", <<1, i, 0>>>> \in BlocksOf(Type(i), i, answer.sent[i])
    BY <2>1 DEF BlocksOf, InText, InputTypes, TextTypes
  <2> QED
    BY <2>2, <2>3, <1>2 DEF ResponsesMatch
<1>8. PICK u : ~t.errored => /\ Leads(t, out, u) /\ u.phase = "open" /\ u.errored \in BOOLEAN
                             /\ \A b \in u.open : b[1] # "text"
  <2>1. CASE ~t.errored /\ parser.text # None
    <3>1. KindOf("text-end") = "text" /\ "text-end" \in EndTypes
      BY KindsAre
    <3>2. Allowed(t, p) /\ Apply(t, p) = State("open", t.open \ {<<"text", parser.text>>}, t.called, t.errored)
      BY <2>1, <3>1, <1>2, <1>3, <1>7, EndDoes
    <3>3. /\ Apply(t, p).phase = "open" /\ Apply(t, p).errored = t.errored
          /\ Apply(t, p).open = t.open \ {<<"text", parser.text>>}
      BY <3>2, StateIs
    <3>4. Leads(t, out, Apply(t, p))
      BY <2>1, <3>2, LeadsOne
    <3> HIDE DEF p, out
    <3>5. \A b \in Apply(t, p).open : b[1] # "text"
      BY <2>1, <3>3, <1>6
    <3> QED
      BY <3>3, <3>4, <3>5, <1>2
  <2>2. CASE ~t.errored /\ parser.text = None
    BY <2>2, <1>2, <1>6, LeadsNowhere
  <2> QED
    BY <2>1, <2>2
<1> HIDE DEF out, p
<1> QED
  BY <1>1, <1>2, <1>4, <1>5, <1>8, EmitsFinish

LEMMA ResponsesKeep ==
  ASSUME ResponsesInv, ResponsesNext
  PROVE  UNCHANGED <<provider, view>> /\ IF wire' = "closed" THEN \E w : Leads(Mark(view'), queue', w) ELSE ResponsesInv'
<1>1. ASSUME NEW i \in Items, OnItem(i) PROVE UNCHANGED <<provider, view, wire>> /\ ResponsesInv'
  <2>1. UNCHANGED <<provider, view, wire>>
    BY <1>1 DEF OnItem, OutputItemAdded, OutputItemDone, InputChunk, CodeDone, PartialImage, TextDelta,
                SummaryPartAdded, SummaryTextDelta, AnnotationAdded, UnparsableChunk, Chunk
  <2>2. ResponsesInv'
    BY <1>1, AddedKeeps, DoneKeeps, InputKeeps, CodeKeeps, ImageKeeps, TextKeeps, SummaryPartKeeps,
       SummaryTextKeeps, AnnotationKeeps, UnparsableKeeps DEF OnItem
  <2> QED
    BY <2>1, <2>2
<1>2. CASE \E i \in Items : OnItem(i)
  <2>1. UNCHANGED <<provider, view, wire>> /\ ResponsesInv'
    BY <1>1, <1>2
  <2>2. wire # "closed"
    BY <1>2 DEF OnItem, OutputItemAdded, OutputItemDone, InputChunk, CodeDone, PartialImage, TextDelta,
                SummaryPartAdded, SummaryTextDelta, AnnotationAdded, UnparsableChunk, Chunk
  <2> QED
    BY <2>1, <2>2
<1>3. CASE Created
  BY <1>3, CreatedKeeps DEF Created
<1>4. CASE ResponseFinished
  BY <1>4, FinishedKeeps DEF ResponseFinished
<1>5. CASE ErrorChunk
  BY <1>5, ErrorKeeps DEF ErrorChunk
<1>6. CASE CutShort
  BY <1>6, CutKeeps DEF CutShort
<1>7. CASE ResponsesFlush
  BY <1>7, FlushLeads DEF ResponsesFlush
<1> QED
  BY <1>2, <1>3, <1>4, <1>5, <1>6, <1>7 DEF ResponsesNext

=============================================================================
