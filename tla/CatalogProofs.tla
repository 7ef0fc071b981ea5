--------------------------- MODULE CatalogProofs ---------------------------
(***************************************************************************)
(* That the index of paths, the child links and the entries of every       *)
(* replica stay one tree, for any number of names, entries and operations. *)
(*                                                                         *)
(* Tree says of a document what the index of paths has to do with its      *)
(* entries and links; TrackInv says of every replica what it has changed   *)
(* since the last exchange: only keys about the places it worked in, and   *)
(* about entries it made.  With both, replicas that work in different      *)
(* places change different keys, and the merge has at every path what one  *)
(* of them has there.                                                      *)
(***************************************************************************)
EXTENDS Catalog, SequenceTheorems, FiniteSetTheorems, WellFoundedInduction, TLAPS

Parent(s, e) == s[<<"parent", e>>]
NameOf(s, e) == s[<<"name", e>>]
Entry(s, p) == s[<<"path", p>>]

Typed(s) ==
  /\ DOMAIN s = Keys
  /\ \A e \in Ids : Type(s, e) \in {"file", "directory", Absent}
  /\ \A d \in Ids, n \in Names : Child(s, d, n) \in Ids \cup {Absent}
  /\ \A p \in Paths : Entry(s, p) \in Ids \cup {Absent}

\* No two paths have the same entry, the entry of a path is what its directory links to,
\* by its name, and every entry and every link is at some path.
Unique(s) == \A p, q \in Paths : Entry(s, p) = Entry(s, q) /\ Entry(s, p) # Absent => p = q
Filed(s, p) ==
  LET e == Entry(s, p)
      d == Entry(s, Front(p))
  IN  /\ d # Absent /\ Type(s, d) = "directory" /\ Type(s, e) # Absent
      /\ Parent(s, e) = d /\ NameOf(s, e) = Last(p) /\ Child(s, d, Last(p)) = e
Linked(s, d, n) == \E p \in Paths : Append(p, n) \in Paths /\ Entry(s, p) = d /\ Entry(s, Append(p, n)) = Child(s, d, n)

Tree(s) ==
  /\ Entry(s, <<>>) = Root /\ Type(s, Root) = "directory"
  /\ Unique(s)
  /\ \A p \in Paths : p # <<>> /\ Entry(s, p) # Absent => Filed(s, p)
  /\ \A e \in Live(s) : \E p \in Paths : Entry(s, p) = e
  /\ \A d \in Ids, n \in Names : Child(s, d, n) # Absent => Linked(s, d, n)

\* What a replica has left as the last exchange had it, and the paths it worked at or above.
Alone(r, k) == k \notin wrote[r] /\ doc[r][k] = base[k]
Near(r, p) == \E t \in touched[r] : IsPrefixOf(t, p)
New(r, e) == <<"type", e>> \in wrote[r]

TrackInv(r) ==
  /\ touched[r] \subseteq Paths \ {<<>>}
  /\ wrote[r] \subseteq Keys
  /\ \A k \in Keys : k \notin wrote[r] => doc[r][k] \in {Absent, base[k]}
  /\ \A p \in Paths : Alone(r, <<"path", p>>) \/ Near(r, p)
  /\ \A e \in Ids, f \in {"type", "parent", "name"} :
       Alone(r, <<f, e>>) \/ New(r, e) \/ \E p \in Paths : Entry(base, p) = e /\ Near(r, p)
  /\ \A d \in Ids, n \in Names :
       Alone(r, <<"child", d, n>>) \/ New(r, d) \/ \E p \in Paths : Entry(base, p) = d /\ Near(r, Append(p, n))
  /\ \A e \in Ids : New(r, e) => Type(base, e) = Absent /\ e <= made

NewOnce == \A r, q \in Replicas : \A e \in Ids : New(r, e) /\ New(q, e) => r = q
Counted(s) == \A e \in Live(s) : e <= made

Good(s) == Typed(s) /\ Tree(s) /\ Counted(s)
Shape ==
  /\ made \in 0..MaxEntries
  /\ DOMAIN doc = Replicas /\ DOMAIN wrote = Replicas /\ DOMAIN touched = Replicas

IInv ==
  tangled \/ (/\ Shape /\ Good(base) /\ NewOnce
              /\ \A r \in Replicas : Good(doc[r]) /\ TrackInv(r))


-----------------------------------------------------------------------------
(* Paths and keys.                                                         *)

LEMMA PathsAre == \A p : p \in Paths <=> p \in Seq(Names) /\ Len(p) <= MaxDepth
<1>1. ASSUME NEW p \in Paths PROVE p \in Seq(Names) /\ Len(p) <= MaxDepth
  BY <1>1, CatalogAssumption DEF Paths
<1>2. ASSUME NEW p \in Seq(Names), Len(p) <= MaxDepth PROVE p \in Paths
  <2>1. Len(p) \in 0..MaxDepth /\ p \in [1..Len(p) -> Names] BY <1>2, CatalogAssumption
  <2> QED BY <2>1 DEF Paths
<1> QED BY <1>1, <1>2

LEMMA Appending ==
  ASSUME NEW p \in Seq(Names), NEW n \in Names
  PROVE  /\ Append(p, n) \in Seq(Names) /\ Append(p, n) # <<>> /\ Len(Append(p, n)) = Len(p) + 1
         /\ Front(Append(p, n)) = p /\ Last(Append(p, n)) = n
BY DEF Front, Last

LEMMA Fronts ==
  ASSUME NEW p \in Paths, p # <<>>
  PROVE  /\ Front(p) \in Paths /\ Last(p) \in Names /\ Append(Front(p), Last(p)) = p /\ Front(p) # p
         /\ Len(Front(p)) = Len(p) - 1 /\ Len(p) > 0
<1>1. p \in Seq(Names) /\ Len(p) <= MaxDepth BY PathsAre
<1>2. Len(p) \in Nat \ {0} BY <1>1
<1>3. Front(p) \in Seq(Names) /\ Len(Front(p)) = Len(p) - 1 /\ Last(p) \in Names
  <2>1. Last(p) \in Names BY <1>1, <1>2 DEF Last
  <2>2. Len(p) - 1 \in Nat /\ Len(p) - 1 <= Len(p) BY <1>2
  <2> DEFINE n == Len(p) - 1
  <2>3. SubSeq(p, 1, n) \in Seq(Names) /\ Len(SubSeq(p, 1, n)) = n
    <3>1. \A i \in 1..n : p[i] \in Names BY <1>1, <2>2
    <3>2. n \in Nat BY <2>2
    <3> HIDE DEF n
    <3> QED BY <3>1, <3>2, SubSeqProperties
  <2> QED BY <2>1, <2>3 DEF Front
<1>4. Append(Front(p), Last(p)) = p
  BY <1>1, <1>2, <1>3 DEF Front, Last
<1>5. Front(p) \in Paths BY <1>1, <1>3, PathsAre, CatalogAssumption
<1> QED BY <1>2, <1>3, <1>4, <1>5

LEMMA KeysAre ==
  /\ \A e \in Ids : <<"type", e>> \in Keys /\ <<"parent", e>> \in Keys /\ <<"name", e>> \in Keys /\ <<"content", e>> \in Keys
  /\ \A d \in Ids, n \in Names : <<"child", d, n>> \in Keys
  /\ \A p \in Paths : <<"path", p>> \in Keys
BY DEF Keys

LEMMA PrefixFacts ==
  ASSUME NEW p \in Seq(Names), NEW q \in Seq(Names), NEW t \in Seq(Names), NEW n \in Names
  PROVE  /\ IsPrefixOf(p, p)
         /\ IsPrefixOf(t, p) => IsPrefixOf(t, Append(p, n))
         /\ IsPrefixOf(t, p) /\ IsPrefixOf(q, p) => IsPrefixOf(t, q) \/ IsPrefixOf(q, t)
         /\ IsPrefixOf(p, <<>>) <=> p = <<>>
<1>1. /\ DOMAIN p = 1..Len(p) /\ DOMAIN t = 1..Len(t) /\ DOMAIN q = 1..Len(q)
      /\ Len(p) \in Nat /\ Len(t) \in Nat /\ Len(q) \in Nat
  <2>1. \A s \in Seq(Names) : DOMAIN s = 1..Len(s) /\ Len(s) \in Nat OBVIOUS
  <2> QED BY <2>1
<1>2. IsPrefixOf(p, p) BY <1>1 DEF IsPrefixOf
<1>3. IsPrefixOf(t, p) => IsPrefixOf(t, Append(p, n))
  <2>1. \A i \in 1..Len(p) : Append(p, n)[i] = p[i] OBVIOUS
  <2>2. Len(Append(p, n)) = Len(p) + 1 OBVIOUS
  <2> QED BY <1>1, <2>1, <2>2 DEF IsPrefixOf
<1>4. IsPrefixOf(t, p) /\ IsPrefixOf(q, p) => IsPrefixOf(t, q) \/ IsPrefixOf(q, t)
  <2> SUFFICES ASSUME IsPrefixOf(t, p), IsPrefixOf(q, p) PROVE IsPrefixOf(t, q) \/ IsPrefixOf(q, t)
    OBVIOUS
  <2>1. CASE Len(t) <= Len(q)
    <3>1. \A i \in 1..Len(t) : t[i] = p[i] /\ i \in 1..Len(q) /\ q[i] = p[i] BY <1>1, <2>1 DEF IsPrefixOf
    <3> QED BY <1>1, <2>1, <3>1 DEF IsPrefixOf
  <2>2. CASE Len(q) <= Len(t)
    <3>1. \A i \in 1..Len(q) : q[i] = p[i] /\ i \in 1..Len(t) /\ t[i] = p[i] BY <1>1, <2>2 DEF IsPrefixOf
    <3> QED BY <1>1, <2>2, <3>1 DEF IsPrefixOf
  <2> QED BY <1>1, <2>1, <2>2
<1>5. IsPrefixOf(p, <<>>) <=> p = <<>>
  <2>1. Len(p) = 0 <=> p = <<>> OBVIOUS
  <2> QED BY <1>1, <2>1 DEF IsPrefixOf
<1> QED BY <1>2, <1>3, <1>4, <1>5

-----------------------------------------------------------------------------
(* Two replicas that worked in different places.                           *)

Disjoint(x, y) ==
  /\ x \in Replicas /\ y \in Replicas /\ x # y /\ NewOnce
  /\ Good(base) /\ Good(doc[x]) /\ Good(doc[y]) /\ TrackInv(x) /\ TrackInv(y)
  /\ \A p \in touched[x], q \in touched[y] : ~IsPrefixOf(p, q) /\ ~IsPrefixOf(q, p)

\* What m has of the keys that y has left alone.
Takes(m, x, y) ==
  /\ \A e \in Ids : Alone(y, <<"type", e>>) => Type(m, e) = Type(doc[x], e)
  /\ \A e \in Live(m) : /\ Alone(y, <<"parent", e>>) => Parent(m, e) = Parent(doc[x], e)
                        /\ Alone(y, <<"name", e>>) => NameOf(m, e) = NameOf(doc[x], e)
  /\ \A d \in Ids, n \in Names : Alone(y, <<"child", d, n>>) => Child(m, d, n) = Child(doc[x], d, n)
  /\ \A p \in Paths : Alone(y, <<"path", p>>) => Entry(m, p) = Entry(doc[x], p)

LEMMA DisjointSym ==
  ASSUME NEW x, NEW y, Disjoint(x, y)
  PROVE  Disjoint(y, x)
BY DEF Disjoint

\* No path is near what both replicas worked at.
LEMMA NotBothNear ==
  ASSUME NEW x, NEW y, Disjoint(x, y), NEW p \in Seq(Names), Near(x, p), Near(y, p)
  PROVE  FALSE
<1>1. PICK t \in touched[x] : IsPrefixOf(t, p) BY DEF Near
<1>2. PICK u \in touched[y] : IsPrefixOf(u, p) BY DEF Near
<1>3. t \in Seq(Names) /\ u \in Seq(Names) BY PathsAre DEF Disjoint, TrackInv
<1>4. IsPrefixOf(t, u) \/ IsPrefixOf(u, t) BY <1>1, <1>2, <1>3, PrefixFacts
<1> QED BY <1>4 DEF Disjoint

\* The entry of a path lives.
LEMMA EntryLives ==
  ASSUME NEW s, Typed(s), Tree(s), NEW p \in Paths, Entry(s, p) # Absent
  PROVE  Entry(s, p) \in Live(s) /\ Entry(s, p) \in Ids
<1>1. Entry(s, p) \in Ids BY DEF Typed
<1>2. CASE p = <<>>
  <2>1. Type(s, Root) # Absent BY CatalogAssumption DEF Tree
  <2> QED BY <1>1, <1>2, <2>1 DEF Tree, Live
<1>3. CASE p # <<>>
  <2>1. Filed(s, p) BY <1>3 DEF Tree
  <2> QED BY <1>1, <2>1 DEF Filed, Live
<1> QED BY <1>2, <1>3

LEMMA NearAppend ==
  ASSUME NEW r, TrackInv(r), NEW p \in Seq(Names), NEW n \in Names, Near(r, p)
  PROVE  Near(r, Append(p, n))
<1>1. PICK t \in touched[r] : IsPrefixOf(t, p) BY DEF Near
<1>2. t \in Seq(Names) BY PathsAre DEF TrackInv
<1> QED BY <1>1, <1>2, PrefixFacts DEF Near

\* An entry that lives in x, and that x has not made, has its path of the last exchange,
\* unless x has worked there.
LEMMA Stayed ==
  ASSUME NEW x, Good(base), Good(doc[x]), TrackInv(x), NEW e \in Live(doc[x]), ~New(x, e)
  PROVE  \E p \in Paths : /\ Entry(base, p) = e
                          /\ Near(x, p) \/ Entry(doc[x], p) = e
<1>1. e \in Ids /\ <<"type", e>> \in Keys BY KeysAre DEF Live
<1>2. doc[x][<<"type", e>>] \in {Absent, base[<<"type", e>>]} BY <1>1 DEF TrackInv, New
<1>3. Type(base, e) # Absent BY <1>2 DEF Live, Type
<1>4. PICK p \in Paths : Entry(base, p) = e BY <1>1, <1>3 DEF Good, Tree, Live
<1>5. Near(x, p) \/ Alone(x, <<"path", p>>) BY DEF TrackInv
<1>6. Alone(x, <<"path", p>>) => Entry(doc[x], p) = e BY <1>4 DEF Alone, Entry
<1> QED BY <1>4, <1>5, <1>6

\* What x has at a path y has not worked at: y has neither made it nor moved it.
LEMMA LeftByOther ==
  ASSUME NEW x, NEW y, Disjoint(x, y), NEW p \in Paths, Entry(doc[x], p) # Absent, ~Near(y, p)
  PROVE  /\ ~New(y, Entry(doc[x], p))
         /\ \A q \in Paths : Entry(base, q) = Entry(doc[x], p) /\ Near(y, q) => FALSE
<1> DEFINE e == Entry(doc[x], p)
<1>1. e \in Live(doc[x]) /\ e \in Ids BY EntryLives DEF Disjoint, Good
<1>2. ASSUME New(y, e) PROVE FALSE
  <2>1. Type(base, e) = Absent BY <1>1, <1>2 DEF Disjoint, TrackInv
  <2>2. New(x, e)
    <3>1. SUFFICES ASSUME ~New(x, e) PROVE FALSE OBVIOUS
    <3>2. \E q \in Paths : Entry(base, q) = e BY <1>1, <3>1, Stayed DEF Disjoint
    <3>3. e \in Live(base) BY <1>1, <3>2, EntryLives, CatalogAssumption DEF Disjoint, Good, Ids
    <3> QED BY <2>1, <3>3 DEF Live
  <2> QED BY <1>1, <1>2, <2>2 DEF Disjoint, NewOnce
<1>3. ASSUME NEW q \in Paths, Entry(base, q) = e, Near(y, q) PROVE FALSE
  <2>1. ~Near(x, q) BY <1>3, NotBothNear, PathsAre
  <2>2. Alone(x, <<"path", q>>) BY <2>1 DEF Disjoint, TrackInv
  <2>3. Entry(doc[x], q) = e BY <1>3, <2>2 DEF Alone, Entry
  <2>4. q = p BY <2>3, <1>1 DEF Disjoint, Good, Tree, Unique
  <2> QED BY <1>3, <2>4
<1> QED BY <1>2, <1>3

\* So y has left alone what the entry is, and its links to where y has not worked.
LEMMA LeftAlone ==
  ASSUME NEW x, NEW y, Disjoint(x, y), NEW p \in Paths, Entry(doc[x], p) # Absent, ~Near(y, p)
  PROVE  /\ Alone(y, <<"path", p>>)
         /\ \A f \in {"type", "parent", "name"} : Alone(y, <<f, Entry(doc[x], p)>>)
<1> DEFINE e == Entry(doc[x], p)
<1>1. e \in Ids BY EntryLives DEF Disjoint, Good
<1>2. ~New(y, e) /\ ~\E q \in Paths : Entry(base, q) = e /\ Near(y, q) BY LeftByOther
<1>3. TrackInv(y) BY DEF Disjoint
<1>4. \A f \in {"type", "parent", "name"} : Alone(y, <<f, e>>) BY <1>1, <1>2, <1>3 DEF TrackInv
<1>5. Alone(y, <<"path", p>>) BY <1>3 DEF TrackInv
<1> QED BY <1>4, <1>5

\* Nor has the other replica touched a link from a directory that one has at a path.
LEMMA LinkLeftAlone ==
  ASSUME NEW x, NEW y, Disjoint(x, y), NEW p \in Paths, NEW n \in Names,
         Entry(doc[x], p) # Absent, ~Near(y, Append(p, n))
  PROVE  Alone(y, <<"child", Entry(doc[x], p), n>>)
<1> DEFINE d == Entry(doc[x], p)
<1>1. d \in Ids BY EntryLives DEF Disjoint, Good
<1>2. p \in Seq(Names) BY PathsAre
<1>3. ~Near(y, p) BY <1>2, NearAppend DEF Disjoint
<1>4. ~New(y, d) BY <1>3, LeftByOther
<1>5. ASSUME NEW q \in Paths, Entry(base, q) = d, Near(y, Append(q, n)) PROVE FALSE
  <2>1. q \in Seq(Names) /\ Append(q, n) \in Seq(Names) BY PathsAre, Appending
  <2>2. ~Near(x, Append(q, n)) BY <1>5, <2>1, NotBothNear
  <2>3. ~Near(x, q) BY <2>1, <2>2, NearAppend DEF Disjoint
  <2>4. Alone(x, <<"path", q>>) BY <2>3 DEF Disjoint, TrackInv
  <2>5. Entry(doc[x], q) = d BY <1>5, <2>4 DEF Alone, Entry
  <2>6. q = p BY <1>1, <2>5, CatalogAssumption DEF Disjoint, Good, Tree, Unique, Ids
  <2> QED BY <1>5, <2>6
<1>6. TrackInv(y) BY DEF Disjoint
<1> QED BY <1>1, <1>4, <1>5, <1>6 DEF TrackInv

\* At least one of the two has left a key alone.
LEMMA OneLeavesAlone ==
  ASSUME NEW x, NEW y, Disjoint(x, y)
  PROVE  /\ \A e \in Ids : Alone(x, <<"type", e>>) \/ Alone(y, <<"type", e>>)
         /\ \A d \in Ids, n \in Names : Alone(x, <<"child", d, n>>) \/ Alone(y, <<"child", d, n>>)
         /\ \A p \in Paths : Alone(x, <<"path", p>>) \/ Alone(y, <<"path", p>>)
<1>1. TrackInv(x) /\ TrackInv(y) /\ Good(base) BY DEF Disjoint
<1>2. ASSUME NEW e \in Ids, NEW p \in Paths, Entry(base, p) = e
      PROVE  Type(base, e) # Absent
  BY <1>1, <1>2, EntryLives, CatalogAssumption DEF Good, Live, Ids
<1>3. ASSUME NEW e \in Ids, New(x, e) PROVE ~New(y, e) /\ ~\E p \in Paths : Entry(base, p) = e
  BY <1>1, <1>2, <1>3 DEF Disjoint, NewOnce, TrackInv
<1>4. ASSUME NEW e \in Ids, New(y, e) PROVE ~New(x, e) /\ ~\E p \in Paths : Entry(base, p) = e
  BY <1>1, <1>2, <1>4 DEF Disjoint, NewOnce, TrackInv
<1>5. ASSUME NEW p \in Paths, NEW q \in Paths, Entry(base, p) = Entry(base, q), Entry(base, p) \in Ids PROVE p = q
  BY <1>1, <1>5, CatalogAssumption DEF Good, Tree, Unique, Ids
<1>6. ASSUME NEW e \in Ids PROVE Alone(x, <<"type", e>>) \/ Alone(y, <<"type", e>>)
  <2> SUFFICES ASSUME ~Alone(x, <<"type", e>>), ~Alone(y, <<"type", e>>) PROVE FALSE OBVIOUS
  <2>1. New(x, e) \/ \E p \in Paths : Entry(base, p) = e /\ Near(x, p) BY <1>1 DEF TrackInv
  <2>2. New(y, e) \/ \E p \in Paths : Entry(base, p) = e /\ Near(y, p) BY <1>1 DEF TrackInv
  <2>3. PICK p \in Paths : Entry(base, p) = e /\ Near(x, p) BY <1>3, <1>4, <2>1, <2>2
  <2>4. PICK q \in Paths : Entry(base, q) = e /\ Near(y, q) BY <1>3, <1>4, <2>1, <2>2
  <2> QED BY <1>5, <2>3, <2>4, NotBothNear, PathsAre
<1>7. ASSUME NEW d \in Ids, NEW n \in Names PROVE Alone(x, <<"child", d, n>>) \/ Alone(y, <<"child", d, n>>)
  <2> SUFFICES ASSUME ~Alone(x, <<"child", d, n>>), ~Alone(y, <<"child", d, n>>) PROVE FALSE OBVIOUS
  <2>1. New(x, d) \/ \E p \in Paths : Entry(base, p) = d /\ Near(x, Append(p, n)) BY <1>1 DEF TrackInv
  <2>2. New(y, d) \/ \E p \in Paths : Entry(base, p) = d /\ Near(y, Append(p, n)) BY <1>1 DEF TrackInv
  <2>3. PICK p \in Paths : Entry(base, p) = d /\ Near(x, Append(p, n)) BY <1>3, <1>4, <2>1, <2>2
  <2>4. PICK q \in Paths : Entry(base, q) = d /\ Near(y, Append(q, n)) BY <1>3, <1>4, <2>1, <2>2
  <2>5. p = q BY <1>5, <2>3, <2>4
  <2>6. Append(p, n) \in Seq(Names) BY PathsAre, Appending
  <2> QED BY <2>3, <2>4, <2>5, <2>6, NotBothNear
<1>8. ASSUME NEW p \in Paths PROVE Alone(x, <<"path", p>>) \/ Alone(y, <<"path", p>>)
  BY <1>1, NotBothNear, PathsAre DEF TrackInv
<1> QED BY <1>6, <1>7, <1>8

\* At a path that y has not worked at, m has what x has, with its record and links.
LEMMA TakenFromOne ==
  ASSUME NEW x, NEW y, Disjoint(x, y), NEW m, Typed(m), Takes(m, x, y), NEW p \in Paths, ~Near(y, p)
  PROVE  /\ Entry(m, p) = Entry(doc[x], p)
         /\ Entry(m, p) # Absent => Type(m, Entry(m, p)) = Type(doc[x], Entry(m, p))
         /\ p # <<>> /\ Entry(m, p) # Absent => Filed(m, p)
<1> DEFINE e == Entry(doc[x], p)
           d == Entry(doc[x], Front(p))
<1>1. Alone(y, <<"path", p>>) BY DEF Disjoint, TrackInv
<1>2. Entry(m, p) = e BY <1>1 DEF Takes
<1>3. ASSUME e # Absent PROVE Type(m, e) = Type(doc[x], e) /\ e \in Ids /\ e \in Live(m)
  <2>1. e \in Live(doc[x]) /\ e \in Ids BY <1>3, EntryLives DEF Disjoint, Good
  <2>2. Alone(y, <<"type", e>>) BY <1>3, LeftAlone
  <2> QED BY <2>1, <2>2 DEF Takes, Live
<1>4. ASSUME e # Absent, p # <<>> PROVE Filed(m, p)
  <2>1. Filed(doc[x], p) BY <1>4 DEF Disjoint, Good, Tree
  <2>2. Front(p) \in Paths /\ Last(p) \in Names /\ Append(Front(p), Last(p)) = p BY <1>4, Fronts
  <2>3. ~Near(y, Front(p)) BY <2>2, NearAppend, PathsAre DEF Disjoint
  <2>4. d # Absent BY <2>1 DEF Filed
  <2>5. Alone(y, <<"path", Front(p)>>) /\ Alone(y, <<"type", d>>) BY <2>2, <2>3, <2>4, LeftAlone
  <2>6. Alone(y, <<"parent", e>>) /\ Alone(y, <<"name", e>>) BY <1>4, LeftAlone
  <2>7. Alone(y, <<"child", d, Last(p)>>) BY <2>2, <2>4, LinkLeftAlone
  <2>8. d \in Ids BY <2>2, <2>4, EntryLives DEF Disjoint, Good
  <2>9. Entry(m, Front(p)) = d /\ Type(m, d) = Type(doc[x], d) BY <2>2, <2>5, <2>8 DEF Takes
  <2>10. Parent(m, e) = Parent(doc[x], e) /\ NameOf(m, e) = NameOf(doc[x], e) BY <1>3, <1>4, <2>6 DEF Takes
  <2>11. Child(m, d, Last(p)) = Child(doc[x], d, Last(p)) BY <2>2, <2>7, <2>8 DEF Takes
  <2> QED BY <1>2, <1>3, <1>4, <2>1, <2>9, <2>10, <2>11 DEF Filed
<1> QED BY <1>2, <1>3, <1>4

\* Merged, no entry has two paths: not even one that x has and one that y has.
LEMMA UniqueApart ==
  ASSUME NEW x, NEW y, Disjoint(x, y), NEW p \in Paths, NEW q \in Paths,
         Near(x, p), Near(y, q), Entry(doc[x], p) = Entry(doc[y], q), Entry(doc[x], p) # Absent
  PROVE  FALSE
<1> DEFINE e == Entry(doc[x], p)
<1>1. ~Near(y, p) /\ ~Near(x, q) BY NotBothNear, PathsAre
<1>2. Disjoint(y, x) BY DisjointSym
<1>3. ~New(y, e) /\ \A u \in Paths : Entry(base, u) = e /\ Near(y, u) => FALSE BY <1>1, LeftByOther
<1>4. ~New(x, e) /\ \A u \in Paths : Entry(base, u) = e /\ Near(x, u) => FALSE
  <2>1. Entry(doc[y], q) # Absent OBVIOUS
  <2> QED BY <1>1, <1>2, <2>1, LeftByOther
<1>5. e \in Live(doc[x]) BY EntryLives DEF Disjoint, Good
<1>6. PICK u \in Paths : Entry(base, u) = e /\ (Near(x, u) \/ Entry(doc[x], u) = e)
  BY <1>4, <1>5, Stayed DEF Disjoint
<1>7. u = p BY <1>4, <1>6 DEF Disjoint, Good, Tree, Unique
<1> QED BY <1>4, <1>6, <1>7

\* What x still has and y has not moved is in m.
LEMMA LiveOfOne ==
  ASSUME NEW x, NEW y, Disjoint(x, y), NEW m, Typed(m), Takes(m, x, y), Takes(m, y, x),
         NEW e \in Live(m), Alone(y, <<"type", e>>)
  PROVE  \E p \in Paths : Entry(m, p) = e
<1>1. e \in Ids BY DEF Live
<1>2. e \in Live(doc[x]) BY <1>1 DEF Takes, Live
<1>3. PICK p \in Paths : Entry(doc[x], p) = e BY <1>2 DEF Disjoint, Good, Tree
<1>4. e # Absent BY <1>1, CatalogAssumption DEF Ids
<1>5. CASE ~Near(y, p)
  <2>1. Entry(m, p) = Entry(doc[x], p) BY <1>5, TakenFromOne
  <2> QED BY <1>3, <2>1
<1>6. CASE Near(y, p)
  <2>1. ~Near(x, p) BY <1>6, NotBothNear, PathsAre
  <2>2. Alone(x, <<"path", p>>) BY <2>1 DEF Disjoint, TrackInv
  <2>3. Entry(base, p) = e BY <1>3, <2>2 DEF Alone, Entry
  <2>4. e \in Live(base) BY <1>4, <2>3, EntryLives DEF Disjoint, Good
  <2>5. e \in Live(doc[y]) BY <1>1, <2>4 DEF Alone, Type, Live
  <2>6. PICK q \in Paths : Entry(doc[y], q) = e BY <2>5 DEF Disjoint, Good, Tree
  <2>7. ~Near(x, q)
    <3> SUFFICES ASSUME Near(x, q) PROVE FALSE OBVIOUS
    <3>1. ~Near(y, q) BY NotBothNear, PathsAre
    <3>2. Alone(y, <<"path", q>>) BY <3>1 DEF Disjoint, TrackInv
    <3>3. Entry(base, q) = e BY <2>6, <3>2 DEF Alone, Entry
    <3>4. q = p BY <1>4, <2>3, <3>3 DEF Disjoint, Good, Tree, Unique
    <3> QED BY <1>6, <3>1, <3>4
  <2>8. Disjoint(y, x) BY DisjointSym
  <2>9. Entry(m, q) = Entry(doc[y], q) BY <2>7, <2>8, TakenFromOne
  <2> QED BY <2>6, <2>9
<1> QED BY <1>5, <1>6

\* A link of the merge is one that a replica has, at a path of the merge.
LEMMA LinkOfOne ==
  ASSUME NEW x, NEW y, Disjoint(x, y), NEW m, Typed(m), Takes(m, x, y), Takes(m, y, x),
         NEW d \in Ids, NEW n \in Names, Child(m, d, n) # Absent, Alone(y, <<"child", d, n>>)
  PROVE  Linked(m, d, n)
<1> DEFINE c == Child(m, d, n)
<1>1. Child(doc[x], d, n) = c BY DEF Takes
<1>2. PICK p \in Paths : Append(p, n) \in Paths /\ Entry(doc[x], p) = d /\ Entry(doc[x], Append(p, n)) = c
  BY <1>1 DEF Disjoint, Good, Tree, Linked
<1>3. d # Absent BY CatalogAssumption DEF Ids
<1>4. CASE ~Near(y, Append(p, n))
  <2>1. ~Near(y, p) BY <1>4, NearAppend, PathsAre DEF Disjoint
  <2>2. Entry(m, p) = d /\ Entry(m, Append(p, n)) = c BY <1>2, <1>4, <2>1, TakenFromOne
  <2> QED BY <1>2, <2>2 DEF Linked
<1>5. CASE Near(y, Append(p, n))
  <2>1. ~Near(x, Append(p, n)) BY <1>2, <1>5, NotBothNear, PathsAre
  <2>2. ~Near(x, p) BY <2>1, NearAppend, PathsAre DEF Disjoint
  <2>3. Alone(x, <<"path", p>>) BY <2>2 DEF Disjoint, TrackInv
  <2>4. Entry(base, p) = d BY <1>2, <2>3 DEF Alone, Entry
  <2>5. Child(doc[y], d, n) = c
    <3>2. Alone(x, <<"path", Append(p, n)>>) BY <1>2, <2>1 DEF Disjoint, TrackInv
    <3>3. Entry(base, Append(p, n)) = c BY <1>2, <3>2 DEF Alone, Entry
    <3>4. Filed(base, Append(p, n))
      <4>1. Append(p, n) # <<>> BY Appending, PathsAre
      <4> QED BY <1>2, <3>3, <4>1 DEF Disjoint, Good, Tree
    <3>5. Front(Append(p, n)) = p /\ Last(Append(p, n)) = n BY Appending, PathsAre
    <3>6. Child(base, d, n) = c BY <2>4, <3>3, <3>4, <3>5 DEF Filed
    <3> QED BY <3>6 DEF Alone, Child
  <2>6. PICK q \in Paths : Append(q, n) \in Paths /\ Entry(doc[y], q) = d /\ Entry(doc[y], Append(q, n)) = c
    BY <2>5 DEF Disjoint, Good, Tree, Linked
  <2>7. ~Near(x, Append(q, n))
    <3> SUFFICES ASSUME Near(x, Append(q, n)) PROVE FALSE OBVIOUS
    <3>1. ~Near(y, Append(q, n)) BY <2>6, NotBothNear, PathsAre
    <3>2. ~Near(y, q) BY <3>1, NearAppend, PathsAre DEF Disjoint
    <3>3. Alone(y, <<"path", q>>) BY <3>2 DEF Disjoint, TrackInv
    <3>4. Entry(base, q) = d BY <2>6, <3>3 DEF Alone, Entry
    <3>5. q = p BY <1>3, <2>4, <3>4 DEF Disjoint, Good, Tree, Unique
    <3> QED BY <1>5, <3>1, <3>5
  <2>8. ~Near(x, q) BY <2>7, NearAppend, PathsAre DEF Disjoint
  <2>9. Disjoint(y, x) BY DisjointSym
  <2>10. Entry(m, q) = d /\ Entry(m, Append(q, n)) = c BY <2>6, <2>7, <2>8, <2>9, TakenFromOne
  <2> QED BY <2>6, <2>10 DEF Linked
<1> QED BY <1>4, <1>5

\* The merge of replicas that worked in different places is a tree.
LEMMA MergedIsGood ==
  ASSUME NEW x, NEW y, Disjoint(x, y), NEW m, Typed(m), Takes(m, x, y), Takes(m, y, x)
  PROVE  Good(m)
<1>0. Disjoint(y, x) BY DisjointSym
<1>1. Entry(m, <<>>) = Root /\ Type(m, Root) = "directory"
  <2>1. <<>> \in Paths
    <3>1. <<>> \in Seq(Names) /\ Len(<<>>) = 0 OBVIOUS
    <3>2. Len(<<>>) <= MaxDepth BY <3>1, CatalogAssumption
    <3> QED BY <3>1, <3>2, PathsAre, Zenon
  <2>2. ~Near(y, <<>>)
    <3> SUFFICES ASSUME NEW t \in touched[y], IsPrefixOf(t, <<>>) PROVE FALSE BY DEF Near
    <3>1. t \in Seq(Names) /\ t # <<>> BY PathsAre DEF Disjoint, TrackInv
    <3> QED BY <3>1, PrefixFacts, CatalogAssumption DEF IsPrefixOf
  <2>3. Entry(m, <<>>) = Entry(doc[x], <<>>) BY <2>1, <2>2, TakenFromOne
  <2>4. Entry(doc[x], <<>>) = Root /\ Type(doc[x], Root) = "directory" BY DEF Disjoint, Good, Tree
  <2>5. Root # Absent BY CatalogAssumption DEF Root
  <2> QED BY <2>1, <2>2, <2>3, <2>4, <2>5, TakenFromOne
<1>2. ASSUME NEW p \in Paths
      PROVE  \/ ~Near(y, p) /\ Entry(m, p) = Entry(doc[x], p)
             \/ ~Near(x, p) /\ Entry(m, p) = Entry(doc[y], p)
  BY <1>0, TakenFromOne, NotBothNear, PathsAre
<1>3. Unique(m)
  <2> SUFFICES ASSUME NEW p \in Paths, NEW q \in Paths, Entry(m, p) = Entry(m, q), Entry(m, p) # Absent
               PROVE  p = q
    BY DEF Unique
  <2>1. CASE Entry(m, p) = Entry(doc[x], p) /\ Entry(m, q) = Entry(doc[x], q)
    <3>1. Unique(doc[x]) BY DEF Disjoint, Good, Tree
    <3> QED BY <2>1, <3>1 DEF Unique
  <2>2. CASE Entry(m, p) = Entry(doc[y], p) /\ Entry(m, q) = Entry(doc[y], q)
    <3>1. Unique(doc[y]) BY DEF Disjoint, Good, Tree
    <3> QED BY <2>2, <3>1 DEF Unique
  <2>3. CASE ~(Near(x, p) \/ Near(y, p)) \/ ~(Near(x, q) \/ Near(y, q))
    BY <1>0, <1>2, <2>1, <2>2, <2>3, TakenFromOne
  <2>4. CASE Near(x, p) /\ Near(y, q)
    <3>1. Entry(m, p) = Entry(doc[x], p) /\ Entry(m, q) = Entry(doc[y], q) BY <1>2, <2>4
    <3> QED BY <2>4, <3>1, UniqueApart
  <2>5. CASE Near(y, p) /\ Near(x, q)
    <3>1. Entry(m, p) = Entry(doc[y], p) /\ Entry(m, q) = Entry(doc[x], q) BY <1>2, <2>5
    <3> QED BY <2>5, <3>1, UniqueApart
  <2> QED BY <1>2, <2>1, <2>2, <2>3, <2>4, <2>5
<1>4. ASSUME NEW p \in Paths, p # <<>>, Entry(m, p) # Absent PROVE Filed(m, p)
  BY <1>0, <1>4, TakenFromOne, NotBothNear, PathsAre
<1>5. ASSUME NEW e \in Live(m) PROVE \E p \in Paths : Entry(m, p) = e
  <2>1. e \in Ids BY DEF Live
  <2>2. CASE Alone(x, <<"type", e>>) BY <1>0, <2>2, LiveOfOne
  <2>3. CASE Alone(y, <<"type", e>>) BY <2>3, LiveOfOne
  <2> QED BY <2>1, <2>2, <2>3, OneLeavesAlone
<1>6. ASSUME NEW d \in Ids, NEW n \in Names, Child(m, d, n) # Absent PROVE Linked(m, d, n)
  BY <1>0, <1>6, LinkOfOne, OneLeavesAlone
<1>7. Counted(m)
  <2> SUFFICES ASSUME NEW e \in Live(m) PROVE e <= made BY DEF Counted
  <2>1. e \in Ids BY DEF Live
  <2>2. Type(m, e) = Type(doc[x], e) \/ Type(m, e) = Type(doc[y], e)
    BY <2>1, OneLeavesAlone DEF Takes
  <2>3. e \in Live(doc[x]) \/ e \in Live(doc[y]) BY <2>1, <2>2 DEF Live
  <2> QED BY <2>3 DEF Disjoint, Good, Counted
<1> QED BY <1>1, <1>3, <1>4, <1>5, <1>6, <1>7 DEF Good, Tree

-----------------------------------------------------------------------------
(* The exchange.                                                           *)

\* Of a key that one replica left alone, the merge takes what the other has.
LEMMA MergedTakes ==
  ASSUME NEW a \in Replicas, NEW b \in Replicas, a < b, TrackInv(a), TrackInv(b), NEW k \in Keys
  PROVE  /\ Alone(b, k) => Merged(a, b, k) = doc[a][k]
         /\ Alone(a, k) => Merged(a, b, k) = doc[b][k]
<1>1. a # b /\ a \in Nat /\ b \in Nat BY CatalogAssumption
<1>2. k \notin wrote[a] => doc[a][k] \in {Absent, base[k]} BY DEF TrackInv
<1>3. k \notin wrote[b] => doc[b][k] \in {Absent, base[k]} BY DEF TrackInv
<1> DEFINE writers == {r \in {a, b} : k \in wrote[r]}
           winner == IF b \in writers /\ (a \notin writers \/ a < b) THEN b ELSE a
<1>4. Merged(a, b, k) = IF writers # {} THEN doc[winner][k]
                        ELSE IF doc[a][k] = Absent \/ doc[b][k] = Absent THEN Absent ELSE base[k]
  BY DEF Merged
<1>5. ASSUME Alone(b, k) PROVE Merged(a, b, k) = doc[a][k]
  <2>1. k \notin wrote[b] /\ doc[b][k] = base[k] BY <1>5 DEF Alone
  <2>2. CASE k \in wrote[a]
    <3>1. a \in writers /\ b \notin writers BY <2>1, <2>2, <1>1
    <3>2. writers # {} /\ winner = a BY <3>1
    <3> HIDE DEF writers, winner
    <3> QED BY <1>4, <3>2
  <2>3. CASE k \notin wrote[a]
    <3>1. writers = {} BY <2>1, <2>3
    <3> HIDE DEF writers, winner
    <3> QED BY <1>2, <1>4, <2>1, <2>3, <3>1
  <2> QED BY <2>2, <2>3
<1>6. ASSUME Alone(a, k) PROVE Merged(a, b, k) = doc[b][k]
  <2>1. k \notin wrote[a] /\ doc[a][k] = base[k] BY <1>6 DEF Alone
  <2>2. CASE k \in wrote[b]
    <3>1. b \in writers /\ a \notin writers BY <2>1, <2>2, <1>1
    <3>2. writers # {} /\ winner = b BY <3>1
    <3> HIDE DEF writers, winner
    <3> QED BY <1>4, <3>2
  <2>3. CASE k \notin wrote[b]
    <3>1. writers = {} BY <2>1, <2>3
    <3> HIDE DEF writers, winner
    <3> QED BY <1>3, <1>4, <2>1, <2>3, <3>1
  <2> QED BY <2>2, <2>3
<1> QED BY <1>5, <1>6

\* A merged document takes every key that one replica has left alone from the other.
LEMMA MergeTakesBoth ==
  ASSUME NEW a \in Replicas, NEW b \in Replicas, a < b, Disjoint(a, b), NEW m,
         m = [k \in Keys |-> IF k[1] \in {"parent", "name"} /\ Merged(a, b, <<"type", k[2]>>) = Absent THEN Absent
                             ELSE Merged(a, b, k)]
  PROVE  Takes(m, a, b) /\ Takes(m, b, a) /\ Typed(m)
<1>1. TrackInv(a) /\ TrackInv(b) /\ Typed(doc[a]) /\ Typed(doc[b]) BY DEF Disjoint, Good
<1>2. ASSUME NEW e \in Ids PROVE Type(m, e) = Merged(a, b, <<"type", e>>)
  <2>1. <<"type", e>> \in Keys BY KeysAre
  <2> QED BY <2>1 DEF Type
<1>3. ASSUME NEW d \in Ids, NEW n \in Names PROVE Child(m, d, n) = Merged(a, b, <<"child", d, n>>)
  <2>1. <<"child", d, n>> \in Keys BY KeysAre
  <2> QED BY <2>1 DEF Child
<1>4. ASSUME NEW p \in Paths PROVE Entry(m, p) = Merged(a, b, <<"path", p>>)
  <2>1. <<"path", p>> \in Keys BY KeysAre
  <2> QED BY <2>1 DEF Entry
<1>5. ASSUME NEW e \in Live(m)
      PROVE  Parent(m, e) = Merged(a, b, <<"parent", e>>) /\ NameOf(m, e) = Merged(a, b, <<"name", e>>)
  <2>1. e \in Ids /\ Type(m, e) # Absent BY DEF Live
  <2>2. Merged(a, b, <<"type", e>>) # Absent BY <1>2, <2>1
  <2>3. <<"parent", e>> \in Keys /\ <<"name", e>> \in Keys BY <2>1, KeysAre
  <2>4. m[<<"parent", e>>] = Merged(a, b, <<"parent", e>>) BY <2>2, <2>3
  <2>5. m[<<"name", e>>] = Merged(a, b, <<"name", e>>) BY <2>2, <2>3
  <2> QED BY <2>4, <2>5 DEF Parent, NameOf
<1>6. \A e \in Live(m) : e \in Ids BY DEF Live
<1>7. ASSUME NEW k \in Keys
      PROVE  /\ Alone(b, k) => Merged(a, b, k) = doc[a][k]
             /\ Alone(a, k) => Merged(a, b, k) = doc[b][k]
  BY <1>1, MergedTakes
<1>8. Takes(m, a, b) /\ Takes(m, b, a)
  <2>1. ASSUME NEW e \in Ids
        PROVE  /\ Alone(b, <<"type", e>>) => Type(m, e) = Type(doc[a], e)
               /\ Alone(a, <<"type", e>>) => Type(m, e) = Type(doc[b], e)
    BY <1>2, <1>7, KeysAre DEF Type
  <2>2. ASSUME NEW e \in Live(m)
        PROVE  /\ Alone(b, <<"parent", e>>) => Parent(m, e) = Parent(doc[a], e)
               /\ Alone(a, <<"parent", e>>) => Parent(m, e) = Parent(doc[b], e)
               /\ Alone(b, <<"name", e>>) => NameOf(m, e) = NameOf(doc[a], e)
               /\ Alone(a, <<"name", e>>) => NameOf(m, e) = NameOf(doc[b], e)
    BY <1>5, <1>6, <1>7, KeysAre DEF Parent, NameOf
  <2>3. ASSUME NEW d \in Ids, NEW n \in Names
        PROVE  /\ Alone(b, <<"child", d, n>>) => Child(m, d, n) = Child(doc[a], d, n)
               /\ Alone(a, <<"child", d, n>>) => Child(m, d, n) = Child(doc[b], d, n)
    BY <1>3, <1>7, KeysAre DEF Child
  <2>4. ASSUME NEW p \in Paths
        PROVE  /\ Alone(b, <<"path", p>>) => Entry(m, p) = Entry(doc[a], p)
               /\ Alone(a, <<"path", p>>) => Entry(m, p) = Entry(doc[b], p)
    BY <1>4, <1>7, KeysAre DEF Entry
  <2> QED BY <2>1, <2>2, <2>3, <2>4 DEF Takes
<1>9. Typed(m)
  <2>1. DOMAIN m = Keys OBVIOUS
  <2>2. ASSUME NEW e \in Ids PROVE Type(m, e) \in {"file", "directory", Absent}
    BY <1>1, <1>8, OneLeavesAlone DEF Takes, Typed
  <2>3. ASSUME NEW d \in Ids, NEW n \in Names PROVE Child(m, d, n) \in Ids \cup {Absent}
    BY <1>1, <1>8, OneLeavesAlone DEF Takes, Typed
  <2>4. ASSUME NEW p \in Paths PROVE Entry(m, p) \in Ids \cup {Absent}
    BY <1>1, <1>8, OneLeavesAlone DEF Takes, Typed
  <2> QED BY <2>1, <2>2, <2>3, <2>4 DEF Typed
<1> QED BY <1>8, <1>9

\* An exchange keeps the invariant, or the replicas were in the same place.
LEMMA ExchangeKeeps ==
  ASSUME IInv, Exchange
  PROVE  IInv'
<1> SUFFICES ASSUME ~tangled'
             PROVE  (Shape /\ Good(base) /\ NewOnce /\ \A r \in Replicas : Good(doc[r]) /\ TrackInv(r))'
  BY DEF IInv
<1>1. PICK a \in Replicas, b \in Replicas : a < b /\ Replicas = {a, b} BY CatalogAssumption
<1>2. a \in Nat /\ b \in Nat BY CatalogAssumption
<1>3. (CHOOSE r \in Replicas : \A q \in Replicas : r <= q) = a
  <2>1. \A r \in Replicas : (\A q \in Replicas : r <= q) <=> r = a BY <1>1, <1>2
  <2> QED BY <2>1
<1>4. (CHOOSE r \in Replicas : \A q \in Replicas : r >= q) = b
  <2>1. \A r \in Replicas : (\A q \in Replicas : r >= q) <=> r = b BY <1>1, <1>2
  <2> QED BY <2>1
<1> DEFINE M(u, v) == [k \in Keys |->
                        IF k[1] \in {"parent", "name"} /\ Merged(u, v, <<"type", k[2]>>) = Absent THEN Absent
                        ELSE Merged(u, v, k)]
           lo == CHOOSE r \in Replicas : \A q \in Replicas : r <= q
           hi == CHOOSE r \in Replicas : \A q \in Replicas : r >= q
<1>5. PICK m : m = M(a, b) /\ doc' = [r \in Replicas |-> m] /\ base' = m
  <2>1. doc' = [r \in Replicas |-> M(lo, hi)] /\ base' = M(lo, hi) BY DEF Exchange
  <2>2. M(lo, hi) = M(a, b)
    <3>1. lo = a /\ hi = b BY <1>3, <1>4
    <3> HIDE DEF M, lo, hi
    <3> QED BY <3>1
  <2> HIDE DEF M, lo, hi
  <2> QED BY <2>1, <2>2
<1>6. /\ wrote' = [r \in Replicas |-> {}] /\ touched' = [r \in Replicas |-> {}] /\ made' = made /\ ~tangled
      /\ \A p \in touched[a], q \in touched[b] : ~IsPrefixOf(p, q) /\ ~IsPrefixOf(q, p)
  BY <1>3, <1>4 DEF Exchange
<1>7. Disjoint(a, b) BY <1>1, <1>2, <1>6 DEF IInv, Disjoint
<1>8. Good(m)
  <2>1. Takes(m, a, b) /\ Takes(m, b, a) /\ Typed(m) BY <1>1, <1>5, <1>7, MergeTakesBoth
  <2> QED BY <1>7, <2>1, MergedIsGood
<1>9. Shape' BY <1>5, <1>6 DEF IInv, Shape
<1>10. Good(base)' BY <1>5, <1>6, <1>8 DEF Good, Counted
<1>11. NewOnce' BY <1>6 DEF NewOnce, New
<1>12. ASSUME NEW r \in Replicas PROVE Good(doc[r])' /\ TrackInv(r)'
  <2>1. doc'[r] = m /\ wrote'[r] = {} /\ touched'[r] = {} BY <1>5, <1>6
  <2>2. Good(doc[r])' BY <1>6, <1>8, <2>1 DEF Good, Counted
  <2>3. \A k \in Keys : Alone(r, k)' BY <1>5, <2>1 DEF Alone
  <2>4. \A e \in Ids : ~New(r, e)' BY <2>1 DEF New
  <2>5. (\A p \in Paths : Alone(r, <<"path", p>>))' BY <2>3, KeysAre
  <2>6. (\A e \in Ids, f \in {"type", "parent", "name"} : Alone(r, <<f, e>>))' BY <2>3, KeysAre
  <2>7. (\A d \in Ids, n \in Names : Alone(r, <<"child", d, n>>))' BY <2>3, KeysAre
  <2>8. \A k \in Keys : doc'[r][k] = base'[k] BY <1>5, <2>1
  <2>9. TrackInv(r)' BY <2>1, <2>4, <2>5, <2>6, <2>7, <2>8 DEF TrackInv
  <2> QED BY <2>2, <2>9
<1> QED BY <1>9, <1>10, <1>11, <1>12

-----------------------------------------------------------------------------
(* Beginnings of paths, and paths below a path.                            *)

Cut(p, j) == SubSeq(p, 1, j)

LEMMA Cuts ==
  ASSUME NEW p \in Seq(Names), NEW j \in 0..Len(p)
  PROVE  /\ Cut(p, j) \in Seq(Names) /\ Len(Cut(p, j)) = j
         /\ \A i \in 1..j : Cut(p, j)[i] = p[i]
<1>1. j \in Nat /\ \A i \in 1..j : p[i] \in Names OBVIOUS
<1>2. SubSeq(p, 1, j) \in Seq(Names) /\ Len(SubSeq(p, 1, j)) = (IF 1 <= j THEN j - 1 + 1 ELSE 0)
      /\ \A i \in 1..(j - 1 + 1) : SubSeq(p, 1, j)[i] = p[1 + i - 1]
  BY <1>1, SubSeqProperties
<1>3. \A i \in 1..j : i \in 1..(j - 1 + 1) /\ 1 + i - 1 = i BY <1>1
<1> HIDE DEF Cut
<1>4. Cut(p, j) \in Seq(Names) /\ Len(Cut(p, j)) = j BY <1>1, <1>2 DEF Cut
<1>5. \A i \in 1..j : Cut(p, j)[i] = p[i] BY <1>2, <1>3 DEF Cut
<1> QED BY <1>4, <1>5

LEMMA SameSeq ==
  ASSUME NEW p \in Seq(Names), NEW q \in Seq(Names), Len(p) = Len(q), \A i \in 1..Len(p) : p[i] = q[i]
  PROVE  p = q
OBVIOUS

LEMMA CutEnds ==
  ASSUME NEW p \in Seq(Names)
  PROVE  /\ Cut(p, 0) = <<>> /\ Cut(p, Len(p)) = p
         /\ \A j \in 1..Len(p) : /\ p[j] \in Names
                                 /\ Cut(p, j) = Append(Cut(p, j - 1), p[j]) /\ Cut(p, j) # <<>>
                                 /\ Front(Cut(p, j)) = Cut(p, j - 1) /\ Last(Cut(p, j)) = p[j]
<1>1. Len(p) \in Nat OBVIOUS
<1>2. Cut(p, 0) = <<>>
  <2>1. Cut(p, 0) \in Seq(Names) /\ Len(Cut(p, 0)) = 0 BY <1>1, Cuts
  <2> QED BY <2>1
<1>3. Cut(p, Len(p)) = p
  <2>1. Len(p) \in 0..Len(p) BY <1>1
  <2>2. Cut(p, Len(p)) \in Seq(Names) /\ Len(Cut(p, Len(p))) = Len(p)
        /\ \A i \in 1..Len(p) : Cut(p, Len(p))[i] = p[i]
    BY <2>1, Cuts
  <2> QED BY <2>2, SameSeq
<1>4. ASSUME NEW j \in 1..Len(p)
      PROVE  /\ p[j] \in Names
             /\ Cut(p, j) = Append(Cut(p, j - 1), p[j]) /\ Cut(p, j) # <<>>
             /\ Front(Cut(p, j)) = Cut(p, j - 1) /\ Last(Cut(p, j)) = p[j]
  <2>1. j \in 0..Len(p) /\ j - 1 \in 0..Len(p) /\ p[j] \in Names BY <1>1
  <2>2. Cut(p, j) \in Seq(Names) /\ Len(Cut(p, j)) = j /\ \A i \in 1..j : Cut(p, j)[i] = p[i] BY <2>1, Cuts
  <2>3. Cut(p, j - 1) \in Seq(Names) /\ Len(Cut(p, j - 1)) = j - 1 /\ \A i \in 1..(j - 1) : Cut(p, j - 1)[i] = p[i]
    BY <2>1, Cuts
  <2> DEFINE a == Append(Cut(p, j - 1), p[j])
  <2>4. a \in Seq(Names) /\ Len(a) = j /\ a # <<>> /\ Front(a) = Cut(p, j - 1) /\ Last(a) = p[j]
    BY <2>1, <2>3, Appending
  <2>5. \A i \in 1..j : a[i] = p[i]
    <3> TAKE i \in 1..j
    <3>1. CASE i = j
      <4>1. a[Len(a)] = p[j] BY <2>1, <2>3, <2>4
      <4> QED BY <2>4, <3>1, <4>1
    <3>2. CASE i # j
      <4>1. i \in 1..(j - 1) BY <3>2, <2>1
      <4>2. a[i] = Cut(p, j - 1)[i] BY <2>1, <2>3, <4>1
      <4> QED BY <2>3, <4>1, <4>2
    <3> QED BY <3>1, <3>2
  <2> HIDE DEF a
  <2>6. Cut(p, j) = a BY <2>2, <2>4, <2>5, SameSeq
  <2> QED BY <2>1, <2>4, <2>6 DEF a
<1> QED BY <1>2, <1>3, <1>4

LEMMA Joins ==
  ASSUME NEW p \in Seq(Names), NEW q \in Seq(Names)
  PROVE  /\ p \o q \in Seq(Names) /\ Len(p \o q) = Len(p) + Len(q)
         /\ IsPrefixOf(p, p \o q)
         /\ p \o q = p <=> q = <<>>
         /\ \A i \in 1..Len(p) : (p \o q)[i] = p[i]
         /\ \A i \in 1..Len(q) : (p \o q)[Len(p) + i] = q[i]
<1>1. Len(p) \in Nat /\ Len(q) \in Nat OBVIOUS
<1>2. p \o q \in Seq(Names) /\ Len(p \o q) = Len(p) + Len(q) OBVIOUS
<1>3. \A i \in 1..Len(p) : (p \o q)[i] = p[i] OBVIOUS
<1>4. \A i \in 1..Len(q) : (p \o q)[Len(p) + i] = q[i]
  <2> TAKE i \in 1..Len(q)
  <2>1. Len(p) + i \in 1..(Len(p) + Len(q)) /\ Len(p) + i > Len(p) /\ Len(p) + i - Len(p) = i BY <1>1
  <2> QED BY <2>1
<1>5. IsPrefixOf(p, p \o q) BY <1>1, <1>2, <1>3 DEF IsPrefixOf
<1>6. p \o q = p <=> q = <<>>
  <2>1. Len(q) = 0 <=> q = <<>> OBVIOUS
  <2>2. p \o <<>> = p OBVIOUS
  <2> QED BY <1>1, <1>2, <2>1, <2>2
<1> QED BY <1>2, <1>3, <1>4, <1>5, <1>6

\* Below p are the paths p \o q, each for one q.
LEMMA BelowIsJoin ==
  ASSUME NEW p \in Seq(Names), NEW x \in Seq(Names), IsPrefixOf(p, x)
  PROVE  \E q \in Seq(Names) : x = p \o q /\ q = SubSeq(x, Len(p) + 1, Len(x))
<1> DEFINE q == SubSeq(x, Len(p) + 1, Len(x))
<1>1. Len(p) \in Nat /\ Len(x) \in Nat /\ Len(p) <= Len(x) BY DEF IsPrefixOf
<1>2. /\ q \in Seq(Names)
      /\ Len(q) = IF Len(p) + 1 <= Len(x) THEN Len(x) - (Len(p) + 1) + 1 ELSE 0
      /\ \A i \in 1..(Len(x) - (Len(p) + 1) + 1) : q[i] = x[Len(p) + 1 + i - 1]
  <2>1. Len(p) + 1 \in Int /\ Len(x) \in Int BY <1>1
  <2>2. \A i \in (Len(p) + 1)..Len(x) : x[i] \in Names BY <1>1
  <2> QED BY <2>1, <2>2, SubSeqProperties
<1>3. Len(q) = Len(x) - Len(p) BY <1>1, <1>2
<1>4. \A i \in 1..Len(q) : q[i] = x[Len(p) + i]
  <2> TAKE i \in 1..Len(q)
  <2>1. i \in 1..(Len(x) - (Len(p) + 1) + 1) /\ Len(p) + 1 + i - 1 = Len(p) + i BY <1>1, <1>3
  <2> QED BY <1>2, <2>1
<1> HIDE DEF q
<1>5. p \o q \in Seq(Names) /\ Len(p \o q) = Len(x) BY <1>1, <1>2, <1>3, Joins
<1>6. \A i \in 1..Len(x) : (p \o q)[i] = x[i]
  <2> TAKE i \in 1..Len(x)
  <2>1. CASE i \in 1..Len(p)
    <3>1. p[i] = x[i] BY <2>1, <1>1 DEF IsPrefixOf
    <3> QED BY <1>2, <2>1, <3>1, Joins
  <2>2. CASE i \notin 1..Len(p)
    <3>1. i - Len(p) \in 1..Len(q) /\ Len(p) + (i - Len(p)) = i BY <1>1, <1>3, <2>2
    <3>2. (p \o q)[Len(p) + (i - Len(p))] = q[i - Len(p)] BY <1>2, <3>1, Joins
    <3> QED BY <1>4, <3>1, <3>2
  <2> QED BY <2>1, <2>2
<1>7. p \o q = x BY <1>5, <1>6, SameSeq
<1> QED BY <1>2, <1>7 DEF q

LEMMA BelowJoins ==
  ASSUME NEW p \in Seq(Names), NEW x \in Seq(Names), IsPrefixOf(p, x)
  PROVE  \E q \in Seq(Names) : x = p \o q
<1>1. \E q \in Seq(Names) : x = p \o q /\ q = SubSeq(x, Len(p) + 1, Len(x)) BY BelowIsJoin
<1> QED BY <1>1

LEMMA JoinUnique ==
  ASSUME NEW p \in Seq(Names), NEW q \in Seq(Names), NEW u \in Seq(Names), p \o q = p \o u
  PROVE  q = u
BY ConcatSimplifications

LEMMA JoinAppend ==
  ASSUME NEW p \in Seq(Names), NEW q \in Seq(Names), NEW n \in Names
  PROVE  p \o Append(q, n) = Append(p \o q, n)
BY AppendIsConcat, ConcatAssociative, Joins

-----------------------------------------------------------------------------
(* Walking down by child links, and up by parents.                         *)

\* A set of naturals has a smallest; what holds at 0 and from one number to the next holds up to n.
LEMMA Smallest ==
  ASSUME NEW S \in SUBSET Nat, S # {}
  PROVE  \E x \in S : \A y \in S : x <= y
<1>1. PICK x \in S : \A y \in S : ~(<<y, x>> \in OpToRel(<, Nat))
  BY NatLessThanWellFounded, WFMin
<1>2. S \subseteq Nat
  OBVIOUS
<1>3. \A y \in S : ~(y < x)
  BY <1>1, <1>2 DEF OpToRel
<1>4. \A y \in S : x <= y
  BY <1>2, <1>3
<1> QED BY <1>4

LEMMA Upto ==
  ASSUME NEW n \in Nat, NEW S, 0 \in S, \A k \in 1..n : k - 1 \in S => k \in S
  PROVE  \A k \in 0..n : k \in S
<1> DEFINE Bad == {k \in 0..n : k \notin S}
<1>1. SUFFICES ASSUME Bad # {} PROVE FALSE OBVIOUS
<1>2. Bad \in SUBSET Nat OBVIOUS
<1>3. PICK x \in Bad : \A y \in Bad : x <= y
  <2> HIDE DEF Bad
  <2> QED BY <1>1, <1>2, Smallest
<1>4. x \in 1..n /\ x - 1 \in 0..n /\ x \notin S BY <1>3
<1>5. x - 1 \notin Bad
  <2>1. ~(x <= x - 1) BY <1>4
  <2> HIDE DEF Bad
  <2> QED BY <1>3, <2>1
<1> QED BY <1>4, <1>5

\* Any function that meets the equations of the loop tells where it ends.
LEMMA WalkIs ==
  ASSUME NEW s, NEW e, NEW q \in Seq(Names), NEW g, DOMAIN g = 0..Len(q), g[0] = e,
         \A k \in 1..Len(q) : g[k] = IF g[k - 1] = Absent THEN Absent ELSE Child(s, g[k - 1], q[k])
  PROVE  Walk(s, e, q) = g[Len(q)]
<1> DEFINE n == Len(q)
           Step(f, k) == IF k = 0 THEN e ELSE IF f[k - 1] = Absent THEN Absent ELSE Child(s, f[k - 1], q[k])
           Solves(f) == f = [k \in 0..n |-> Step(f, k)]
           at == CHOOSE f : Solves(f)
<1>1. n \in Nat OBVIOUS
<1>2. Walk(s, e, q) = at[n] BY DEF Walk
<1>3. Solves([k \in 0..n |-> g[k]])
  <2> DEFINE h == [k \in 0..n |-> g[k]]
  <2>1. \A k \in 0..n : h[k] = g[k] OBVIOUS
  <2>2. \A k \in 0..n : h[k] = Step(h, k)
    <3> TAKE k \in 0..n
    <3>1. CASE k = 0 BY <2>1, <3>1
    <3>2. CASE k # 0
      <4>1. k \in 1..n /\ k - 1 \in 0..n BY <1>1, <3>2
      <4>2. h[k] = g[k] /\ h[k - 1] = g[k - 1] BY <4>1
      <4> HIDE DEF h
      <4> QED BY <3>2, <4>1, <4>2
    <3> QED BY <3>1, <3>2
  <2>3. h = [k \in 0..n |-> h[k]] OBVIOUS
  <2> HIDE DEF h, Step
  <2>4. h = [k \in 0..n |-> Step(h, k)] BY <2>2, <2>3
  <2> QED BY <2>4 DEF h
<1>4. Solves(at) BY <1>3
<1>5. \A k \in 0..n : at[k] = Step(at, k)
  <2> HIDE DEF at, Step
  <2> QED BY <1>4
<1> HIDE DEF at
<1> DEFINE Same == {k \in 0..n : at[k] = g[k]}
<1>6. 0 \in Same BY <1>1, <1>5
<1>7. ASSUME NEW k \in 1..n, k - 1 \in Same PROVE k \in Same
  <2>1. k \in 0..n /\ k # 0 BY <1>1
  <2>2. at[k - 1] = g[k - 1] BY <1>7
  <2>3. at[k] = Step(at, k) BY <1>5, <2>1
  <2>4. at[k] = g[k] BY <2>1, <2>2, <2>3
  <2> QED BY <2>1, <2>4
<1>8. n \in Same
  <2> HIDE DEF Same
  <2>1. \A k \in 0..n : k \in Same BY <1>1, <1>6, <1>7, Upto
  <2> QED BY <1>1, <2>1
<1> QED BY <1>2, <1>8

\* Up is the only function that starts at e and goes up by parents.
LEMMA UpIs ==
  ASSUME NEW s, NEW e, NEW n \in Nat, NEW g, DOMAIN g = 0..n, g[0] = e,
         \A k \in 1..n : g[k] = IF g[k - 1] = Root \/ g[k - 1] = Absent \/ Type(s, g[k - 1]) = Absent
                                THEN g[k - 1] ELSE s[<<"parent", g[k - 1]>>]
  PROVE  Up(s, e, n) = g[n]
<1> DEFINE Step(f, k) == IF k = 0 THEN e
                         ELSE IF f[k - 1] = Root \/ f[k - 1] = Absent \/ Type(s, f[k - 1]) = Absent
                              THEN f[k - 1] ELSE s[<<"parent", f[k - 1]>>]
           Solves(f) == f = [k \in 0..n |-> Step(f, k)]
           up == CHOOSE f : Solves(f)
<1>2. Up(s, e, n) = up[n] BY DEF Up
<1>3. Solves([k \in 0..n |-> g[k]])
  <2> DEFINE h == [k \in 0..n |-> g[k]]
  <2>1. \A k \in 0..n : h[k] = g[k] OBVIOUS
  <2>2. \A k \in 0..n : h[k] = Step(h, k)
    <3> TAKE k \in 0..n
    <3>1. CASE k = 0 BY <2>1, <3>1
    <3>2. CASE k # 0
      <4>1. k \in 1..n /\ k - 1 \in 0..n BY <3>2
      <4>2. h[k] = g[k] /\ h[k - 1] = g[k - 1] BY <4>1
      <4> HIDE DEF h
      <4> QED BY <3>2, <4>1, <4>2
    <3> QED BY <3>1, <3>2
  <2>3. h = [k \in 0..n |-> h[k]] OBVIOUS
  <2> HIDE DEF h, Step
  <2>4. h = [k \in 0..n |-> Step(h, k)] BY <2>2, <2>3
  <2> QED BY <2>4 DEF h
<1>4. Solves(up) BY <1>3
<1>5. \A k \in 0..n : up[k] = Step(up, k)
  <2> HIDE DEF up, Step
  <2> QED BY <1>4
<1> HIDE DEF up
<1> DEFINE Same == {k \in 0..n : up[k] = g[k]}
<1>6. 0 \in Same
  <2>1. 0 \in 0..n OBVIOUS
  <2>2. up[0] = Step(up, 0)
    <3> HIDE DEF Step
    <3> QED BY <1>5, <2>1
  <2>3. Step(up, 0) = e OBVIOUS
  <2>4. up[0] = g[0]
    <3> HIDE DEF Step
    <3> QED BY <2>2, <2>3
  <2> HIDE DEF Step
  <2> QED BY <2>1, <2>4
<1>7. ASSUME NEW k \in 1..n, k - 1 \in Same PROVE k \in Same
  <2>1. k \in 0..n /\ k # 0 OBVIOUS
  <2>2. up[k - 1] = g[k - 1] BY <1>7
  <2>3. up[k] = Step(up, k) BY <1>5, <2>1
  <2>4. up[k] = g[k] BY <2>1, <2>2, <2>3
  <2> QED BY <2>1, <2>4
<1>8. n \in Same
  <2> HIDE DEF Same
  <2>1. \A k \in 0..n : k \in Same BY <1>6, <1>7, Upto
  <2> QED BY <2>1
<1> QED BY <1>2, <1>8

\* What a directory links to is what is at the path below it.
LEMMA ChildAt ==
  ASSUME NEW s, Typed(s), Tree(s), NEW p \in Paths, Entry(s, p) # Absent, NEW n \in Names
  PROVE  Child(s, Entry(s, p), n) = IF Append(p, n) \in Paths THEN Entry(s, Append(p, n)) ELSE Absent
<1> DEFINE d == Entry(s, p)
           c == Child(s, d, n)
<1>1. d \in Ids BY EntryLives
<1>2. CASE c # Absent
  <2>1. PICK q \in Paths : Append(q, n) \in Paths /\ Entry(s, q) = d /\ Entry(s, Append(q, n)) = c
    BY <1>1, <1>2 DEF Tree, Linked
  <2>2. q = p BY <2>1 DEF Tree, Unique
  <2> QED BY <2>1, <2>2
<1>3. CASE c = Absent
  <2> SUFFICES ASSUME Append(p, n) \in Paths, Entry(s, Append(p, n)) # Absent PROVE FALSE
    BY <1>3
  <2>1. Append(p, n) # <<>> /\ Front(Append(p, n)) = p /\ Last(Append(p, n)) = n BY Appending, PathsAre
  <2>2. Filed(s, Append(p, n)) BY <2>1 DEF Tree
  <2> QED BY <1>3, <2>1, <2>2 DEF Filed
<1> QED BY <1>2, <1>3

\* Below a path that has nothing there is nothing.
LEMMA NothingBelow ==
  ASSUME NEW s, Tree(s), NEW p \in Paths, NEW n \in Names, Append(p, n) \in Paths, Entry(s, p) = Absent
  PROVE  Entry(s, Append(p, n)) = Absent
<1>1. Append(p, n) # <<>> /\ Front(Append(p, n)) = p BY Appending, PathsAre
<1> QED BY <1>1 DEF Tree, Filed

\* Walking from the entry of a path, over links that are those of s at it and below it,
\* one comes to what s has at the longer path.
LEMMA WalkFrom ==
  ASSUME NEW s, Typed(s), Tree(s), NEW t, NEW p \in Paths, Entry(s, p) # Absent, NEW q \in Seq(Names),
         \A u \in Paths, n \in Names :
            IsPrefixOf(p, u) /\ Entry(s, u) # Absent => Child(t, Entry(s, u), n) = Child(s, Entry(s, u), n)
  PROVE  Walk(t, Entry(s, p), q) = IF p \o q \in Paths THEN Entry(s, p \o q) ELSE Absent
<1> DEFINE At(u) == IF u \in Paths THEN Entry(s, u) ELSE Absent
           g == [k \in 0..Len(q) |-> At(p \o Cut(q, k))]
<1>1. p \in Seq(Names) /\ Len(q) \in Nat BY PathsAre
<1>2. DOMAIN g = 0..Len(q) /\ \A k \in 0..Len(q) : g[k] = At(p \o Cut(q, k)) OBVIOUS
<1>3. g[0] = Entry(s, p) /\ g[Len(q)] = At(p \o q)
  <2>1. p \o Cut(q, 0) = p BY <1>1, CutEnds, ConcatEmptySeq
  <2>2. Cut(q, Len(q)) = q BY CutEnds
  <2>3. 0 \in 0..Len(q) /\ Len(q) \in 0..Len(q) BY <1>1
  <2> HIDE DEF g
  <2> QED BY <1>2, <2>1, <2>2, <2>3
<1>4. ASSUME NEW k \in 1..Len(q)
      PROVE  g[k] = IF g[k - 1] = Absent THEN Absent ELSE Child(t, g[k - 1], q[k])
  <2> DEFINE u == p \o Cut(q, k - 1)
             n == q[k]
  <2>1. k \in 0..Len(q) /\ k - 1 \in 0..Len(q) BY <1>1
  <2>2. n \in Names /\ Cut(q, k) = Append(Cut(q, k - 1), n) BY CutEnds
  <2>3. Cut(q, k - 1) \in Seq(Names) BY <2>1, Cuts
  <2>4. u \in Seq(Names) /\ IsPrefixOf(p, u) BY <1>1, <2>3, Joins
  <2>5. p \o Cut(q, k) = Append(u, n) BY <1>1, <2>2, <2>3, JoinAppend
  <2>6. g[k] = At(Append(u, n)) /\ g[k - 1] = At(u) BY <1>2, <2>1, <2>5
  <2> HIDE DEF g, u, n
  <2>7. CASE u \notin Paths
    <3>1. Append(u, n) \notin Paths
      <4>1. Len(Append(u, n)) = Len(u) + 1 /\ Len(u) \in Nat BY <2>2, <2>4, Appending
      <4>2. ~(Len(u) <= MaxDepth) BY <2>4, <2>7, PathsAre
      <4>3. ~(Len(Append(u, n)) <= MaxDepth) BY <4>1, <4>2, CatalogAssumption
      <4> QED BY <4>3, PathsAre
    <3> QED BY <2>6, <2>7, <3>1
  <2>8. CASE u \in Paths /\ Entry(s, u) = Absent BY <2>2, <2>6, <2>8, NothingBelow
  <2>9. CASE u \in Paths /\ Entry(s, u) # Absent
    <3>1. Child(t, Entry(s, u), n) = Child(s, Entry(s, u), n) BY <2>2, <2>4, <2>9
    <3>2. Child(s, Entry(s, u), n) = At(Append(u, n)) BY <2>2, <2>9, ChildAt
    <3>3. g[k - 1] = Entry(s, u) BY <2>6, <2>9
    <3> QED BY <2>6, <2>9, <3>1, <3>2, <3>3 DEF n
  <2> QED BY <2>7, <2>8, <2>9
<1> HIDE DEF g
<1>5. Walk(t, Entry(s, p), q) = g[Len(q)] BY <1>2, <1>3, <1>4, WalkIs
<1> QED BY <1>3, <1>5

LEMMA EmptyPath == <<>> \in Paths /\ <<>> \in Seq(Names) /\ Root # Absent /\ Root \in Ids
<1>1. <<>> \in Seq(Names) /\ Len(<<>>) = 0 OBVIOUS
<1>2. Len(<<>>) <= MaxDepth BY <1>1, CatalogAssumption
<1>3. <<>> \in Paths BY <1>1, <1>2, PathsAre, Zenon
<1>4. Root # Absent /\ Root \in Ids BY CatalogAssumption DEF Root, Ids
<1> QED BY <1>1, <1>3, <1>4

\* Links lead from the root to what the index has at a path.
LEMMA IndexIsWalk ==
  ASSUME NEW s, Typed(s), Tree(s), NEW p \in Paths
  PROVE  Walk(s, Root, p) = Entry(s, p) /\ resolvePath(s, p) = Entry(s, p)
<1>1. Entry(s, <<>>) = Root BY DEF Tree
<1>2. <<>> \o p = p /\ p \in Seq(Names) BY PathsAre, ConcatEmptySeq
<1>3. Walk(s, Entry(s, <<>>), p) = IF <<>> \o p \in Paths THEN Entry(s, <<>> \o p) ELSE Absent
  BY <1>1, <1>2, EmptyPath, WalkFrom
<1>4. Walk(s, Root, p) = Entry(s, p) BY <1>1, <1>2, <1>3
<1> QED BY <1>4 DEF resolvePath, Entry

\* Everything above an entry is there.
LEMMA AboveLives ==
  ASSUME NEW s, Tree(s), NEW p \in Paths, Entry(s, p) # Absent, NEW j \in 0..Len(p)
  PROVE  Cut(p, j) \in Paths /\ Entry(s, Cut(p, j)) # Absent
<1>1. p \in Seq(Names) /\ Len(p) \in Nat /\ Len(p) <= MaxDepth BY PathsAre
<1>2. ASSUME NEW i \in 0..Len(p) PROVE Cut(p, i) \in Paths
  <2>1. Cut(p, i) \in Seq(Names) /\ Len(Cut(p, i)) = i BY <1>1, Cuts
  <2>2. i <= MaxDepth BY <1>1, CatalogAssumption
  <2> QED BY <2>1, <2>2, PathsAre
<1> DEFINE There == {k \in 0..Len(p) : Entry(s, Cut(p, Len(p) - k)) # Absent}
<1>3. 0 \in There
  <2>1. Len(p) - 0 = Len(p) /\ 0 \in 0..Len(p) BY <1>1
  <2>2. Cut(p, Len(p)) = p BY <1>1, CutEnds
  <2> QED BY <2>1, <2>2
<1>4. ASSUME NEW k \in 1..Len(p), k - 1 \in There PROVE k \in There
  <2> DEFINE i == Len(p) - (k - 1)
  <2>1. i \in 1..Len(p) /\ i \in 0..Len(p) /\ i - 1 = Len(p) - k /\ k \in 0..Len(p) BY <1>1
  <2>2. Entry(s, Cut(p, i)) # Absent BY <1>4
  <2> HIDE DEF i
  <2>3. Cut(p, i) # <<>> /\ Front(Cut(p, i)) = Cut(p, i - 1) BY <1>1, <2>1, CutEnds
  <2>4. Entry(s, Cut(p, i - 1)) # Absent BY <1>2, <2>1, <2>2, <2>3 DEF Tree, Filed
  <2> QED BY <2>1, <2>4
<1>5. Len(p) - j \in There
  <2> HIDE DEF There
  <2>1. \A k \in 0..Len(p) : k \in There BY <1>1, <1>3, <1>4, Upto
  <2>2. Len(p) - j \in 0..Len(p) BY <1>1
  <2> QED BY <2>1, <2>2
<1>6. Len(p) - (Len(p) - j) = j BY <1>1
<1> QED BY <1>2, <1>5, <1>6

\* Up from a path: n names less, or the root.
LEMMA UpFrom ==
  ASSUME NEW s, Typed(s), Tree(s), NEW p \in Paths, Entry(s, p) # Absent, NEW n \in Nat
  PROVE  Up(s, Entry(s, p), n) = IF n <= Len(p) THEN Entry(s, Cut(p, Len(p) - n)) ELSE Root
<1> DEFINE g == [k \in 0..n |-> IF k <= Len(p) THEN Entry(s, Cut(p, Len(p) - k)) ELSE Root]
<1>1. p \in Seq(Names) /\ Len(p) \in Nat BY PathsAre
<1>2. DOMAIN g = 0..n /\ \A k \in 0..n : g[k] = IF k <= Len(p) THEN Entry(s, Cut(p, Len(p) - k)) ELSE Root
  OBVIOUS
<1> HIDE DEF g
<1>3. g[0] = Entry(s, p)
  <2>1. Len(p) - 0 = Len(p) /\ 0 \in 0..n /\ 0 <= Len(p) BY <1>1
  <2>2. Cut(p, Len(p)) = p BY <1>1, CutEnds
  <2> QED BY <1>2, <2>1, <2>2
<1>4. ASSUME NEW k \in 1..n
      PROVE  g[k] = IF g[k - 1] = Root \/ g[k - 1] = Absent \/ Type(s, g[k - 1]) = Absent
                    THEN g[k - 1] ELSE s[<<"parent", g[k - 1]>>]
  <2>1. k \in 0..n /\ k - 1 \in 0..n OBVIOUS
  <2>2. CASE k <= Len(p)
    <3> DEFINE i == Len(p) - (k - 1)
               u == Cut(p, i)
    <3>1. i \in 1..Len(p) /\ i \in 0..Len(p) /\ i - 1 = Len(p) - k /\ k - 1 <= Len(p) BY <1>1, <2>2
    <3>2. g[k - 1] = Entry(s, u) BY <1>2, <2>1, <3>1
    <3> HIDE DEF i
    <3>3. u # <<>> /\ Front(u) = Cut(p, i - 1) BY <1>1, <3>1, CutEnds
    <3>4. u \in Paths /\ Entry(s, u) # Absent BY <3>1, AboveLives
    <3> HIDE DEF u
    <3>5. g[k] = Entry(s, Front(u)) BY <1>2, <2>1, <2>2, <3>1, <3>3
    <3>6. Entry(s, u) # Root BY <3>3, <3>4, EmptyPath DEF Tree, Unique
    <3>7. Filed(s, u) BY <3>3, <3>4 DEF Tree
    <3> QED BY <3>2, <3>4, <3>5, <3>6, <3>7 DEF Filed, Parent
  <2>3. CASE ~(k <= Len(p))
    <3>1. g[k] = Root BY <1>2, <2>1, <2>3
    <3>2. g[k - 1] = Root
      <4>1. CASE k - 1 <= Len(p)
        <5>1. Len(p) - (k - 1) = 0 BY <1>1, <2>3, <4>1
        <5>2. Cut(p, 0) = <<>> BY <1>1, CutEnds
        <5>3. Entry(s, <<>>) = Root BY DEF Tree
        <5>4. g[k - 1] = Entry(s, Cut(p, 0)) BY <1>2, <2>1, <4>1, <5>1
        <5> QED BY <5>2, <5>3, <5>4
      <4>2. CASE ~(k - 1 <= Len(p)) BY <1>2, <2>1, <4>2
      <4> QED BY <4>1, <4>2
    <3> QED BY <3>1, <3>2
  <2> QED BY <2>2, <2>3
<1>5. Up(s, Entry(s, p), n) = g[n] BY <1>2, <1>3, <1>4, UpIs
<1>6. n \in 0..n OBVIOUS
<1> QED BY <1>2, <1>5, <1>6

\* No path is longer than there are entries: those above it differ.
LEMMA DepthBound ==
  ASSUME NEW s, Typed(s), Tree(s), NEW p \in Paths, Entry(s, p) # Absent
  PROVE  Len(p) <= MaxEntries
<1>1. p \in Seq(Names) /\ Len(p) \in Nat /\ MaxEntries \in Nat BY PathsAre, CatalogAssumption
<1> SUFFICES ASSUME Len(p) > MaxEntries PROVE FALSE BY <1>1
<1> DEFINE S == 0..Len(p)
           T == 0..MaxEntries
           f == [j \in S |-> Entry(s, Cut(p, j))]
<1>2. f \in [S -> T]
  <2>1. ASSUME NEW j \in 0..Len(p) PROVE Entry(s, Cut(p, j)) \in 0..MaxEntries
    <3>1. Cut(p, j) \in Paths /\ Entry(s, Cut(p, j)) # Absent BY AboveLives
    <3> QED BY <3>1, EntryLives DEF Ids
  <2> QED BY <2>1
<1>3. IsFiniteSet(S) /\ IsFiniteSet(T) /\ Cardinality(T) < Cardinality(S)
  <2>1. IsFiniteSet(S) /\ Cardinality(S) = Len(p) - 0 + 1
    <3>1. 0 \in Int /\ Len(p) \in Int /\ ~(0 > Len(p)) BY <1>1
    <3> QED BY <3>1, FS_Interval
  <2>2. IsFiniteSet(T) /\ Cardinality(T) = MaxEntries - 0 + 1
    <3>1. 0 \in Int /\ MaxEntries \in Int /\ ~(0 > MaxEntries) BY <1>1
    <3> QED BY <3>1, FS_Interval
  <2> HIDE DEF S, T
  <2> QED BY <1>1, <2>1, <2>2
<1>4. PICK x \in S, y \in S : x # y /\ f[x] = f[y]
  <2> HIDE DEF S, T, f
  <2> QED BY <1>2, <1>3, FS_PigeonHole
<1>5. Cut(p, x) \in Paths /\ Cut(p, y) \in Paths /\ Entry(s, Cut(p, x)) # Absent BY AboveLives
<1>6. Cut(p, x) = Cut(p, y) BY <1>4, <1>5 DEF Tree, Unique
<1>7. Len(Cut(p, x)) = x /\ Len(Cut(p, y)) = y BY <1>1, Cuts
<1> QED BY <1>4, <1>6, <1>7

-----------------------------------------------------------------------------
(* What a tree is worth: index, links, parents and queries agree.          *)

\* The four parts of the property hold of every tree.
LEMMA LinksAgreeInTree ==
  ASSUME NEW s, Typed(s), Tree(s)
  PROVE  LinksAgree(s)
<1> SUFFICES ASSUME NEW d \in Ids, NEW n \in Names, Child(s, d, n) # Absent
             PROVE  LET e == Child(s, d, n)
                    IN  /\ Type(s, e) # Absent /\ Type(s, d) = "directory"
                        /\ s[<<"parent", e>>] = d /\ s[<<"name", e>>] = n
  BY DEF LinksAgree
<1>1. PICK p \in Paths : Append(p, n) \in Paths /\ Entry(s, p) = d /\ Entry(s, Append(p, n)) = Child(s, d, n)
  BY DEF Tree, Linked
<1>2. Append(p, n) # <<>> /\ Front(Append(p, n)) = p /\ Last(Append(p, n)) = n BY Appending, PathsAre
<1>3. Filed(s, Append(p, n)) BY <1>1, <1>2 DEF Tree
<1> QED BY <1>1, <1>2, <1>3 DEF Filed, Parent, NameOf

LEMMA ReachesRoot ==
  ASSUME NEW s, Typed(s), Tree(s), NEW p \in Paths, Entry(s, p) # Absent, NEW n \in Nat
  PROVE  Up(s, Entry(s, p), n) = Root <=> Len(p) <= n
<1>1. p \in Seq(Names) /\ Len(p) \in Nat BY PathsAre
<1>2. Up(s, Entry(s, p), n) = IF n <= Len(p) THEN Entry(s, Cut(p, Len(p) - n)) ELSE Root BY UpFrom
<1>3. CASE n < Len(p)
  <2> DEFINE i == Len(p) - n
  <2>1. i \in 1..Len(p) /\ i \in 0..Len(p) BY <1>1, <1>3
  <2> HIDE DEF i
  <2>2. Cut(p, i) # <<>> BY <1>1, <2>1, CutEnds
  <2>3. Cut(p, i) \in Paths /\ Entry(s, Cut(p, i)) # Absent BY <2>1, AboveLives
  <2>4. Entry(s, Cut(p, i)) # Root BY <2>2, <2>3, EmptyPath DEF Tree, Unique
  <2> QED BY <1>1, <1>2, <1>3, <2>4 DEF i
<1>4. CASE n = Len(p)
  <2>1. Len(p) - n = 0 BY <1>1, <1>4
  <2>2. Cut(p, 0) = <<>> BY <1>1, CutEnds
  <2> QED BY <1>1, <1>2, <1>4, <2>1, <2>2 DEF Tree
<1>5. CASE n > Len(p) BY <1>1, <1>2, <1>5
<1> QED BY <1>1, <1>3, <1>4, <1>5

\* Parents lead from an entry back to its path.
LEMMA PathOfEntry ==
  ASSUME NEW s, Typed(s), Tree(s), NEW p \in Paths, Entry(s, p) # Absent
  PROVE  getPathForEntryId(s, Entry(s, p)) = p
<1> DEFINE e == Entry(s, p)
           above == {n \in 0..MaxEntries : Up(s, e, n) = Root}
           depth == CHOOSE n \in above : \A k \in above : n <= k
<1>1. p \in Seq(Names) /\ Len(p) \in Nat /\ MaxEntries \in Nat BY PathsAre, CatalogAssumption
<1>2. Len(p) \in 0..MaxEntries BY <1>1, DepthBound
<1>3. above = {n \in 0..MaxEntries : Len(p) <= n}
  <2>1. \A n \in 0..MaxEntries : Up(s, e, n) = Root <=> Len(p) <= n BY ReachesRoot
  <2> QED BY <2>1
<1>4. depth = Len(p)
  <2>1. \A n \in above : (\A k \in above : n <= k) <=> n = Len(p) BY <1>1, <1>2, <1>3
  <2>2. Len(p) \in above BY <1>1, <1>2, <1>3
  <2> HIDE DEF above
  <2> QED BY <2>1, <2>2
<1>5. above # {} BY <1>1, <1>2, <1>3
<1>6. Type(s, e) # Absent BY EntryLives DEF Live
<1>7. getPathForEntryId(s, e) = [i \in 1..depth |-> s[<<"name", Up(s, e, depth - i)>>]]
  <2> HIDE DEF e
  <2> QED BY <1>5, <1>6 DEF getPathForEntryId
<1> HIDE DEF depth, above
<1>8. \A i \in 1..Len(p) : s[<<"name", Up(s, e, Len(p) - i)>>] = p[i]
  <2> TAKE i \in 1..Len(p)
  <2>1. Len(p) - i \in Nat /\ Len(p) - i <= Len(p) /\ Len(p) - (Len(p) - i) = i /\ i \in 0..Len(p) BY <1>1
  <2> DEFINE n == Len(p) - i
  <2>2. Up(s, e, n) = Entry(s, Cut(p, Len(p) - n))
    <3> HIDE DEF n
    <3>1. n \in Nat /\ n <= Len(p) BY <2>1 DEF n
    <3> QED BY <3>1, UpFrom
  <2>3. Up(s, e, Len(p) - i) = Entry(s, Cut(p, i)) BY <2>1, <2>2
  <2>4. Cut(p, i) # <<>> /\ Last(Cut(p, i)) = p[i] BY <1>1, CutEnds
  <2>5. Cut(p, i) \in Paths /\ Entry(s, Cut(p, i)) # Absent BY <2>1, AboveLives
  <2>6. Filed(s, Cut(p, i)) BY <2>4, <2>5 DEF Tree
  <2> QED BY <2>3, <2>4, <2>6 DEF Filed, NameOf
<1>9. p = [i \in 1..Len(p) |-> p[i]] BY <1>1
<1> HIDE DEF e
<1>10. [i \in 1..Len(p) |-> s[<<"name", Up(s, e, Len(p) - i)>>]] = [i \in 1..Len(p) |-> p[i]] BY <1>8
<1>11. getPathForEntryId(s, e) = p BY <1>4, <1>7, <1>9, <1>10
<1> QED BY <1>11 DEF e

LEMMA PathsInTree ==
  ASSUME NEW s, Typed(s), Tree(s)
  PROVE  EveryEntryHasItsPath(s)
<1> SUFFICES ASSUME NEW e \in Live(s)
             PROVE  Ends(s, e) /\ \A q \in Paths : resolvePath(s, q) = e <=> q = getPathForEntryId(s, e)
  BY DEF EveryEntryHasItsPath
<1>1. PICK p \in Paths : Entry(s, p) = e BY DEF Tree
<1>2. e # Absent BY CatalogAssumption DEF Live, Ids
<1>3. Ends(s, e)
  <2>1. Len(p) \in Nat /\ MaxEntries \in Nat BY PathsAre, CatalogAssumption
  <2>2. Len(p) <= MaxEntries + 1 /\ MaxEntries + 1 \in Nat BY <1>1, <1>2, <2>1, DepthBound
  <2>3. Up(s, e, MaxEntries + 1) = Root BY <1>1, <1>2, <2>2, ReachesRoot
  <2> QED BY <2>3 DEF Ends
<1>4. getPathForEntryId(s, e) = p BY <1>1, <1>2, PathOfEntry
<1>5. \A q \in Paths : resolvePath(s, q) = e <=> q = p BY <1>1, <1>2, IndexIsWalk DEF Tree, Unique
<1> QED BY <1>3, <1>4, <1>5

\* The entries of a directory by its links are those that the paths below it have.
LEMMA ListIsTree ==
  ASSUME NEW s, Typed(s), Tree(s), NEW p \in Paths, Entry(s, p) # Absent
  PROVE  listDirectoryEntries(s, Entry(s, p))
           = {[entryId |-> Entry(s, q), name |-> Last(q), path |-> q, type |-> Type(s, Entry(s, q))] :
                q \in {x \in Paths : Entry(s, x) # Absent /\ x # <<>> /\ Front(x) = p}}
<1> DEFINE d == Entry(s, p)
           Of(q) == [entryId |-> Entry(s, q), name |-> Last(q), path |-> q, type |-> Type(s, Entry(s, q))]
           Listed(n) == [entryId |-> Child(s, d, n), name |-> n, path |-> Append(getPathForEntryId(s, d), n),
                         type |-> Type(s, Child(s, d, n))]
           N == {n \in Names : Child(s, d, n) # Absent /\ Type(s, Child(s, d, n)) # Absent}
           Q == {x \in Paths : Entry(s, x) # Absent /\ x # <<>> /\ Front(x) = p}
<1>1. listDirectoryEntries(s, d) = {Listed(n) : n \in N} BY DEF listDirectoryEntries
<1>2. ASSUME NEW n \in N
      PROVE  Append(p, n) \in Q /\ Listed(n) = Of(Append(p, n))
  <2>1. n \in Names /\ Child(s, d, n) # Absent OBVIOUS
  <2>2. Append(p, n) \in Paths /\ Entry(s, Append(p, n)) = Child(s, d, n) BY <2>1, ChildAt
  <2>3. Append(p, n) # <<>> /\ Front(Append(p, n)) = p /\ Last(Append(p, n)) = n BY <2>1, Appending, PathsAre
  <2>4. getPathForEntryId(s, d) = p BY PathOfEntry
  <2> QED BY <2>1, <2>2, <2>3, <2>4
<1>3. ASSUME NEW q \in Q
      PROVE  Last(q) \in N /\ Of(q) = Listed(Last(q))
  <2>1. q \in Paths /\ Entry(s, q) # Absent /\ q # <<>> /\ Front(q) = p OBVIOUS
  <2>2. Last(q) \in Names /\ Append(p, Last(q)) = q BY <2>1, Fronts
  <2>3. Child(s, d, Last(q)) = Entry(s, q) BY <2>1, <2>2, ChildAt
  <2>4. Type(s, Entry(s, q)) # Absent BY <2>1, EntryLives DEF Live
  <2>5. getPathForEntryId(s, d) = p BY PathOfEntry
  <2> QED BY <2>1, <2>2, <2>3, <2>4, <2>5
<1> HIDE DEF N, Q, Of, Listed
<1>4. {Listed(n) : n \in N} = {Of(q) : q \in Q} BY <1>2, <1>3
<1> QED BY <1>1, <1>4 DEF Q, Of

LEMMA QueriesInTree ==
  ASSUME NEW s, Typed(s), Tree(s)
  PROVE  QueriesAgree(s)
<1> DEFINE D == {x \in Paths : Entry(s, x) # Absent}
           tree == buildTree(s)
<1>1. ASSUME NEW p \in Paths
      PROVE  Walk(s, Root, p) = Entry(s, p) /\ resolvePath(s, p) = Entry(s, p)
  BY IndexIsWalk
<1>2. DOMAIN tree = D BY <1>1 DEF buildTree
<1>3. ASSUME NEW p \in D
      PROVE  tree[p].entryId = Entry(s, p) /\ tree[p].type = Type(s, Entry(s, p))
  <2>1. p \in Paths /\ Walk(s, Root, p) = Entry(s, p) BY <1>1
  <2>2. tree[p] = [entryId |-> Walk(s, Root, p), type |-> Type(s, Walk(s, Root, p))] BY <1>2, <2>1 DEF buildTree
  <2> HIDE DEF tree
  <2> QED BY <2>1, <2>2
<1>4. ASSUME NEW p \in Paths, Entry(s, p) # Absent PROVE Type(s, Entry(s, p)) # Absent
  BY <1>4, EntryLives DEF Live
<1> HIDE DEF tree
<1>5. ~TreeThrows(s) BY <1>2, <1>3, <1>4 DEF TreeThrows, tree
<1>6. \A p \in Paths : Found(s, p) <=> p \in DOMAIN tree BY <1>1, <1>2, <1>4 DEF Found
<1>7. ASSUME NEW p \in DOMAIN tree
      PROVE  /\ stat(s, p).entryId = tree[p].entryId
             /\ listDirectoryEntries(s, tree[p].entryId)
                  = {[entryId |-> tree[q].entryId, name |-> Last(q), path |-> q, type |-> tree[q].type] :
                       q \in {x \in DOMAIN tree : x # <<>> /\ Front(x) = p}}
  <2>1. p \in D /\ p \in Paths /\ Entry(s, p) # Absent BY <1>2
  <2>2. stat(s, p).entryId = tree[p].entryId BY <1>1, <1>3, <2>1 DEF stat
  <2> DEFINE Q == {x \in D : x # <<>> /\ Front(x) = p}
  <2>3. listDirectoryEntries(s, Entry(s, p))
          = {[entryId |-> Entry(s, q), name |-> Last(q), path |-> q, type |-> Type(s, Entry(s, q))] : q \in Q}
    <3>1. Q = {x \in Paths : Entry(s, x) # Absent /\ x # <<>> /\ Front(x) = p} OBVIOUS
    <3> HIDE DEF Q
    <3> QED BY <2>1, <3>1, ListIsTree
  <2>4. \A q \in Q : tree[q].entryId = Entry(s, q) /\ tree[q].type = Type(s, Entry(s, q)) BY <1>3
  <2>5. tree[p].entryId = Entry(s, p) BY <1>3, <2>1
  <2>6. {[entryId |-> tree[q].entryId, name |-> Last(q), path |-> q, type |-> tree[q].type] : q \in Q}
          = {[entryId |-> Entry(s, q), name |-> Last(q), path |-> q, type |-> Type(s, Entry(s, q))] : q \in Q}
    <3> HIDE DEF Q
    <3> QED BY <2>4
  <2>7. Q = {x \in DOMAIN tree : x # <<>> /\ Front(x) = p} BY <1>2
  <2> HIDE DEF Q
  <2> QED BY <2>2, <2>3, <2>5, <2>6, <2>7
<1>8. /\ ~TreeThrows(s)
      /\ \A p \in Paths : Found(s, p) <=> p \in DOMAIN tree
      /\ \A p \in DOMAIN tree :
           /\ stat(s, p).entryId = tree[p].entryId
           /\ tree[p].type = "directory" =>
                listDirectoryEntries(s, tree[p].entryId)
                  = {[entryId |-> tree[q].entryId, name |-> Last(q), path |-> q, type |-> tree[q].type] :
                       q \in {x \in DOMAIN tree : x # <<>> /\ Front(x) = p}}
  BY <1>5, <1>6, <1>7
<1> QED BY <1>8 DEF QueriesAgree, tree

LEMMA TreesAgree ==
  ASSUME NEW s, Typed(s), Tree(s)
  PROVE  IndexAgrees(s) /\ LinksAgree(s) /\ EveryEntryHasItsPath(s) /\ QueriesAgree(s)
BY IndexIsWalk, LinksAgreeInTree, PathsInTree, QueriesInTree DEF IndexAgrees, Entry

-----------------------------------------------------------------------------
(* What an operation makes of a tree.                                      *)

\* What is above an entry is there.
LEMMA PrefixLives ==
  ASSUME NEW s, Tree(s), NEW p \in Paths, NEW q \in Paths, IsPrefixOf(p, q), Entry(s, q) # Absent
  PROVE  Entry(s, p) # Absent
<1>1. p \in Seq(Names) /\ q \in Seq(Names) /\ Len(p) \in 0..Len(q) BY PathsAre DEF IsPrefixOf
<1>2. Cut(q, Len(p)) = p
  <2>1. Cut(q, Len(p)) \in Seq(Names) /\ Len(Cut(q, Len(p))) = Len(p) /\ \A i \in 1..Len(p) : Cut(q, Len(p))[i] = q[i]
    BY <1>1, Cuts
  <2>2. \A i \in 1..Len(p) : p[i] = q[i] BY <1>1 DEF IsPrefixOf
  <2> QED BY <1>1, <2>1, <2>2, SameSeq
<1>3. Entry(s, Cut(q, Len(p))) # Absent BY <1>1, AboveLives
<1> QED BY <1>2, <1>3

\* Below an entry without links there is nothing.
LEMMA LeafBelow ==
  ASSUME NEW s, Typed(s), Tree(s), NEW p \in Paths, Entry(s, p) # Absent,
         \A n \in Names : Child(s, Entry(s, p), n) = Absent,
         NEW q \in Paths, IsPrefixOf(p, q), q # p
  PROVE  Entry(s, q) = Absent
<1> SUFFICES ASSUME Entry(s, q) # Absent PROVE FALSE OBVIOUS
<1>1. p \in Seq(Names) /\ q \in Seq(Names) /\ Len(p) \in Nat /\ Len(q) \in Nat /\ Len(p) <= Len(q)
  BY PathsAre DEF IsPrefixOf
<1>2. \A i \in 1..Len(p) : p[i] = q[i] BY <1>1 DEF IsPrefixOf
<1>3. Len(p) # Len(q) BY <1>1, <1>2, SameSeq
<1> DEFINE j == Len(p) + 1
<1>4. j \in 1..Len(q) /\ j \in 0..Len(q) /\ j - 1 = Len(p) /\ Len(p) \in 0..Len(q) BY <1>1, <1>3
<1>5. Cut(q, Len(p)) = p
  <2>1. Cut(q, Len(p)) \in Seq(Names) /\ Len(Cut(q, Len(p))) = Len(p) /\ \A i \in 1..Len(p) : Cut(q, Len(p))[i] = q[i]
    BY <1>1, <1>4, Cuts
  <2> QED BY <1>1, <1>2, <2>1, SameSeq
<1> HIDE DEF j
<1>6. Cut(q, j) = Append(p, q[j]) /\ q[j] \in Names
  <2>1. q[j] \in Names /\ Cut(q, j) = Append(Cut(q, j - 1), q[j]) BY <1>1, <1>4, CutEnds
  <2> QED BY <1>4, <1>5, <2>1
<1>7. Cut(q, j) \in Paths /\ Entry(s, Cut(q, j)) # Absent BY <1>4, AboveLives
<1>8. Child(s, Entry(s, p), q[j]) # Absent BY <1>6, <1>7, ChildAt
<1> QED BY <1>6, <1>8

\* Creating an entry below a directory, at a path that is free, leaves a tree.
LEMMA CreateTree ==
  ASSUME NEW s, Typed(s), Tree(s), NEW t, DOMAIN t = Keys,
         NEW p \in Paths, p # <<>>, Entry(s, p) = Absent,
         NEW d \in Ids, Entry(s, Front(p)) = d, Type(s, d) = "directory",
         NEW e \in Ids, e \notin Live(s), NEW type \in {"file", "directory"},
         \A x \in Ids : /\ Type(t, x) = IF x = e THEN type ELSE Type(s, x)
                        /\ Parent(t, x) = IF x = e THEN d ELSE Parent(s, x)
                        /\ NameOf(t, x) = IF x = e THEN Last(p) ELSE NameOf(s, x),
         \A x \in Ids, n \in Names : Child(t, x, n) = IF x = d /\ n = Last(p) THEN e ELSE Child(s, x, n),
         \A q \in Paths : Entry(t, q) = IF q = p THEN e ELSE Entry(s, q)
  PROVE  Typed(t) /\ Tree(t)
<1>1. Front(p) \in Paths /\ Last(p) \in Names /\ Append(Front(p), Last(p)) = p /\ Front(p) # p BY Fronts
<1>2. Absent \notin Ids /\ type # Absent BY CatalogAssumption DEF Ids
<1>3. \A q \in Paths : Entry(s, q) # e BY <1>2, EntryLives
<1>4. e # Root /\ e # d
  <2>1. Root \in Live(s) BY EmptyPath, EntryLives DEF Tree
  <2>2. d \in Live(s) BY <1>2, CatalogAssumption DEF Live
  <2> QED BY <2>1, <2>2
<1>5. Typed(t) BY DEF Typed
<1>6. Entry(t, <<>>) = Root /\ Type(t, Root) = "directory" BY <1>4, EmptyPath DEF Tree
<1>7. Unique(t)
  <2> SUFFICES ASSUME NEW q \in Paths, NEW u \in Paths, Entry(t, q) = Entry(t, u), Entry(t, q) # Absent
               PROVE  q = u
    BY DEF Unique
  <2>1. Unique(s) BY DEF Tree
  <2> QED BY <1>3, <2>1 DEF Unique
<1>8. ASSUME NEW q \in Paths, q # <<>>, Entry(t, q) # Absent PROVE Filed(t, q)
  <2>1. Front(q) \in Paths /\ Last(q) \in Names /\ Append(Front(q), Last(q)) = q /\ Front(q) # q BY <1>8, Fronts
  <2>2. CASE q = p
    <3>1. Entry(t, q) = e /\ Entry(t, Front(q)) = d BY <1>1, <2>2
    <3> QED BY <1>1, <1>2, <1>4, <2>2, <3>1 DEF Filed
  <2>3. CASE q # p
    <3> DEFINE x == Entry(s, q)
               c == Entry(s, Front(q))
    <3>1. Entry(t, q) = x /\ x # Absent BY <1>8, <2>3
    <3>2. Filed(s, q) BY <1>8, <3>1 DEF Tree
    <3>3. Front(q) # p BY <3>2 DEF Filed
    <3>4. Entry(t, Front(q)) = c BY <2>1, <3>3
    <3>5. x \in Ids /\ x # e /\ c \in Ids /\ c # e /\ c # Absent
      BY <1>3, <2>1, <3>1, <3>2, EntryLives DEF Filed
    <3>6. ~(c = d /\ Last(q) = Last(p))
      <4> SUFFICES ASSUME c = d, Last(q) = Last(p) PROVE FALSE OBVIOUS
      <4>1. Front(q) = Front(p) BY <1>1, <2>1, <3>5 DEF Tree, Unique
      <4> QED BY <1>1, <2>1, <2>3, <4>1
    <3>7. Child(t, c, Last(q)) = Child(s, c, Last(q)) BY <2>1, <3>5, <3>6
    <3>8. Type(t, c) = Type(s, c) /\ Type(t, x) = Type(s, x) /\ Parent(t, x) = Parent(s, x) /\ NameOf(t, x) = NameOf(s, x)
      BY <3>5
    <3> HIDE DEF x, c
    <3> QED BY <3>1, <3>2, <3>4, <3>7, <3>8 DEF Filed, x, c
  <2> QED BY <2>2, <2>3
<1>9. ASSUME NEW x \in Live(t) PROVE \E q \in Paths : Entry(t, q) = x
  <2>1. CASE x = e BY <2>1
  <2>2. CASE x # e
    <3>1. x \in Live(s) /\ x \in Ids BY <2>2 DEF Live
    <3>2. PICK q \in Paths : Entry(s, q) = x BY <3>1 DEF Tree
    <3>3. q # p BY <1>2, <3>1, <3>2
    <3> QED BY <3>2, <3>3
  <2> QED BY <2>1, <2>2
<1>10. ASSUME NEW x \in Ids, NEW n \in Names, Child(t, x, n) # Absent PROVE Linked(t, x, n)
  <2>1. CASE x = d /\ n = Last(p)
    <3>1. Append(Front(p), n) \in Paths /\ Entry(t, Front(p)) = x /\ Entry(t, Append(Front(p), n)) = e
      BY <1>1, <2>1
    <3>2. Child(t, x, n) = e BY <2>1
    <3> QED BY <1>1, <3>1, <3>2 DEF Linked
  <2>2. CASE ~(x = d /\ n = Last(p))
    <3>1. Child(t, x, n) = Child(s, x, n) BY <2>2
    <3>2. PICK q \in Paths : Append(q, n) \in Paths /\ Entry(s, q) = x /\ Entry(s, Append(q, n)) = Child(s, x, n)
      BY <1>10, <3>1 DEF Tree, Linked
    <3>3. q # p /\ Append(q, n) # p BY <1>2, <1>10, <3>1, <3>2
    <3>4. Entry(t, q) = x /\ Entry(t, Append(q, n)) = Child(t, x, n) BY <3>1, <3>2, <3>3
    <3> QED BY <3>2, <3>4 DEF Linked
  <2> QED BY <2>1, <2>2
<1> QED BY <1>5, <1>6, <1>7, <1>8, <1>9, <1>10 DEF Tree

\* So does deleting an entry with nothing below it.
LEMMA DeleteTree ==
  ASSUME NEW s, Typed(s), Tree(s), NEW t, DOMAIN t = Keys,
         NEW p \in Paths, p # <<>>, NEW e \in Ids, Entry(s, p) = e, NEW d \in Ids, Entry(s, Front(p)) = d,
         \A n \in Names : Child(s, e, n) = Absent,
         \A x \in Ids : /\ Type(t, x) = IF x = e THEN Absent ELSE Type(s, x)
                        /\ x # e => Parent(t, x) = Parent(s, x) /\ NameOf(t, x) = NameOf(s, x),
         \A x \in Ids, n \in Names : Child(t, x, n) = IF x = d /\ n = Last(p) THEN Absent ELSE Child(s, x, n),
         \A q \in Paths : Entry(t, q) = IF q = p THEN Absent ELSE Entry(s, q)
  PROVE  Typed(t) /\ Tree(t)
<1>1. Front(p) \in Paths /\ Last(p) \in Names /\ Append(Front(p), Last(p)) = p /\ Front(p) # p BY Fronts
<1>2. Absent \notin Ids BY CatalogAssumption DEF Ids
<1>3. Unique(s) BY DEF Tree
<1>4. \A q \in Paths : Entry(s, q) = e => q = p BY <1>2, <1>3 DEF Unique
<1>5. e # Root BY <1>4, EmptyPath DEF Tree
<1>6. Typed(t) BY DEF Typed
<1>7. Entry(t, <<>>) = Root /\ Type(t, Root) = "directory" BY <1>5, EmptyPath DEF Tree
<1>8. Unique(t) BY <1>3 DEF Unique
<1>9. ASSUME NEW q \in Paths, q # <<>>, Entry(t, q) # Absent PROVE Filed(t, q)
  <2> DEFINE x == Entry(s, q)
             c == Entry(s, Front(q))
  <2>1. Front(q) \in Paths /\ Last(q) \in Names /\ Append(Front(q), Last(q)) = q BY <1>9, Fronts
  <2>2. q # p /\ Entry(t, q) = x /\ x # Absent BY <1>9
  <2>3. Filed(s, q) BY <1>9, <2>2 DEF Tree
  <2>4. x \in Ids /\ x # e /\ c # Absent /\ c \in Ids BY <1>4, <2>1, <2>2, <2>3, EntryLives DEF Filed
  <2>5. Child(s, c, Last(q)) = x BY <2>3 DEF Filed
  <2>6. c # e /\ Front(q) # p BY <2>1, <2>2, <2>5
  <2>7. ~(c = d /\ Last(q) = Last(p))
    <3> SUFFICES ASSUME c = d, Last(q) = Last(p) PROVE FALSE OBVIOUS
    <3>1. Front(q) = Front(p) BY <1>1, <1>3, <2>1, <2>4 DEF Unique
    <3> QED BY <1>1, <2>1, <2>2, <3>1
  <2>8. Child(t, c, Last(q)) = x BY <2>1, <2>4, <2>5, <2>7
  <2>9. Entry(t, Front(q)) = c BY <2>1, <2>6
  <2>10. Type(t, c) = Type(s, c) /\ Type(t, x) = Type(s, x) /\ Parent(t, x) = Parent(s, x) /\ NameOf(t, x) = NameOf(s, x)
    BY <2>4, <2>6
  <2> HIDE DEF x, c
  <2> QED BY <2>2, <2>3, <2>4, <2>8, <2>9, <2>10 DEF Filed, x, c
<1>10. ASSUME NEW x \in Live(t) PROVE \E q \in Paths : Entry(t, q) = x
  <2>1. x \in Ids /\ x # e /\ x \in Live(s) BY DEF Live
  <2>2. PICK q \in Paths : Entry(s, q) = x BY <2>1 DEF Tree
  <2>3. q # p BY <2>1, <2>2
  <2> QED BY <2>2, <2>3
<1>11. ASSUME NEW x \in Ids, NEW n \in Names, Child(t, x, n) # Absent PROVE Linked(t, x, n)
  <2>1. ~(x = d /\ n = Last(p)) /\ Child(t, x, n) = Child(s, x, n) BY <1>11
  <2>2. PICK q \in Paths : Append(q, n) \in Paths /\ Entry(s, q) = x /\ Entry(s, Append(q, n)) = Child(s, x, n)
    BY <1>11, <2>1 DEF Tree, Linked
  <2>3. q # p BY <1>11, <2>1, <2>2
  <2>4. Append(q, n) # p
    <3> SUFFICES ASSUME Append(q, n) = p PROVE FALSE OBVIOUS
    <3>1. Front(p) = q /\ Last(p) = n BY Appending, PathsAre
    <3> QED BY <2>1, <2>2, <3>1
  <2>5. Entry(t, q) = x /\ Entry(t, Append(q, n)) = Child(t, x, n) BY <2>1, <2>2, <2>3, <2>4
  <2> QED BY <2>2, <2>5 DEF Linked
<1> QED BY <1>6, <1>7, <1>8, <1>9, <1>10, <1>11 DEF Tree

\* A subtree moves as a whole.
LEMMA RenameTree ==
  ASSUME NEW s, Typed(s), Tree(s), NEW t, DOMAIN t = Keys,
         NEW from \in Paths, from # <<>>, NEW e \in Ids, Entry(s, from) = e,
         NEW to \in Paths, to # <<>>, Entry(s, to) = Absent, ~IsPrefixOf(from, to),
         NEW d \in Ids, Entry(s, Front(to)) = d, Type(s, d) = "directory",
         NEW f \in Ids, Entry(s, Front(from)) = f,
         \A q \in Seq(Names) : from \o q \in Paths /\ Entry(s, from \o q) # Absent => to \o q \in Paths,
         \A x \in Ids : /\ Type(t, x) = Type(s, x)
                        /\ Parent(t, x) = IF x = e THEN d ELSE Parent(s, x)
                        /\ NameOf(t, x) = IF x = e THEN Last(to) ELSE NameOf(s, x),
         \A x \in Ids, n \in Names : Child(t, x, n) = IF x = d /\ n = Last(to) THEN e
                                                      ELSE IF x = f /\ n = Last(from) THEN Absent ELSE Child(s, x, n),
         \A q \in Seq(Names) : to \o q \in Paths =>
            Entry(t, to \o q) = IF from \o q \in Paths THEN Entry(s, from \o q) ELSE Absent,
         \A x \in Paths : /\ IsPrefixOf(from, x) => Entry(t, x) = Absent
                          /\ ~IsPrefixOf(from, x) /\ ~IsPrefixOf(to, x) => Entry(t, x) = Entry(s, x)
  PROVE  Typed(t) /\ Tree(t)
<1>1. /\ Front(to) \in Paths /\ Last(to) \in Names /\ Append(Front(to), Last(to)) = to
      /\ Front(from) \in Paths /\ Last(from) \in Names /\ Append(Front(from), Last(from)) = from
      /\ from \in Seq(Names) /\ to \in Seq(Names)
  BY Fronts, PathsAre
<1>2. Absent \notin Ids /\ Unique(s) BY CatalogAssumption DEF Ids, Tree
<1>3. \A x \in Paths : IsPrefixOf(to, x) => Entry(s, x) = Absent BY PrefixLives
<1>4. ASSUME NEW x \in Paths PROVE ~(IsPrefixOf(from, x) /\ IsPrefixOf(to, x))
  <2> SUFFICES ASSUME IsPrefixOf(from, x), IsPrefixOf(to, x) PROVE FALSE OBVIOUS
  <2>1. IsPrefixOf(to, from) BY <1>1, PrefixFacts, PathsAre
  <2> QED BY <1>2, <1>3, <2>1
\* What is at a path now was at the path it comes from.
<1>5. ASSUME NEW x \in Paths, Entry(t, x) # Absent
      PROVE  \/ \E q \in Seq(Names) : x = to \o q /\ from \o q \in Paths /\ Entry(t, x) = Entry(s, from \o q)
             \/ ~IsPrefixOf(from, x) /\ ~IsPrefixOf(to, x) /\ Entry(t, x) = Entry(s, x)
  <2>1. CASE IsPrefixOf(to, x)
    <3>0. x \in Seq(Names) BY PathsAre
    <3>1. PICK q \in Seq(Names) : x = to \o q BY <1>1, <2>1, <3>0, BelowJoins
    <3>2. Entry(t, to \o q) = IF from \o q \in Paths THEN Entry(s, from \o q) ELSE Absent BY <3>1
    <3> QED BY <1>5, <3>1, <3>2
  <2>2. CASE ~IsPrefixOf(to, x) BY <1>5, <2>2
  <2> QED BY <2>1, <2>2
<1>6. ASSUME NEW q \in Seq(Names), from \o q \in Paths, Entry(s, from \o q) # Absent
      PROVE  to \o q \in Paths /\ Entry(t, to \o q) = Entry(s, from \o q)
  <2>1. to \o q \in Paths BY <1>6
  <2>2. Entry(t, to \o q) = IF from \o q \in Paths THEN Entry(s, from \o q) ELSE Absent BY <2>1
  <2> QED BY <1>6, <2>1, <2>2
<1>0. \A v \in Seq(Names), m \in Names :
         from \o Append(v, m) = Append(from \o v, m) /\ to \o Append(v, m) = Append(to \o v, m)
  <2> TAKE v \in Seq(Names), m \in Names
  <2>1. from \o Append(v, m) = Append(from \o v, m) BY <1>1, JoinAppend
  <2>2. to \o Append(v, m) = Append(to \o v, m) BY <1>1, JoinAppend
  <2> QED BY <2>1, <2>2
<1>7. to \o <<>> = to /\ from \o <<>> = from BY <1>1, ConcatEmptySeq
<1>8. Entry(t, to) = e
  <2>1. Entry(t, to \o <<>>) = IF from \o <<>> \in Paths THEN Entry(s, from \o <<>>) ELSE Absent
    BY <1>7, EmptyPath
  <2> QED BY <1>7, <2>1
<1>9. ~IsPrefixOf(from, Front(to)) /\ ~IsPrefixOf(to, Front(to)) /\ Entry(t, Front(to)) = d
  <2>1. IsPrefixOf(from, Front(to)) => IsPrefixOf(from, to)
    <3>1. Front(to) \in Seq(Names) BY <1>1, PathsAre
    <3>2. IsPrefixOf(from, Front(to)) => IsPrefixOf(from, Append(Front(to), Last(to))) BY <1>1, <3>1, PrefixFacts
    <3> QED BY <1>1, <3>2
  <2>2. ~IsPrefixOf(to, Front(to)) BY <1>1, <1>2, <1>3
  <2> QED BY <1>1, <2>1, <2>2
<1>10. Typed(t)
  <2>1. ASSUME NEW x \in Paths PROVE Entry(t, x) \in Ids \cup {Absent}
    <3>1. CASE Entry(t, x) = Absent BY <3>1
    <3>2. CASE Entry(t, x) # Absent BY <1>5, <3>2 DEF Typed
    <3> QED BY <3>1, <3>2
  <2>2. ASSUME NEW x \in Ids PROVE Type(t, x) \in {"file", "directory", Absent} BY DEF Typed
  <2>3. ASSUME NEW x \in Ids, NEW n \in Names PROVE Child(t, x, n) \in Ids \cup {Absent} BY DEF Typed
  <2> QED BY <2>1, <2>2, <2>3 DEF Typed
<1>11. Entry(t, <<>>) = Root /\ Type(t, Root) = "directory"
  <2>1. ~IsPrefixOf(from, <<>>) /\ ~IsPrefixOf(to, <<>>)
    <3>1. IsPrefixOf(from, <<>>) <=> from = <<>> BY <1>1, PrefixFacts
    <3>2. IsPrefixOf(to, <<>>) <=> to = <<>> BY <1>1, PrefixFacts
    <3> QED BY <3>1, <3>2
  <2> QED BY <2>1, EmptyPath DEF Tree
<1>12. Unique(t)
  <2> SUFFICES ASSUME NEW x \in Paths, NEW y \in Paths, Entry(t, x) = Entry(t, y), Entry(t, x) # Absent
               PROVE  x = y
    BY DEF Unique
  <2>1. \A q \in Seq(Names) : IsPrefixOf(from, from \o q) BY <1>1, Joins
  <2>2. CASE \E q \in Seq(Names) : x = to \o q /\ from \o q \in Paths /\ Entry(t, x) = Entry(s, from \o q)
    <3>1. PICK q \in Seq(Names) : x = to \o q /\ from \o q \in Paths /\ Entry(t, x) = Entry(s, from \o q) BY <2>2
    <3>2. CASE \E u \in Seq(Names) : y = to \o u /\ from \o u \in Paths /\ Entry(t, y) = Entry(s, from \o u)
      <4>1. PICK u \in Seq(Names) : y = to \o u /\ from \o u \in Paths /\ Entry(t, y) = Entry(s, from \o u) BY <3>2
      <4>2. Entry(s, from \o q) = Entry(s, from \o u) /\ Entry(s, from \o q) # Absent BY <3>1, <4>1
      <4>3. from \o q = from \o u
        <5>1. PICK v, w : v = from \o q /\ w = from \o u OBVIOUS
        <5>2. v \in Paths /\ w \in Paths /\ Entry(s, v) = Entry(s, w) /\ Entry(s, v) # Absent BY <3>1, <4>1, <4>2, <5>1
        <5>3. v = w BY <1>2, <5>2 DEF Unique
        <5> QED BY <5>1, <5>3
      <4> QED BY <1>1, <3>1, <4>1, <4>3, JoinUnique
    <3>3. CASE ~IsPrefixOf(from, y) /\ ~IsPrefixOf(to, y) /\ Entry(t, y) = Entry(s, y)
      <4>1. from \o q = y
        <5>1. PICK v : v = from \o q OBVIOUS
        <5>2. v \in Paths /\ Entry(s, v) = Entry(s, y) /\ Entry(s, v) # Absent BY <3>1, <3>3, <5>1
        <5>3. v = y BY <1>2, <5>2 DEF Unique
        <5> QED BY <5>1, <5>3
      <4> QED BY <2>1, <3>3, <4>1
    <3> QED BY <1>5, <3>2, <3>3
  <2>3. CASE ~IsPrefixOf(from, x) /\ ~IsPrefixOf(to, x) /\ Entry(t, x) = Entry(s, x)
    <3>1. CASE \E u \in Seq(Names) : y = to \o u /\ from \o u \in Paths /\ Entry(t, y) = Entry(s, from \o u)
      <4>1. PICK u \in Seq(Names) : y = to \o u /\ from \o u \in Paths /\ Entry(t, y) = Entry(s, from \o u) BY <3>1
      <4>2. from \o u = x BY <1>2, <2>3, <4>1 DEF Unique
      <4> QED BY <2>1, <2>3, <4>2
    <3>2. CASE ~IsPrefixOf(from, y) /\ ~IsPrefixOf(to, y) /\ Entry(t, y) = Entry(s, y)
      BY <1>2, <2>3, <3>2 DEF Unique
    <3> QED BY <1>5, <3>1, <3>2
  <2> QED BY <1>5, <2>2, <2>3
<1>13. ASSUME NEW x \in Paths, Entry(s, x) # Absent, NEW n \in Names, Append(x, n) \in Paths,
              Entry(s, Append(x, n)) # Absent, Append(x, n) # from
       PROVE  /\ ~(Entry(s, x) = d /\ n = Last(to))
              /\ ~(Entry(s, x) = f /\ n = Last(from))
  <2>1. ~(Entry(s, x) = d /\ n = Last(to))
    <3> SUFFICES ASSUME Entry(s, x) = d, n = Last(to) PROVE FALSE OBVIOUS
    <3>1. x = Front(to) BY <1>1, <1>2, <1>13 DEF Unique
    <3> QED BY <1>1, <1>13, <3>1
  <2>2. ~(Entry(s, x) = f /\ n = Last(from))
    <3> SUFFICES ASSUME Entry(s, x) = f, n = Last(from) PROVE FALSE OBVIOUS
    <3>1. x = Front(from) BY <1>1, <1>2, <1>13 DEF Unique
    <3> QED BY <1>1, <1>13, <3>1
  <2> QED BY <2>1, <2>2
\* An entry other than e has the record and the link that it had.
<1>14. ASSUME NEW u \in Paths, u # <<>>, Entry(s, u) # Absent, u # from, NEW x \in Paths,
              x # <<>>, Last(x) = Last(u), Entry(t, x) = Entry(s, u), Entry(t, Front(x)) = Entry(s, Front(u))
       PROVE  Filed(t, x)
  <2> DEFINE c == Entry(s, u)
             b == Entry(s, Front(u))
  <2>1. Front(u) \in Paths /\ Last(u) \in Names /\ Append(Front(u), Last(u)) = u BY <1>14, Fronts
  <2>2. Filed(s, u) BY <1>14 DEF Tree
  <2>3. c \in Ids /\ b \in Ids /\ b # Absent BY <1>14, <2>1, <2>2, EntryLives DEF Filed
  <2>4. c # e BY <1>2, <1>14 DEF Unique
  <2>5. ~(b = d /\ Last(u) = Last(to)) /\ ~(b = f /\ Last(u) = Last(from))
    <3> DEFINE w == Front(u)
               l == Last(u)
    <3>1. w \in Paths /\ l \in Names /\ Append(w, l) = u /\ Entry(s, w) # Absent BY <2>1, <2>3
    <3> HIDE DEF w, l
    <3>2. Append(w, l) \in Paths /\ Entry(s, Append(w, l)) # Absent /\ Append(w, l) # from BY <1>14, <3>1
    <3>3. ~(Entry(s, w) = d /\ l = Last(to)) /\ ~(Entry(s, w) = f /\ l = Last(from)) BY <1>13, <3>1, <3>2
    <3> QED BY <3>3 DEF w, l
  <2>6. Child(t, b, Last(u)) = Child(s, b, Last(u)) BY <2>1, <2>3, <2>5
  <2>7. Type(t, c) = Type(s, c) /\ Type(t, b) = Type(s, b) /\ Parent(t, c) = Parent(s, c) /\ NameOf(t, c) = NameOf(s, c)
    BY <2>3, <2>4
  <2> HIDE DEF c, b
  <2> QED BY <1>14, <2>2, <2>6, <2>7 DEF Filed, c, b
<1>15. ASSUME NEW x \in Paths, x # <<>>, Entry(t, x) # Absent PROVE Filed(t, x)
  <2>1. Front(x) \in Paths /\ Last(x) \in Names /\ Append(Front(x), Last(x)) = x BY <1>15, Fronts
  <2>2. CASE x = to
    <3>1. Type(t, e) # Absent
      <4>1. e \in Live(s) BY <1>2, EntryLives
      <4> QED BY <4>1 DEF Live
    <3>2. d # Absent BY <1>2
    <3> QED BY <1>1, <1>8, <1>9, <2>2, <3>1, <3>2 DEF Filed
  <2>3. CASE x # to /\ IsPrefixOf(to, x)
    <3>1. PICK q \in Seq(Names) : x = to \o q /\ from \o q \in Paths /\ Entry(t, x) = Entry(s, from \o q)
      BY <1>5, <1>15, <2>3
    <3>2. q # <<>> BY <1>7, <2>3, <3>1
    <3>3. q \in Paths /\ Len(q) \in Nat /\ Len(from) \in Nat
      <4>1. Len(from \o q) = Len(from) + Len(q) /\ Len(from \o q) <= MaxDepth BY <1>1, <3>1, Joins, PathsAre
      <4>2. Len(q) \in Nat /\ Len(from) \in Nat BY <1>1, <3>1
      <4>3. Len(q) <= MaxDepth BY <4>1, <4>2, CatalogAssumption
      <4> QED BY <3>1, <4>2, <4>3, PathsAre
    <3> DEFINE r == Front(q)
               n == Last(q)
    <3>4. r \in Paths /\ r \in Seq(Names) /\ n \in Names /\ Append(r, n) = q BY <3>2, <3>3, Fronts, PathsAre
    <3> HIDE DEF r, n
    <3>5. to \o q = Append(to \o r, n) /\ from \o q = Append(from \o r, n)
      <4>1. to \o Append(r, n) = Append(to \o r, n) BY <1>0, <3>4
      <4>2. from \o Append(r, n) = Append(from \o r, n) BY <1>0, <3>4
      <4> QED BY <3>4, <4>1, <4>2
    <3>6. to \o r \in Seq(Names) /\ from \o r \in Seq(Names) BY <1>1, <3>4, Joins
    <3>7. /\ Front(x) = to \o r /\ Last(x) = n /\ from \o q # <<>>
          /\ Front(from \o q) = from \o r /\ Last(from \o q) = n
      <4>1. Front(Append(to \o r, n)) = to \o r /\ Last(Append(to \o r, n)) = n BY <3>4, <3>6, Appending
      <4>2. /\ Front(Append(from \o r, n)) = from \o r /\ Last(Append(from \o r, n)) = n
            /\ Append(from \o r, n) # <<>>
        BY <3>4, <3>6, Appending
      <4> QED BY <3>1, <3>5, <4>1, <4>2
    <3>8. from \o r \in Paths BY <3>1, <3>7, Fronts
    <3>9. to \o r \in Paths BY <2>1, <3>7
    <3>10. Entry(t, to \o r) = Entry(s, from \o r) BY <3>4, <3>8, <3>9
    <3>11. from \o q # from BY <1>1, <3>2, Joins
    <3> DEFINE u == from \o q
    <3>12. /\ u \in Paths /\ u # <<>> /\ Entry(s, u) # Absent /\ u # from
           /\ Last(x) = Last(u) /\ Entry(t, x) = Entry(s, u) /\ Entry(t, Front(x)) = Entry(s, Front(u))
      BY <1>15, <3>1, <3>7, <3>10, <3>11
    <3> HIDE DEF u
    <3> QED BY <1>14, <1>15, <3>12
  <2>4. CASE ~IsPrefixOf(to, x)
    <3>1. Entry(t, x) = Entry(s, x) /\ ~IsPrefixOf(from, x) BY <1>15, <2>4
    <3>2. x # from BY <1>1, <3>1, PrefixFacts
    <3>3. ~IsPrefixOf(to, Front(x)) /\ ~IsPrefixOf(from, Front(x))
      <4>1. \A v \in Seq(Names) : IsPrefixOf(v, Front(x)) => IsPrefixOf(v, Append(Front(x), Last(x)))
        BY <2>1, PrefixFacts, PathsAre
      <4> QED BY <1>1, <2>1, <2>4, <3>1, <4>1
    <3>4. Entry(t, Front(x)) = Entry(s, Front(x)) BY <2>1, <3>3
    <3> QED BY <1>14, <1>15, <3>1, <3>2, <3>4
  <2> QED BY <2>2, <2>3, <2>4
\* Where a path is now.
<1>16. ASSUME NEW u \in Paths, Entry(s, u) # Absent
       PROVE  \/ \E q \in Seq(Names) : u = from \o q /\ to \o q \in Paths /\ Entry(t, to \o q) = Entry(s, u)
              \/ ~IsPrefixOf(from, u) /\ ~IsPrefixOf(to, u) /\ Entry(t, u) = Entry(s, u)
  <2>1. CASE IsPrefixOf(from, u)
    <3>0. u \in Seq(Names) BY PathsAre
    <3>1. PICK q \in Seq(Names) : u = from \o q BY <1>1, <2>1, <3>0, BelowJoins
    <3> QED BY <1>6, <1>16, <3>1
  <2>2. CASE ~IsPrefixOf(from, u) BY <1>3, <1>16, <2>2
  <2> QED BY <2>1, <2>2
<1>17. ASSUME NEW x \in Live(t) PROVE \E q \in Paths : Entry(t, q) = x
  <2>1. x \in Ids /\ x \in Live(s) BY DEF Live
  <2>2. PICK u \in Paths : Entry(s, u) = x BY <2>1 DEF Tree
  <2>3. Entry(s, u) # Absent BY <1>2, <2>1, <2>2
  <2> QED BY <1>16, <2>2, <2>3
<1>18. ASSUME NEW x \in Ids, NEW n \in Names, Child(t, x, n) # Absent PROVE Linked(t, x, n)
  <2>1. CASE x = d /\ n = Last(to)
    <3>1. Append(Front(to), n) = to /\ Entry(t, Front(to)) = x /\ Entry(t, to) = Child(t, x, n)
      BY <1>1, <1>8, <1>9, <2>1
    <3> QED BY <1>1, <3>1 DEF Linked
  <2>2. CASE ~(x = d /\ n = Last(to))
    <3>1. ~(x = f /\ n = Last(from)) /\ Child(t, x, n) = Child(s, x, n) BY <1>18, <2>2
    <3>2. PICK u \in Paths : Append(u, n) \in Paths /\ Entry(s, u) = x /\ Entry(s, Append(u, n)) = Child(s, x, n)
      BY <1>18, <3>1 DEF Tree, Linked
    <3>3. Entry(s, u) # Absent /\ Entry(s, Append(u, n)) # Absent BY <1>2, <1>18, <3>1, <3>2
    <3>4. CASE IsPrefixOf(from, u)
      <4>0. u \in Seq(Names) BY PathsAre
      <4>1. PICK q \in Seq(Names) : u = from \o q BY <1>1, <3>4, <4>0, BelowJoins
      <4>2. to \o q \in Paths /\ Entry(t, to \o q) = x BY <1>6, <3>2, <3>3, <4>1
      <4>3. Append(q, n) \in Seq(Names) /\ from \o Append(q, n) = Append(u, n)
            /\ to \o Append(q, n) = Append(to \o q, n)
        <5>1. Append(q, n) \in Seq(Names) BY Appending
        <5>2. from \o Append(q, n) = Append(from \o q, n) BY <1>1, JoinAppend
        <5>3. to \o Append(q, n) = Append(to \o q, n) BY <1>1, JoinAppend
        <5>4. Append(from \o q, n) = Append(u, n) BY <4>1
        <5>5. from \o Append(q, n) = Append(u, n) BY <5>2, <5>4, Zenon
        <5> QED BY <5>1, <5>3, <5>5
      <4>4. to \o Append(q, n) \in Paths /\ Entry(t, to \o Append(q, n)) = Child(s, x, n)
        <5>1. PICK v : v = Append(q, n) OBVIOUS
        <5>2. v \in Seq(Names) /\ from \o v \in Paths /\ Entry(s, from \o v) # Absent BY <3>2, <3>3, <4>3, <5>1
        <5>3. to \o v \in Paths /\ Entry(t, to \o v) = Entry(s, from \o v) BY <1>6, <5>2
        <5> QED BY <3>2, <4>3, <5>1, <5>3
      <4> QED BY <3>1, <4>2, <4>3, <4>4 DEF Linked
    <3>5. CASE ~IsPrefixOf(from, u)
      <4>1. Entry(t, u) = x BY <1>3, <3>2, <3>3, <3>5
      <4>2. ~IsPrefixOf(from, Append(u, n))
        <5> SUFFICES ASSUME IsPrefixOf(from, Append(u, n)) PROVE FALSE OBVIOUS
        <5>0. Append(u, n) \in Seq(Names) BY <3>2, PathsAre
        <5>1. PICK q \in Seq(Names) : Append(u, n) = from \o q BY <1>1, <5>0, BelowJoins
        <5>2. CASE q = <<>>
          <6>1. Append(u, n) = from BY <1>7, <5>1, <5>2
          <6>2. u = Front(from) /\ n = Last(from) BY <6>1, Appending, PathsAre
          <6> QED BY <3>1, <3>2, <6>2
        <5>3. CASE q # <<>>
          <6>1. q \in Paths
            <7>1. Len(from \o q) = Len(from) + Len(q) /\ Len(from \o q) <= MaxDepth BY <1>1, <3>2, <5>1, Joins, PathsAre
            <7>2. Len(q) \in Nat /\ Len(from) \in Nat BY <1>1, <5>1
            <7>3. Len(q) <= MaxDepth BY <7>1, <7>2, CatalogAssumption
            <7> QED BY <5>1, <7>3, PathsAre
          <6> DEFINE r == Front(q)
                     l == Last(q)
          <6>2. r \in Seq(Names) /\ l \in Names /\ Append(r, l) = q BY <5>3, <6>1, Fronts, PathsAre
          <6> HIDE DEF r, l
          <6>3. from \o q = Append(from \o r, l) /\ from \o r \in Seq(Names)
            <7>1. from \o Append(r, l) = Append(from \o r, l) BY <1>0, <6>2
            <7>2. from \o r \in Seq(Names) BY <1>1, <6>2, Joins
            <7> QED BY <6>2, <7>1, <7>2
          <6>4. u = from \o r
            <7>1. Front(Append(u, n)) = u /\ Front(Append(from \o r, l)) = from \o r BY <6>2, <6>3, Appending, PathsAre
            <7> QED BY <5>1, <6>3, <7>1
          <6> QED BY <1>1, <3>5, <6>2, <6>4, Joins
        <5> QED BY <5>2, <5>3
      <4>3. Entry(t, Append(u, n)) = Child(s, x, n) BY <1>3, <3>2, <3>3, <4>2
      <4> QED BY <3>1, <3>2, <4>1, <4>3 DEF Linked
    <3> QED BY <3>4, <3>5
  <2> QED BY <2>1, <2>2
<1> QED BY <1>10, <1>11, <1>12, <1>15, <1>17, <1>18 DEF Tree

-----------------------------------------------------------------------------
(* The operations.                                                         *)

\* What a transaction changes is about its paths: their index rows and those below them,
\* the entries at them, the links to them, and entries it makes.
About(s, put, gone, paths) ==
  /\ paths \subseteq Paths \ {<<>>} /\ DOMAIN put \subseteq Keys
  /\ \A p \in Paths : <<"path", p>> \in DOMAIN put \cup gone => \E t \in paths : IsPrefixOf(t, p)
  /\ \A e \in Ids, f \in {"type", "parent", "name"} :
       <<f, e>> \in DOMAIN put \cup gone =>
         <<"type", e>> \in DOMAIN put \/ \E p \in Paths : p \in paths /\ Entry(s, p) = e
  /\ \A d \in Ids, n \in Names :
       <<"child", d, n>> \in DOMAIN put \cup gone =>
         \E p \in Paths : Entry(s, p) = d /\ Append(p, n) \in paths
  /\ \A e \in Ids : <<"type", e>> \in DOMAIN put => e > made /\ e <= made'

\* What a transaction makes of the state.
LEMMA CommitIs ==
  ASSUME Shape, NEW r \in Replicas, Typed(doc[r]), NEW put, NEW gone, NEW paths, DOMAIN put \subseteq Keys,
         Commit(r, put, gone, paths)
  PROVE  /\ DOMAIN doc'[r] = Keys
         /\ \A k \in Keys : doc'[r][k] = IF k \in DOMAIN put THEN put[k] ELSE IF k \in gone THEN Absent ELSE doc[r][k]
         /\ wrote'[r] = wrote[r] \cup DOMAIN put /\ touched'[r] = touched[r] \cup paths
         /\ \A q \in Replicas \ {r} : doc'[q] = doc[q] /\ wrote'[q] = wrote[q] /\ touched'[q] = touched[q]
         /\ DOMAIN doc' = Replicas /\ DOMAIN wrote' = Replicas /\ DOMAIN touched' = Replicas
         /\ base' = base /\ tangled' = tangled
<1> DEFINE old == [k \in Keys |-> IF k \in gone THEN Absent ELSE doc[r][k]]
           new == Over(put, old)
<1>1. doc' = [doc EXCEPT ![r] = new] /\ base' = base /\ tangled' = tangled BY DEF Commit
<1>2. wrote' = [wrote EXCEPT ![r] = @ \cup DOMAIN put] /\ touched' = [touched EXCEPT ![r] = @ \cup paths]
  BY DEF Commit
<1>3. DOMAIN new = Keys BY DEF Over
<1>4. \A k \in Keys : new[k] = IF k \in DOMAIN put THEN put[k] ELSE IF k \in gone THEN Absent ELSE doc[r][k]
  BY DEF Over
<1> HIDE DEF new
<1> QED BY <1>1, <1>2, <1>3, <1>4 DEF Shape

\* An entry that a replica has at a path is one it made, or was at that path or in a place
\* where it has worked since.
LEMMA OwnPlace ==
  ASSUME NEW x, Good(base), Good(doc[x]), TrackInv(x), NEW p \in Paths, NEW e \in Ids, Entry(doc[x], p) = e
  PROVE  New(x, e) \/ \E q \in Paths : Entry(base, q) = e /\ (Near(x, q) \/ q = p)
<1>1. e # Absent BY CatalogAssumption DEF Ids
<1>2. e \in Live(doc[x]) BY <1>1, EntryLives DEF Good
<1> SUFFICES ASSUME ~New(x, e) PROVE \E q \in Paths : Entry(base, q) = e /\ (Near(x, q) \/ q = p)
  OBVIOUS
<1>3. PICK q \in Paths : Entry(base, q) = e /\ (Near(x, q) \/ Entry(doc[x], q) = e) BY <1>2, Stayed
<1>4. Entry(doc[x], q) = e => q = p BY <1>1 DEF Good, Tree, Unique
<1> QED BY <1>3, <1>4

\* A transaction that changes only what its paths are about keeps account of it.
LEMMA CommitTracks ==
  ASSUME IInv, ~tangled, NEW r \in Replicas, NEW put, NEW gone, NEW paths,
         Commit(r, put, gone, paths), About(doc[r], put, gone, paths),
         made \in Nat, made' \in Nat, made <= made'
  PROVE  TrackInv(r)'
<1> DEFINE s == doc[r]
           changed == DOMAIN put \cup gone
<1>1. Good(base) /\ Good(s) /\ TrackInv(r) /\ Shape BY DEF IInv
<1>2. Typed(s) /\ DOMAIN put \subseteq Keys BY <1>1 DEF Good, About
<1>3. /\ \A k \in Keys : doc'[r][k] = IF k \in DOMAIN put THEN put[k] ELSE IF k \in gone THEN Absent ELSE s[k]
      /\ wrote'[r] = wrote[r] \cup DOMAIN put /\ touched'[r] = touched[r] \cup paths /\ base' = base
  BY <1>1, <1>2, CommitIs
<1>4. touched'[r] \subseteq Paths \ {<<>>} /\ wrote'[r] \subseteq Keys BY <1>1, <1>3 DEF TrackInv, About
<1>5. \A k \in Keys : k \notin wrote'[r] => doc'[r][k] \in {Absent, base'[k]} BY <1>1, <1>3 DEF TrackInv
<1>6. \A k \in Keys : k \notin changed /\ Alone(r, k) => Alone(r, k)' BY <1>3 DEF Alone
<1>7. \A p : Near(r, p) => Near(r, p)' BY <1>3 DEF Near
<1>8. \A p, t : t \in paths /\ IsPrefixOf(t, p) => Near(r, p)' BY <1>3 DEF Near
<1>9. \A e : New(r, e) => New(r, e)' BY <1>3 DEF New
<1>10. \A e : <<"type", e>> \in DOMAIN put => New(r, e)' BY <1>3 DEF New
<1>11. \A p \in Paths : IsPrefixOf(p, p)
  <2> TAKE p \in Paths
  <2>1. Len(p) \in Nat BY PathsAre
  <2> QED BY <2>1 DEF IsPrefixOf
<1>12. ASSUME NEW p \in Paths PROVE Alone(r, <<"path", p>>)' \/ Near(r, p)'
  <2>1. CASE <<"path", p>> \in changed BY <1>8, <2>1 DEF About
  <2>2. CASE <<"path", p>> \notin changed BY <1>1, <1>6, <1>7, <2>2, KeysAre DEF TrackInv
  <2> QED BY <2>1, <2>2
<1>13. ASSUME NEW e \in Ids, NEW f \in {"type", "parent", "name"}
       PROVE  Alone(r, <<f, e>>)' \/ New(r, e)' \/ \E p \in Paths : Entry(base', p) = e /\ Near(r, p)'
  <2>1. CASE <<f, e>> \in changed
    <3>1. <<"type", e>> \in DOMAIN put \/ \E p \in Paths : p \in paths /\ Entry(s, p) = e BY <2>1 DEF About
    <3>2. CASE <<"type", e>> \in DOMAIN put BY <1>10, <3>2
    <3>3. CASE \E p \in Paths : p \in paths /\ Entry(s, p) = e
      <4>1. PICK p \in Paths : p \in paths /\ Entry(s, p) = e BY <3>3
      <4>2. New(r, e) \/ \E q \in Paths : Entry(base, q) = e /\ (Near(r, q) \/ q = p) BY <1>1, <4>1, OwnPlace
      <4> QED BY <1>3, <1>7, <1>8, <1>9, <1>11, <4>1, <4>2
    <3> QED BY <3>1, <3>2, <3>3
  <2>2. CASE <<f, e>> \notin changed
    <3>1. Alone(r, <<f, e>>) \/ New(r, e) \/ \E p \in Paths : Entry(base, p) = e /\ Near(r, p) BY <1>1 DEF TrackInv
    <3>2. <<f, e>> \in Keys BY KeysAre
    <3> QED BY <1>3, <1>6, <1>7, <1>9, <2>2, <3>1, <3>2
  <2> QED BY <2>1, <2>2
<1>14. ASSUME NEW d \in Ids, NEW n \in Names
       PROVE  Alone(r, <<"child", d, n>>)' \/ New(r, d)' \/ \E p \in Paths : Entry(base', p) = d /\ Near(r, Append(p, n))'
  <2>1. CASE <<"child", d, n>> \in changed
    <3>1. PICK p \in Paths : Entry(s, p) = d /\ Append(p, n) \in paths BY <2>1 DEF About
    <3>2. New(r, d) \/ \E q \in Paths : Entry(base, q) = d /\ (Near(r, q) \/ q = p) BY <1>1, <3>1, OwnPlace
    <3>3. ASSUME NEW q \in Paths, Near(r, q) \/ q = p PROVE Near(r, Append(q, n))'
      <4>1. CASE Near(r, q)
        <5>1. Near(r, Append(q, n)) BY <1>1, <4>1, NearAppend, PathsAre
        <5> QED BY <1>7, <5>1
      <4>2. CASE q = p
        <5>1. Append(p, n) \in Paths BY <3>1 DEF About
        <5> QED BY <1>8, <1>11, <3>1, <4>2, <5>1
      <4> QED BY <3>3, <4>1, <4>2
    <3> QED BY <1>3, <1>9, <3>2, <3>3
  <2>2. CASE <<"child", d, n>> \notin changed
    <3>1. Alone(r, <<"child", d, n>>) \/ New(r, d) \/ \E p \in Paths : Entry(base, p) = d /\ Near(r, Append(p, n))
      BY <1>1 DEF TrackInv
    <3>2. <<"child", d, n>> \in Keys BY KeysAre
    <3> QED BY <1>3, <1>6, <1>7, <1>9, <2>2, <3>1, <3>2
  <2> QED BY <2>1, <2>2
<1>15. ASSUME NEW e \in Ids, New(r, e)' PROVE Type(base', e) = Absent /\ e <= made'
  <2>1. New(r, e) \/ <<"type", e>> \in DOMAIN put BY <1>3, <1>15 DEF New
  <2>2. e \in Nat BY CatalogAssumption DEF Ids
  <2>3. CASE New(r, e)
    <3>1. Type(base, e) = Absent /\ e <= made BY <1>1, <2>3 DEF TrackInv
    <3> QED BY <1>3, <2>2, <3>1
  <2>4. CASE <<"type", e>> \in DOMAIN put
    <3>1. e > made /\ e <= made' BY <2>4 DEF About
    <3>2. e \notin Live(base) BY <1>1, <2>2, <3>1 DEF Good, Counted
    <3> QED BY <1>3, <3>1, <3>2 DEF Live
  <2> QED BY <2>1, <2>3, <2>4
<1> QED BY <1>4, <1>5, <1>12, <1>13, <1>14, <1>15 DEF TrackInv

\* A transaction that is about its paths, and leaves a tree, keeps the invariant.
LEMMA CommitKeeps ==
  ASSUME IInv, ~tangled, NEW r \in Replicas, NEW put, NEW gone, NEW paths,
         Commit(r, put, gone, paths), About(doc[r], put, gone, paths),
         made' \in made..MaxEntries,
         Typed(doc'[r]), Tree(doc'[r]), \A e \in Live(doc'[r]) : e <= made'
  PROVE  IInv'
<1>1. Good(base) /\ NewOnce /\ Shape /\ \A q \in Replicas : Good(doc[q]) /\ TrackInv(q) BY DEF IInv
<1>2. made \in Nat /\ made' \in Nat /\ made <= made' /\ made' \in 0..MaxEntries
  BY <1>1, CatalogAssumption DEF Shape
<1>3. Typed(doc[r]) /\ DOMAIN put \subseteq Keys BY <1>1 DEF Good, About
<1>4. /\ wrote'[r] = wrote[r] \cup DOMAIN put
      /\ \A q \in Replicas \ {r} : doc'[q] = doc[q] /\ wrote'[q] = wrote[q] /\ touched'[q] = touched[q]
      /\ DOMAIN doc' = Replicas /\ DOMAIN wrote' = Replicas /\ DOMAIN touched' = Replicas
      /\ base' = base /\ tangled' = tangled
  BY <1>1, <1>3, CommitIs
<1>5. Shape' BY <1>2, <1>4 DEF Shape
<1>6. ASSUME NEW s, Good(s) PROVE \A e \in Live(s) : e <= made'
  <2> TAKE e \in Live(s)
  <2>1. e \in Nat /\ e <= made BY <1>6, CatalogAssumption DEF Good, Counted, Live, Ids
  <2> QED BY <1>2, <2>1
<1>7. Good(base)' BY <1>1, <1>4, <1>6 DEF Good, Counted
<1>8. Good(doc[r])' BY DEF Good, Counted
<1>9. TrackInv(r)' BY <1>2, CommitTracks
<1>10. ASSUME NEW q \in Replicas, q # r PROVE Good(doc[q])' /\ TrackInv(q)'
  <2>1. doc'[q] = doc[q] /\ wrote'[q] = wrote[q] /\ touched'[q] = touched[q] /\ base' = base BY <1>4, <1>10
  <2>2. Good(doc[q])' BY <1>1, <1>6, <2>1 DEF Good, Counted
  <2>3. \A k : Alone(q, k) <=> Alone(q, k)' BY <2>1 DEF Alone
  <2>4. \A p : Near(q, p) <=> Near(q, p)' BY <2>1 DEF Near
  <2>5. \A e : New(q, e) <=> New(q, e)' BY <2>1 DEF New
  <2>6. \A e \in Ids : e <= made => e <= made' BY <1>2, CatalogAssumption DEF Ids
  <2>7. TrackInv(q)
    BY <1>1
  <2>8. TrackInv(q)' BY <2>1, <2>3, <2>4, <2>5, <2>6, <2>7 DEF TrackInv
  <2> QED BY <2>2, <2>8
<1>11. NewOnce'
  <2>1. ASSUME NEW q \in Replicas, q # r, NEW e \in Ids, New(q, e)', New(r, e)' PROVE FALSE
    <3>1. New(q, e) BY <1>4, <2>1 DEF New
    <3>2. e <= made BY <1>1, <3>1 DEF TrackInv
    <3>3. New(r, e) \/ <<"type", e>> \in DOMAIN put BY <1>4, <2>1 DEF New
    <3>4. ~New(r, e) BY <1>1, <2>1, <3>1 DEF NewOnce
    <3>5. e > made BY <3>3, <3>4 DEF About
    <3>6. e \in Nat BY CatalogAssumption DEF Ids
    <3> QED BY <1>2, <3>2, <3>5, <3>6
  <2>2. ASSUME NEW p \in Replicas, NEW q \in Replicas, NEW e \in Ids, New(p, e)', New(q, e)' PROVE p = q
    <3>1. CASE p = r BY <2>1, <2>2, <3>1
    <3>2. CASE q = r BY <2>1, <2>2, <3>2
    <3>3. CASE p # r /\ q # r
      <4>1. New(p, e) /\ New(q, e) BY <1>4, <2>2, <3>3 DEF New
      <4> QED BY <1>1, <4>1 DEF NewOnce
    <3> QED BY <3>1, <3>2, <3>3
  <2> QED BY <2>2 DEF NewOnce
<1> QED BY <1>5, <1>7, <1>8, <1>9, <1>10, <1>11 DEF IInv

\* The keys that are not the same.
LEMMA KeysDiffer ==
  /\ \A f, g, x, y : <<f, x>> = <<g, y>> <=> f = g /\ x = y
  /\ \A f, g, x, y, n, m : <<f, x, n>> = <<g, y, m>> <=> f = g /\ x = y /\ n = m
  /\ \A f, g, x, y, m : <<f, x>> # <<g, y, m>>
OBVIOUS

\* The rows that creating an entry sets: its record, its link and its path.
SetsCreated(put, e, d, n, p, type) ==
  /\ DOMAIN put \subseteq Keys
  /\ \A x, f : f \in {"type", "parent", "name"} => (<<f, x>> \in DOMAIN put <=> x = e)
  /\ \A x, m : <<"child", x, m>> \in DOMAIN put <=> x = d /\ m = n
  /\ \A q : <<"path", q>> \in DOMAIN put <=> q = p
  /\ put[<<"type", e>>] = type /\ put[<<"parent", e>>] = d /\ put[<<"name", e>>] = n
  /\ put[<<"child", d, n>>] = e /\ put[<<"path", p>>] = e

LEMMA CreatedRows ==
  ASSUME NEW e \in Ids, NEW d \in Ids, NEW p \in Paths, NEW n \in Names, NEW type, NEW content,
         DOMAIN content \subseteq {<<"content", e>>}, NEW put,
         put = Over(createEntryRecord(e, d, n, type), Over(Over(Row(<<"child", d, n>>, e), Row(<<"path", p>>, e)), content))
  PROVE  SetsCreated(put, e, d, n, p, type)
<1>1. PICK kt, kp, kn, kc, ki : /\ kt = <<"type", e>> /\ kp = <<"parent", e>> /\ kn = <<"name", e>>
                                /\ kc = <<"child", d, n>> /\ ki = <<"path", p>>
  OBVIOUS
<1>2. /\ kt # kp /\ kt # kn /\ kp # kn /\ kc # ki
      /\ kc \notin {kt, kp, kn} /\ ki \notin {kt, kp, kn}
  BY <1>1, KeysDiffer
<1>3. PICK next : next = Over(Row(kp, d), Row(kn, n)) OBVIOUS
<1>4. PICK row : row = Row(kt, type) OBVIOUS
<1>5. PICK rec : rec = Over(row, next) OBVIOUS
<1>6. PICK links : links = Over(Row(kc, e), Row(ki, e)) OBVIOUS
<1>7. PICK rest : rest = Over(links, content) OBVIOUS
<1>8. put = Over(rec, rest) BY <1>1, <1>3, <1>4, <1>5, <1>6, <1>7 DEF createEntryRecord, NextRecord
<1>9. DOMAIN next = {kp, kn} /\ next[kp] = d /\ next[kn] = n BY <1>2, <1>3 DEF Over, Row
<1>10. DOMAIN rec = {kt, kp, kn} /\ rec[kt] = type /\ rec[kp] = d /\ rec[kn] = n
  <2>1. kt \notin DOMAIN next BY <1>2, <1>9
  <2>2. DOMAIN rec = {kt} \cup DOMAIN next /\ rec[kt] = type /\ \A x \in DOMAIN next : rec[x] = next[x]
    BY <1>4, <1>5, <2>1 DEF Over, Row
  <2> QED BY <1>9, <2>2
<1>11. DOMAIN links = {kc, ki} /\ links[kc] = e /\ links[ki] = e BY <1>2, <1>6 DEF Over, Row
<1>12. DOMAIN rest = {kc, ki} \cup DOMAIN content /\ rest[kc] = e /\ rest[ki] = e
  BY <1>7, <1>11 DEF Over
<1>13. /\ DOMAIN put = {kt, kp, kn, kc, ki} \cup DOMAIN content
       /\ put[kt] = type /\ put[kp] = d /\ put[kn] = n /\ put[kc] = e /\ put[ki] = e
  <2>1. /\ DOMAIN put = DOMAIN rec \cup DOMAIN rest
        /\ \A k \in DOMAIN rec : put[k] = rec[k]
        /\ \A k \in DOMAIN rest : k \notin DOMAIN rec => put[k] = rest[k]
    BY <1>8 DEF Over
  <2>2. DOMAIN put = {kt, kp, kn, kc, ki} \cup DOMAIN content BY <1>10, <1>12, <2>1
  <2>3. put[kt] = type /\ put[kp] = d /\ put[kn] = n BY <1>10, <2>1
  <2>4. put[kc] = e /\ put[ki] = e
    <3>1. kc \in DOMAIN rest /\ ki \in DOMAIN rest BY <1>12
    <3>2. kc \notin DOMAIN rec /\ ki \notin DOMAIN rec BY <1>2, <1>10
    <3> QED BY <1>12, <2>1, <3>1, <3>2
  <2> QED BY <2>2, <2>3, <2>4
<1>14. DOMAIN put \subseteq {kt, kp, kn, kc, ki, <<"content", e>>} BY <1>13
<1>15. DOMAIN put \subseteq Keys BY <1>1, <1>14, KeysAre
<1>16. \A x, f : f \in {"type", "parent", "name"} => (<<f, x>> \in DOMAIN put <=> x = e)
  BY <1>1, <1>13, <1>14, KeysDiffer
<1>17. \A x, m : <<"child", x, m>> \in DOMAIN put <=> x = d /\ m = n BY <1>1, <1>13, <1>14, KeysDiffer
<1>18. \A q : <<"path", q>> \in DOMAIN put <=> q = p BY <1>1, <1>13, <1>14, KeysDiffer
<1> QED BY <1>1, <1>13, <1>15, <1>16, <1>17, <1>18 DEF SetsCreated

LEMMA CreateKeeps ==
  ASSUME IInv, ~tangled, NEW r \in Replicas, NEW p \in Paths, NEW type \in {"file", "directory"}, Create(r, p, type)
  PROVE  IInv'
<1> DEFINE s == doc[r]
<1>1. Good(s) /\ Shape /\ Typed(s) /\ Tree(s) BY DEF IInv, Good
<1>2. made \in Nat /\ made + 1 \in Ids /\ made' = made + 1 /\ made' \in made..MaxEntries /\ MaxEntries \in Nat
  BY <1>1, CatalogAssumption DEF Create, Shape, Ids
<1>3. p # <<>> /\ Front(p) \in Paths /\ Last(p) \in Names /\ Append(Front(p), Last(p)) = p BY Fronts DEF Create
<1>4. resolvePath(s, p) = Entry(s, p) /\ resolvePath(s, Front(p)) = Entry(s, Front(p)) BY <1>1, <1>3, IndexIsWalk
<1>5. PICK e, d : e = made + 1 /\ d = resolvePath(s, Front(p)) OBVIOUS
<1>6. Entry(s, p) = Absent /\ Entry(s, Front(p)) = d /\ d # Absent /\ Type(s, d) = "directory"
  BY <1>4, <1>5 DEF Create, FoundDirectory, Found
<1>7. d \in Ids /\ e \in Ids /\ e = made' BY <1>1, <1>2, <1>3, <1>5, <1>6, EntryLives
<1>8. PICK content : content = IF type = "file" THEN Row(<<"content", e>>, "text") ELSE <<>> OBVIOUS
<1>9. DOMAIN content \subseteq {<<"content", e>>}
  <2>1. CASE type = "file"
    <3>1. content = Row(<<"content", e>>, "text") BY <1>8, <2>1
    <3> QED BY <3>1 DEF Row
  <2>2. CASE type # "file"
    <3>1. content = <<>> BY <1>8, <2>2
    <3>2. DOMAIN <<>> = {} OBVIOUS
    <3> QED BY <3>1, <3>2
  <2> QED BY <2>1, <2>2
<1>10. PICK put : put = Over(createEntryRecord(e, d, Last(p), type),
                             Over(Over(Row(<<"child", d, Last(p)>>, e), Row(<<"path", p>>, e)), content))
  OBVIOUS
<1>11. Commit(r, put, {}, {p}) BY <1>5, <1>8, <1>10 DEF Create
<1>12. /\ DOMAIN put \subseteq Keys
       /\ \A x, f : f \in {"type", "parent", "name"} => (<<f, x>> \in DOMAIN put <=> x = e)
       /\ \A x, m : <<"child", x, m>> \in DOMAIN put <=> x = d /\ m = Last(p)
       /\ \A q : <<"path", q>> \in DOMAIN put <=> q = p
       /\ put[<<"type", e>>] = type /\ put[<<"parent", e>>] = d /\ put[<<"name", e>>] = Last(p)
       /\ put[<<"child", d, Last(p)>>] = e /\ put[<<"path", p>>] = e
  <2>1. PICK n : n = Last(p) /\ n \in Names BY <1>3
  <2>2. put = Over(createEntryRecord(e, d, n, type),
                   Over(Over(Row(<<"child", d, n>>, e), Row(<<"path", p>>, e)), content))
    BY <1>10, <2>1
  <2>3. SetsCreated(put, e, d, n, p, type) BY <1>7, <1>9, <2>1, <2>2, CreatedRows
  <2> QED BY <2>1, <2>3 DEF SetsCreated
<1>13. About(s, put, {}, {p})
  <2>1. IsPrefixOf(p, p)
    <3>1. Len(p) \in Nat BY PathsAre
    <3> QED BY <3>1 DEF IsPrefixOf
  <2>2. e > made BY <1>2, <1>7
  <2> HIDE DEF s
  <2>3. {p} \subseteq Paths \ {<<>>} /\ DOMAIN put \subseteq Keys BY <1>3, <1>12
  <2>4. \A q \in Paths : <<"path", q>> \in DOMAIN put => \E t \in {p} : IsPrefixOf(t, q) BY <1>12, <2>1
  <2>5. \A x \in Ids, f \in {"type", "parent", "name"} : <<f, x>> \in DOMAIN put => <<"type", x>> \in DOMAIN put
    BY <1>12
  <2>6. \A x \in Ids, n \in Names :
          <<"child", x, n>> \in DOMAIN put => \E q \in Paths : Entry(s, q) = x /\ Append(q, n) \in {p}
    BY <1>3, <1>6, <1>12
  <2>7. \A x \in Ids : <<"type", x>> \in DOMAIN put => x > made /\ x <= made' BY <1>2, <1>7, <1>12, <2>2
  <2>8. DOMAIN put \cup {} = DOMAIN put OBVIOUS
  <2> QED BY <2>3, <2>4, <2>5, <2>6, <2>7, <2>8 DEF About
<1>14. DOMAIN doc'[r] = Keys /\ \A k \in Keys : doc'[r][k] = IF k \in DOMAIN put THEN put[k] ELSE s[k]
  BY <1>1, <1>11, <1>12, CommitIs
<1>15. PICK t : t = doc'[r] OBVIOUS
<1> HIDE DEF s
<1>16. ASSUME NEW x \in Ids
       PROVE  /\ Type(t, x) = IF x = e THEN type ELSE Type(s, x)
              /\ Parent(t, x) = IF x = e THEN d ELSE Parent(s, x)
              /\ NameOf(t, x) = IF x = e THEN Last(p) ELSE NameOf(s, x)
  BY <1>12, <1>14, <1>15, KeysAre DEF Type, Parent, NameOf
<1>17. ASSUME NEW x \in Ids, NEW n \in Names
       PROVE  Child(t, x, n) = IF x = d /\ n = Last(p) THEN e ELSE Child(s, x, n)
  BY <1>12, <1>14, <1>15, KeysAre DEF Child
<1>18. ASSUME NEW q \in Paths PROVE Entry(t, q) = IF q = p THEN e ELSE Entry(s, q)
  BY <1>12, <1>14, <1>15, KeysAre DEF Entry
<1>19. e \notin Live(s)
  <2>1. ~(e <= made) BY <1>2, <1>7
  <2> QED BY <1>1, <2>1 DEF Good, Counted
<1>20. Typed(t) /\ Tree(t)
  <2>1. DOMAIN t = Keys BY <1>14, <1>15
  <2> QED BY <1>1, <1>3, <1>6, <1>7, <1>16, <1>17, <1>18, <1>19, <2>1, CreateTree
<1>21. ASSUME NEW x \in Live(t) PROVE x <= made'
  <2>1. x \in Ids /\ x \in Nat BY CatalogAssumption DEF Live, Ids
  <2>2. x = e \/ x \in Live(s) BY <1>16, <2>1 DEF Live
  <2>3. x \in Live(s) => x <= made BY <1>1 DEF Good, Counted
  <2> QED BY <1>2, <1>7, <2>1, <2>2, <2>3
<1> QED BY <1>2, <1>11, <1>13, <1>15, <1>20, <1>21, CommitKeeps DEF s

\* The rows of the index at a path and below it, and the link to the entry there.
LEMMA PathRows ==
  ASSUME NEW s, Typed(s), Tree(s), NEW p \in Paths, NEW e \in Ids, Entry(s, p) = e
  PROVE  /\ \A q \in Paths : <<"path", q>> \in removePathIndexForEntry(s, e, p) <=> IsPrefixOf(p, q)
         /\ \A k \in removePathIndexForEntry(s, e, p) : \E q \in Paths : k = <<"path", q>>
<1>1. e # Absent BY CatalogAssumption DEF Ids
<1>2. \A q \in Paths : s[<<"path", q>>] = e <=> q = p BY <1>1 DEF Tree, Unique, Entry
<1>3. IsPrefixOf(p, p)
  <2>1. Len(p) \in Nat BY PathsAre
  <2> QED BY <2>1 DEF IsPrefixOf
<1>4. \A q \in Paths : (s[<<"path", q>>] = e \/ (IsPrefixOf(p, q) /\ q # p)) <=> IsPrefixOf(p, q) BY <1>2, <1>3
<1>5. PICK S : S = {q \in Paths : s[<<"path", q>>] = e \/ (IsPrefixOf(p, q) /\ q # p)} OBVIOUS
<1>6. removePathIndexForEntry(s, e, p) = {<<"path", q>> : q \in S} BY <1>5 DEF removePathIndexForEntry
<1>7. \A q \in Paths : q \in S <=> IsPrefixOf(p, q) BY <1>4, <1>5
<1>8. S \subseteq Paths BY <1>5
<1>9. \A q : <<"path", q>> \in {<<"path", u>> : u \in S} <=> q \in S OBVIOUS
<1> QED BY <1>6, <1>7, <1>8, <1>9

\* The link by the record of an entry is the one at its path.
LEMMA OldLinkIs ==
  ASSUME NEW s, Tree(s), NEW p \in Paths, p # <<>>, NEW e \in Ids, Entry(s, p) = e
  PROVE  OldLink(s, e) = {<<"child", Entry(s, Front(p)), Last(p)>>}
<1>1. e # Absent BY CatalogAssumption DEF Ids
<1>2. Filed(s, p) BY <1>1 DEF Tree
<1> QED BY <1>2 DEF Filed, Parent, NameOf, OldLink

LEMMA DeletedRows ==
  ASSUME NEW s, Typed(s), Tree(s), NEW p \in Paths, p # <<>>, NEW e \in Ids, Entry(s, p) = e,
         NEW d, NEW n, d = Entry(s, Front(p)), n = Last(p), NEW gone,
         gone = OldLink(s, e) \cup ({"type", "parent", "name", "content"} \X {e}) \cup removePathIndexForEntry(s, e, p)
  PROVE  /\ \A x, f : f \in {"type", "parent", "name"} => (<<f, x>> \in gone <=> x = e)
         /\ \A x, m : <<"child", x, m>> \in gone <=> x = d /\ m = n
         /\ \A q \in Paths : <<"path", q>> \in gone <=> IsPrefixOf(p, q)
<1>1. PICK rows : rows = removePathIndexForEntry(s, e, p) OBVIOUS
<1>2. PICK rec : rec = {"type", "parent", "name", "content"} \X {e} OBVIOUS
<1>3. gone = {<<"child", d, n>>} \cup rec \cup rows BY <1>1, <1>2, OldLinkIs
<1>4. /\ \A q \in Paths : <<"path", q>> \in rows <=> IsPrefixOf(p, q)
      /\ \A k \in rows : \E q \in Paths : k = <<"path", q>>
  BY <1>1, PathRows
<1>5. \A k : k \in rec <=> k \in {<<"type", e>>, <<"parent", e>>, <<"name", e>>, <<"content", e>>} BY <1>2
<1>6. ASSUME NEW x, NEW f, f \in {"type", "parent", "name"} PROVE <<f, x>> \in gone <=> x = e
  <2>1. <<f, x>> \notin rows BY <1>4, <1>6, KeysDiffer
  <2>2. <<f, x>> # <<"child", d, n>> BY KeysDiffer
  <2>3. <<f, x>> \in rec <=> x = e BY <1>5, <1>6, KeysDiffer
  <2> QED BY <1>3, <2>1, <2>2, <2>3
<1>7. ASSUME NEW x, NEW m PROVE <<"child", x, m>> \in gone <=> x = d /\ m = n
  <2>1. <<"child", x, m>> \notin rows BY <1>4, KeysDiffer
  <2>2. <<"child", x, m>> \notin rec BY <1>5, KeysDiffer
  <2>3. <<"child", x, m>> = <<"child", d, n>> <=> x = d /\ m = n BY KeysDiffer
  <2> QED BY <1>3, <2>1, <2>2, <2>3
<1>8. ASSUME NEW q \in Paths PROVE <<"path", q>> \in gone <=> IsPrefixOf(p, q)
  <2>1. <<"path", q>> \notin rec BY <1>5, KeysDiffer
  <2>2. <<"path", q>> # <<"child", d, n>> BY KeysDiffer
  <2> QED BY <1>3, <1>4, <2>1, <2>2
<1> QED BY <1>6, <1>7, <1>8

LEMMA DeleteKeeps ==
  ASSUME IInv, ~tangled, NEW r \in Replicas, NEW p \in Paths, Delete(r, p)
  PROVE  IInv'
<1>1. PICK s : s = doc[r] OBVIOUS
<1>2. Good(s) /\ Shape /\ Typed(s) /\ Tree(s) BY <1>1 DEF IInv, Good
<1>3. p # <<>> /\ Front(p) \in Paths /\ Last(p) \in Names /\ Append(Front(p), Last(p)) = p BY Fronts DEF Delete
<1>4. resolvePath(s, p) = Entry(s, p) BY <1>2, IndexIsWalk
<1>5. PICK e, d, n : e = Entry(s, p) /\ d = Entry(s, Front(p)) /\ n = Last(p) OBVIOUS
<1>6. e # Absent BY <1>1, <1>4, <1>5 DEF Delete, Found
<1>7. e \in Ids /\ Filed(s, p) BY <1>2, <1>3, <1>5, <1>6, EntryLives DEF Tree
<1>8. d # Absent /\ d \in Ids BY <1>2, <1>3, <1>5, <1>7, EntryLives DEF Filed
<1>9. \A m \in Names : Child(s, e, m) = Absent
  <2> SUFFICES ASSUME NEW m \in Names, Child(s, e, m) # Absent PROVE FALSE OBVIOUS
  <2>1. LinksAgree(s) BY <1>2, LinksAgreeInTree
  <2>2. Type(s, Child(s, e, m)) # Absent /\ Type(s, e) = "directory" BY <1>7, <2>1 DEF LinksAgree
  <2>3. Child(s, e, m) \in Ids BY <1>2, <1>7 DEF Typed
  <2>4. Child(s, e, m) \in Live(s) BY <2>2, <2>3 DEF Live
  <2> QED BY <1>1, <1>4, <1>5, <2>2, <2>4 DEF Delete
<1>10. \A q \in Paths : IsPrefixOf(p, q) /\ q # p => Entry(s, q) = Absent BY <1>2, <1>5, <1>6, <1>9, LeafBelow
<1>11. PICK put : put = <<>> OBVIOUS
<1>12. DOMAIN put = {}
  <2>1. DOMAIN <<>> = {} OBVIOUS
  <2> QED BY <1>11, <2>1
<1>13. PICK gone : gone = OldLink(s, e) \cup ({"type", "parent", "name", "content"} \X {e}) \cup removePathIndexForEntry(s, e, p)
  OBVIOUS
<1>14. Commit(r, put, gone, {p}) /\ made' = made BY <1>1, <1>4, <1>5, <1>11, <1>13 DEF Delete
<1>15. /\ \A x, f : f \in {"type", "parent", "name"} => (<<f, x>> \in gone <=> x = e)
       /\ \A x, m : <<"child", x, m>> \in gone <=> x = d /\ m = n
       /\ \A q \in Paths : <<"path", q>> \in gone <=> IsPrefixOf(p, q)
  BY <1>2, <1>3, <1>5, <1>7, <1>13, DeletedRows
<1>16. About(s, put, gone, {p})
  <2>1. {p} \subseteq Paths \ {<<>>} /\ DOMAIN put \subseteq Keys BY <1>3, <1>12
  <2>2. DOMAIN put \cup gone = gone BY <1>12
  <2>3. \A q \in Paths : <<"path", q>> \in gone => \E t \in {p} : IsPrefixOf(t, q) BY <1>15
  <2>4. \A x \in Ids, f \in {"type", "parent", "name"} : <<f, x>> \in gone => \E q \in Paths : q \in {p} /\ Entry(s, q) = x
    BY <1>5, <1>15
  <2>5. \A x \in Ids, m \in Names : <<"child", x, m>> \in gone => \E q \in Paths : Entry(s, q) = x /\ Append(q, m) \in {p}
    BY <1>3, <1>5, <1>15
  <2>6. \A x \in Ids : <<"type", x>> \notin DOMAIN put BY <1>12
  <2> QED BY <2>1, <2>2, <2>3, <2>4, <2>5, <2>6 DEF About
<1>17. PICK t : t = doc'[r] OBVIOUS
<1>18. DOMAIN t = Keys /\ \A k \in Keys : t[k] = IF k \in gone THEN Absent ELSE s[k]
  <2>1. DOMAIN put \subseteq Keys BY <1>12
  <2>2. Typed(doc[r]) BY <1>1, <1>2
  <2>3. /\ DOMAIN doc'[r] = Keys
        /\ \A k \in Keys : doc'[r][k] = IF k \in DOMAIN put THEN put[k] ELSE IF k \in gone THEN Absent ELSE doc[r][k]
    BY <1>2, <1>14, <2>1, <2>2, CommitIs
  <2> QED BY <1>1, <1>12, <1>17, <2>3
<1>19. ASSUME NEW x \in Ids
       PROVE  /\ Type(t, x) = IF x = e THEN Absent ELSE Type(s, x)
              /\ x # e => Parent(t, x) = Parent(s, x) /\ NameOf(t, x) = NameOf(s, x)
  BY <1>15, <1>18, KeysAre DEF Type, Parent, NameOf
<1>20. ASSUME NEW x \in Ids, NEW m \in Names
       PROVE  Child(t, x, m) = IF x = d /\ m = n THEN Absent ELSE Child(s, x, m)
  BY <1>15, <1>18, KeysAre DEF Child
<1>21. ASSUME NEW q \in Paths PROVE Entry(t, q) = IF q = p THEN Absent ELSE Entry(s, q)
  <2>1. Entry(t, q) = IF IsPrefixOf(p, q) THEN Absent ELSE Entry(s, q) BY <1>15, <1>18, KeysAre DEF Entry
  <2>2. IsPrefixOf(p, p)
    <3>1. Len(p) \in Nat BY PathsAre
    <3> QED BY <3>1 DEF IsPrefixOf
  <2> QED BY <1>10, <2>1, <2>2
<1>22. Typed(t) /\ Tree(t) BY <1>2, <1>3, <1>5, <1>7, <1>8, <1>9, <1>18, <1>19, <1>20, <1>21, DeleteTree
<1>23. ASSUME NEW x \in Live(t) PROVE x <= made'
  <2>1. x \in Live(s) BY <1>19 DEF Live
  <2> QED BY <1>1, <1>2, <1>14, <2>1 DEF Good, Counted
<1>24. made' \in made..MaxEntries BY <1>2, <1>14, CatalogAssumption DEF Shape
<1> QED BY <1>1, <1>14, <1>16, <1>17, <1>22, <1>23, <1>24, CommitKeeps

\* A directory is not moved below itself: it is not on the way up from where it goes.
LEMMA MovedApart ==
  ASSUME NEW s, Typed(s), Tree(s), NEW from \in Paths, NEW e \in Ids, Entry(s, from) = e, from # <<>>,
         NEW to \in Paths, to # <<>>, from # to, Entry(s, to) = Absent,
         NEW d \in Ids, Entry(s, Front(to)) = d, assertNoDescendantMove(s, e, d)
  PROVE  /\ ~IsPrefixOf(from, Front(to)) /\ ~IsPrefixOf(from, to) /\ ~IsPrefixOf(to, from)
         /\ \A x \in Paths : ~(IsPrefixOf(from, x) /\ IsPrefixOf(to, x))
<1>1. PICK over, n : over = Front(to) /\ n = Last(to) OBVIOUS
<1>2. over \in Paths /\ n \in Names /\ Append(over, n) = to /\ Len(to) = Len(over) + 1 BY <1>1, Fronts, PathsAre
<1>3. from \in Seq(Names) /\ to \in Seq(Names) /\ over \in Seq(Names) BY <1>2, PathsAre
<1>4. Len(from) \in Nat /\ Len(to) \in Nat /\ Len(over) \in Nat /\ DOMAIN from = 1..Len(from) BY <1>3
<1>5. e # Absent /\ d # Absent BY CatalogAssumption DEF Ids
<1>6. ~IsPrefixOf(from, over)
  <2> SUFFICES ASSUME IsPrefixOf(from, over) PROVE FALSE OBVIOUS
  <2>1. Len(from) <= Len(over) /\ \A i \in 1..Len(from) : from[i] = over[i] BY <1>4 DEF IsPrefixOf
  <2>2. Len(over) <= MaxEntries BY <1>1, <1>2, <1>5, DepthBound
  <2>3. PICK k \in 0..MaxEntries : k <= Len(over) /\ Len(over) - k = Len(from)
    <3>1. Len(over) - Len(from) \in 0..MaxEntries BY <1>4, <2>1, <2>2, CatalogAssumption
    <3> QED BY <1>4, <2>1, <3>1
  <2>4. Up(s, d, k) = Entry(s, Cut(over, Len(from)))
    <3>1. k \in Nat BY CatalogAssumption
    <3>2. Up(s, Entry(s, over), k) = IF k <= Len(over) THEN Entry(s, Cut(over, Len(over) - k)) ELSE Root
      BY <1>1, <1>2, <1>5, <3>1, UpFrom
    <3> QED BY <1>1, <2>3, <3>2
  <2>5. Cut(over, Len(from)) = from
    <3>1. Len(from) \in 0..Len(over) BY <1>4, <2>1
    <3>2. /\ Cut(over, Len(from)) \in Seq(Names) /\ Len(Cut(over, Len(from))) = Len(from)
          /\ \A i \in 1..Len(from) : Cut(over, Len(from))[i] = over[i]
      BY <1>3, <3>1, Cuts
    <3> QED BY <1>3, <2>1, <3>2, SameSeq
  <2> QED BY <2>4, <2>5 DEF assertNoDescendantMove
<1>7. ~IsPrefixOf(from, to)
  <2> SUFFICES ASSUME IsPrefixOf(from, to) PROVE FALSE OBVIOUS
  <2>1. Len(from) <= Len(to) /\ \A i \in 1..Len(from) : from[i] = to[i] BY <1>4 DEF IsPrefixOf
  <2>2. Len(from) # Len(to) BY <1>3, <2>1, SameSeq
  <2>3. Len(from) <= Len(over)
    <3>1. Len(to) = Len(over) + 1 BY <1>2
    <3>2. \A i, j, k \in Nat : i <= k /\ i # k /\ k = j + 1 => i <= j OBVIOUS
    <3> QED BY <1>4, <2>1, <2>2, <3>1, <3>2
  <2>4. \A i \in 1..Len(over) : to[i] = over[i] BY <1>2, <1>3
  <2>5. \A i \in 1..Len(from) : from[i] = over[i] BY <1>4, <2>1, <2>3, <2>4
  <2> QED BY <1>4, <1>6, <2>3, <2>5 DEF IsPrefixOf
<1>8. ~IsPrefixOf(to, from) BY <1>5, PrefixLives
<1>9. \A x \in Paths : ~(IsPrefixOf(from, x) /\ IsPrefixOf(to, x)) BY <1>2, <1>3, <1>7, <1>8, PathsAre, PrefixFacts
<1> QED BY <1>1, <1>6, <1>7, <1>8, <1>9

\* The links of t are those of s after a move, and from e, t has what s has from p.
Relinks(t, s, e, d, n, f, l) ==
  \A x \in Ids, m \in Names :
    Child(t, x, m) = IF x = d /\ m = n THEN e ELSE IF x = f /\ m = l THEN Absent ELSE Child(s, x, m)
WalksAs(t, e, s, p) ==
  \A q \in Seq(Names) : Walk(t, e, q) = IF p \o q \in Paths THEN Entry(s, p \o q) ELSE Absent

\* What is below the moved entry is found from it as before, with the links of the move made.
LEMMA WalkMoved ==
  ASSUME NEW s, Typed(s), Tree(s), NEW from \in Paths, from # <<>>, NEW e \in Ids, Entry(s, from) = e,
         NEW over \in Paths, NEW d \in Ids, Entry(s, over) = d, ~IsPrefixOf(from, over),
         NEW f \in Ids, Entry(s, Front(from)) = f, NEW n, NEW l, NEW t,
         Relinks(t, s, e, d, n, f, l)
  PROVE  WalksAs(t, e, s, from) /\ WalksAs(s, e, s, from)
<1>1. e # Absent BY CatalogAssumption DEF Ids
<1>2. Front(from) \in Paths /\ Len(Front(from)) = Len(from) - 1 /\ Len(from) \in Nat
  BY Fronts, PathsAre
<1>3. ASSUME NEW u \in Paths, NEW m \in Names, IsPrefixOf(from, u), Entry(s, u) # Absent
      PROVE  Child(t, Entry(s, u), m) = Child(s, Entry(s, u), m)
  <2>1. u # over BY <1>3
  <2>2. u # Front(from) BY <1>2, <1>3 DEF IsPrefixOf
  <2>3. Entry(s, u) # d /\ Entry(s, u) # f BY <1>2, <1>3, <2>1, <2>2 DEF Tree, Unique
  <2>4. Entry(s, u) \in Ids BY <1>3, EntryLives
  <2> QED BY <2>3, <2>4 DEF Relinks
<1>4. ASSUME NEW q \in Seq(Names)
      PROVE  /\ Walk(t, Entry(s, from), q) = IF from \o q \in Paths THEN Entry(s, from \o q) ELSE Absent
             /\ Walk(s, Entry(s, from), q) = IF from \o q \in Paths THEN Entry(s, from \o q) ELSE Absent
  <2>1. Walk(t, Entry(s, from), q) = IF from \o q \in Paths THEN Entry(s, from \o q) ELSE Absent
    BY <1>1, <1>3, WalkFrom
  <2>2. Walk(s, Entry(s, from), q) = IF from \o q \in Paths THEN Entry(s, from \o q) ELSE Absent
    BY <1>1, WalkFrom
  <2> QED BY <2>1, <2>2
<1> QED BY <1>4 DEF WalksAs

\* The rows a move sets: the record and the link of the entry, the index at to and below.
LEMMA MovedRows ==
  ASSUME NEW e \in Ids, NEW d \in Ids, NEW n \in Names, NEW pop, NEW put,
         \A k \in DOMAIN pop : \E x \in Paths : k = <<"path", x>>,
         put = Over(Over(NextRecord(e, d, n), Row(<<"child", d, n>>, e)), pop)
  PROVE  /\ DOMAIN put \subseteq Keys
         /\ \A x : <<"type", x>> \notin DOMAIN put
         /\ \A x, f : f \in {"parent", "name"} => (<<f, x>> \in DOMAIN put <=> x = e)
         /\ \A x, m : <<"child", x, m>> \in DOMAIN put <=> x = d /\ m = n
         /\ \A x : <<"path", x>> \in DOMAIN put <=> <<"path", x>> \in DOMAIN pop
         /\ put[<<"parent", e>>] = d /\ put[<<"name", e>>] = n /\ put[<<"child", d, n>>] = e
         /\ \A x : <<"path", x>> \in DOMAIN pop => put[<<"path", x>>] = pop[<<"path", x>>]
<1>1. PICK kp, kn, kc : kp = <<"parent", e>> /\ kn = <<"name", e>> /\ kc = <<"child", d, n>> OBVIOUS
<1>2. kp # kn /\ kc # kp /\ kc # kn BY <1>1, KeysDiffer
<1>3. PICK next : next = Over(Row(kp, d), Row(kn, n)) OBVIOUS
<1>4. PICK link : link = Row(kc, e) OBVIOUS
<1>5. PICK rec : rec = Over(next, link) OBVIOUS
<1>6. put = Over(rec, pop) BY <1>1, <1>3, <1>4, <1>5 DEF NextRecord
<1>7. DOMAIN next = {kp, kn} /\ next[kp] = d /\ next[kn] = n BY <1>2, <1>3 DEF Over, Row
<1>8. DOMAIN link = {kc} /\ link[kc] = e BY <1>4 DEF Row
<1>9. DOMAIN rec = {kp, kn, kc} /\ rec[kp] = d /\ rec[kn] = n /\ rec[kc] = e
  <2>1. DOMAIN rec = DOMAIN next \cup DOMAIN link BY <1>5 DEF Over
  <2>2. \A k \in DOMAIN next : rec[k] = next[k] BY <1>5 DEF Over
  <2>3. \A k \in DOMAIN link : k \notin DOMAIN next => rec[k] = link[k] BY <1>5 DEF Over
  <2> QED BY <1>2, <1>7, <1>8, <2>1, <2>2, <2>3
<1>10. DOMAIN put = DOMAIN rec \cup DOMAIN pop BY <1>6 DEF Over
<1>11. \A k \in DOMAIN rec : put[k] = rec[k] BY <1>6 DEF Over
<1>12. \A k \in DOMAIN pop : k \notin DOMAIN rec => put[k] = pop[k] BY <1>6 DEF Over
<1>13. \A k \in DOMAIN pop : \E x \in Paths : k = <<"path", x>> OBVIOUS
<1>14. DOMAIN put \subseteq Keys
  <2>1. kp \in Keys /\ kn \in Keys /\ kc \in Keys BY <1>1, KeysAre
  <2>2. \A k \in DOMAIN pop : k \in Keys BY <1>13, KeysAre
  <2> QED BY <1>9, <1>10, <2>1, <2>2
<1>15. \A x, f : f \in {"type", "parent", "name"} => <<f, x>> \notin DOMAIN pop BY <1>13, KeysDiffer
<1>16. \A x, m : <<"child", x, m>> \notin DOMAIN pop BY <1>13, KeysDiffer
<1>17. \A x : <<"path", x>> \notin DOMAIN rec BY <1>1, <1>9, KeysDiffer
<1>18. \A x : <<"type", x>> \notin DOMAIN put
  <2>1. \A x : <<"type", x>> \notin {kp, kn, kc} BY <1>1, KeysDiffer
  <2> QED BY <1>9, <1>10, <1>15, <2>1
<1>19. \A x, f : f \in {"parent", "name"} => (<<f, x>> \in DOMAIN put <=> x = e)
  <2>1. \A x, f : f \in {"parent", "name"} => (<<f, x>> \in {kp, kn, kc} <=> x = e) BY <1>1, KeysDiffer
  <2> QED BY <1>9, <1>10, <1>15, <2>1
<1>20. \A x, m : <<"child", x, m>> \in DOMAIN put <=> x = d /\ m = n
  <2>1. \A x, m : <<"child", x, m>> \in {kp, kn, kc} <=> x = d /\ m = n BY <1>1, KeysDiffer
  <2> QED BY <1>9, <1>10, <1>16, <2>1
<1>21. put[kp] = d /\ put[kn] = n /\ put[kc] = e BY <1>9, <1>11
<1> QED BY <1>1, <1>10, <1>12, <1>14, <1>17, <1>18, <1>19, <1>20, <1>21

LEMMA MovedGone ==
  ASSUME NEW s, Typed(s), Tree(s), NEW p \in Paths, p # <<>>, NEW e \in Ids, Entry(s, p) = e,
         NEW f, NEW l, f = Entry(s, Front(p)), l = Last(p), NEW gone,
         gone = OldLink(s, e) \cup removePathIndexForEntry(s, e, p)
  PROVE  /\ \A x, g : g \in {"type", "parent", "name"} => <<g, x>> \notin gone
         /\ \A x, m : <<"child", x, m>> \in gone <=> x = f /\ m = l
         /\ \A q \in Paths : <<"path", q>> \in gone <=> IsPrefixOf(p, q)
<1>1. PICK rows : rows = removePathIndexForEntry(s, e, p) OBVIOUS
<1>2. gone = {<<"child", f, l>>} \cup rows BY <1>1, OldLinkIs
<1>3. /\ \A q \in Paths : <<"path", q>> \in rows <=> IsPrefixOf(p, q)
      /\ \A k \in rows : \E q \in Paths : k = <<"path", q>>
  BY <1>1, PathRows
<1>4. ASSUME NEW x, NEW g, g \in {"type", "parent", "name"} PROVE <<g, x>> \notin gone
  <2>1. <<g, x>> \notin rows BY <1>3, <1>4, KeysDiffer
  <2>2. <<g, x>> # <<"child", f, l>> BY KeysDiffer
  <2> QED BY <1>2, <2>1, <2>2
<1>5. ASSUME NEW x, NEW m PROVE <<"child", x, m>> \in gone <=> x = f /\ m = l
  <2>1. <<"child", x, m>> \notin rows BY <1>3, KeysDiffer
  <2>2. <<"child", x, m>> = <<"child", f, l>> <=> x = f /\ m = l BY KeysDiffer
  <2> QED BY <1>2, <2>1, <2>2
<1>6. ASSUME NEW q \in Paths PROVE <<"path", q>> \in gone <=> IsPrefixOf(p, q)
  <2>1. <<"path", q>> # <<"child", f, l>> BY KeysDiffer
  <2> QED BY <1>2, <1>3, <2>1
<1> QED BY <1>4, <1>5, <1>6

\* The index that a move fills in: at to and below, what was at from and below.
Fits(s, e, to) == \A q \in Below(s, e) : Len(to) + Len(q) <= MaxDepth
Fills(pop, B, s, from, to) ==
  /\ \A k : k \in DOMAIN pop <=> \E q \in B : k = <<"path", to \o q>>
  /\ B \subseteq Seq(Names) /\ \A q \in B : to \o q \in Paths
  /\ \A q \in Seq(Names) : from \o q \in Paths /\ Entry(s, from \o q) # Absent => q \in B
  /\ \A q \in B : /\ from \o q \in Paths /\ Entry(s, from \o q) # Absent
                  /\ pop[<<"path", to \o q>>] = Entry(s, from \o q)
LEMMA Populated ==
  ASSUME NEW s, Typed(s), Tree(s), NEW from \in Paths, NEW e \in Ids, Entry(s, from) = e, NEW to \in Paths, NEW t,
         WalksAs(t, e, s, from), WalksAs(s, e, s, from),
         Fits(s, e, to),
         NEW pop, pop = populatePathIndexForEntry(t, e, to), NEW B, B = Below(t, e)
  PROVE  Fills(pop, B, s, from, to)
<1>1. from \in Seq(Names) /\ to \in Seq(Names) /\ Len(from) \in Nat /\ Len(to) \in Nat BY PathsAre
<1>2. \A q \in B : q \in Paths /\ q \in Seq(Names) /\ from \o q \in Paths /\ Entry(s, from \o q) # Absent
  BY PathsAre DEF Below, WalksAs
<1>3. \A q \in B : to \o q \in Paths
  <2> TAKE q \in B
  <2>1. q \in Paths /\ q \in Seq(Names) /\ Walk(s, e, q) # Absent BY <1>2 DEF WalksAs
  <2>2. Len(to) + Len(q) <= MaxDepth BY <2>1 DEF Fits, Below
  <2>3. to \o q \in Seq(Names) /\ Len(to \o q) = Len(to) + Len(q) BY <1>1, <2>1, Joins
  <2> QED BY <2>2, <2>3, PathsAre
<1>4. ASSUME NEW q \in Seq(Names), from \o q \in Paths, Entry(s, from \o q) # Absent PROVE q \in B
  <2>1. Len(from \o q) = Len(from) + Len(q) /\ Len(from \o q) <= MaxDepth /\ Len(q) \in Nat
    <3>1. Len(from \o q) = Len(from) + Len(q) BY <1>1, <1>4, Joins
    <3>2. Len(from \o q) <= MaxDepth BY <1>4, PathsAre
    <3>3. Len(q) \in Nat BY <1>4
    <3> QED BY <3>1, <3>2, <3>3
  <2>2. Len(q) <= MaxDepth BY <1>1, <2>1, CatalogAssumption
  <2>3. q \in Paths BY <2>2, PathsAre
  <2> QED BY <1>4, <2>3 DEF Below, WalksAs
<1>5. PICK K : K = {<<"path", to \o q>> : q \in B} OBVIOUS
<1>6. pop = [k \in K |-> Walk(t, e, SubSeq(k[2], Len(to) + 1, Len(k[2])))] BY <1>5 DEF populatePathIndexForEntry
<1>7. \A q \in B : pop[<<"path", to \o q>>] = Entry(s, from \o q)
  <2> TAKE q \in B
  <2>1. PICK x : x = to \o q OBVIOUS
  <2>2. PICK k : k = <<"path", x>> OBVIOUS
  <2>3. k \in K /\ k[2] = x BY <1>5, <2>1, <2>2
  <2>4. pop[k] = Walk(t, e, SubSeq(x, Len(to) + 1, Len(x))) BY <1>6, <2>3
  <2>5. SubSeq(x, Len(to) + 1, Len(x)) = q
    <3>1. x \in Seq(Names) /\ IsPrefixOf(to, x) BY <1>1, <1>2, <2>1, Joins
    <3>2. PICK u \in Seq(Names) : x = to \o u /\ u = SubSeq(x, Len(to) + 1, Len(x)) BY <1>1, <3>1, BelowIsJoin
    <3>3. u = q BY <1>1, <1>2, <2>1, <3>2, JoinUnique
    <3> QED BY <3>2, <3>3
  <2>6. Walk(t, e, q) = Entry(s, from \o q) BY <1>2 DEF WalksAs
  <2> QED BY <2>1, <2>2, <2>4, <2>5, <2>6
<1>8. \A k : k \in DOMAIN pop <=> \E q \in B : k = <<"path", to \o q>> BY <1>5, <1>6
<1> QED BY <1>2, <1>3, <1>4, <1>7, <1>8 DEF Fills

LEMMA RenameKeeps ==
  ASSUME IInv, ~tangled, NEW r \in Replicas, NEW from \in Paths, NEW to \in Paths, Rename(r, from, to)
  PROVE  IInv'
<1>1. PICK s : s = doc[r] OBVIOUS
<1>2. Good(s) /\ Shape /\ Typed(s) /\ Tree(s) BY <1>1 DEF IInv, Good
<1>3. from # <<>> /\ to # <<>> /\ from # to BY DEF Rename
<1>4. /\ Front(from) \in Paths /\ Last(from) \in Names /\ Append(Front(from), Last(from)) = from
      /\ Front(to) \in Paths /\ Last(to) \in Names /\ Append(Front(to), Last(to)) = to
  BY <1>3, Fronts
<1>5. /\ resolvePath(s, from) = Entry(s, from) /\ resolvePath(s, to) = Entry(s, to)
      /\ resolvePath(s, Front(to)) = Entry(s, Front(to))
  BY <1>2, <1>4, IndexIsWalk
<1>6. PICK e, d, f, n, l : /\ e = Entry(s, from) /\ d = Entry(s, Front(to)) /\ f = Entry(s, Front(from))
                           /\ n = Last(to) /\ l = Last(from)
  OBVIOUS
<1>7. e = resolvePath(doc[r], from) /\ d = resolvePath(doc[r], Front(to)) BY <1>1, <1>5, <1>6
<1>8. e # Absent /\ Entry(s, to) = Absent /\ d # Absent /\ Type(s, d) = "directory" /\ assertNoDescendantMove(s, e, d)
  BY <1>1, <1>5, <1>7 DEF Rename, Found, FoundDirectory
<1>9. e \in Ids /\ d \in Ids /\ f \in Ids /\ n \in Names /\ l \in Names
  <2>1. e \in Ids /\ d \in Ids BY <1>2, <1>4, <1>6, <1>8, EntryLives
  <2>2. f # Absent BY <1>2, <1>3, <1>6, <1>8 DEF Tree, Filed
  <2> QED BY <1>2, <1>4, <1>6, <2>1, <2>2, EntryLives
<1>10. /\ ~IsPrefixOf(from, Front(to)) /\ ~IsPrefixOf(from, to)
       /\ \A x \in Paths : ~(IsPrefixOf(from, x) /\ IsPrefixOf(to, x))
  BY <1>2, <1>3, <1>6, <1>8, <1>9, MovedApart
<1>11. PICK link : link = Row(<<"child", d, n>>, e) OBVIOUS
<1>12. PICK old : old = [k \in Keys |-> IF k \in OldLink(s, e) THEN Absent ELSE s[k]] OBVIOUS
<1>13. PICK relinked : relinked = Over(link, old) OBVIOUS
<1>14. PICK pop, put, gone : /\ pop = populatePathIndexForEntry(relinked, e, to)
                             /\ put = Over(Over(NextRecord(e, d, n), link), pop)
                             /\ gone = OldLink(s, e) \cup removePathIndexForEntry(s, e, from)
  OBVIOUS
<1>15. Commit(r, put, gone, {from, to}) /\ made' = made /\ \A q \in Below(s, e) : Len(to) + Len(q) <= MaxDepth
  BY <1>1, <1>6, <1>7, <1>11, <1>12, <1>13, <1>14 DEF Rename
<1>16. ASSUME NEW x \in Ids, NEW m \in Names
       PROVE  Child(relinked, x, m) = IF x = d /\ m = n THEN e ELSE IF x = f /\ m = l THEN Absent ELSE Child(s, x, m)
  <2>1. OldLink(s, e) = {<<"child", f, l>>} BY <1>2, <1>3, <1>6, <1>9, OldLinkIs
  <2>2. PICK k, kd, kf : k = <<"child", x, m>> /\ kd = <<"child", d, n>> /\ kf = <<"child", f, l>> OBVIOUS
  <2>3. k \in Keys BY <2>2, KeysAre
  <2>4. DOMAIN link = {kd} /\ link[kd] = e BY <1>11, <2>2 DEF Row
  <2>5. DOMAIN old = Keys /\ old[k] = IF k = kf THEN Absent ELSE s[k] BY <1>12, <2>1, <2>2, <2>3
  <2>6. relinked[k] = IF k \in DOMAIN link THEN link[k] ELSE old[k] BY <1>13, <2>3, <2>5 DEF Over
  <2>7. (k = kd <=> x = d /\ m = n) /\ (k = kf <=> x = f /\ m = l) BY <2>2, KeysDiffer
  <2>8. relinked[k] = Child(relinked, x, m) /\ s[k] = Child(s, x, m) BY <2>2 DEF Child
  <2> QED BY <2>4, <2>5, <2>6, <2>7, <2>8
<1>17. WalksAs(relinked, e, s, from) /\ WalksAs(s, e, s, from)
  <2>1. PICK over : over = Front(to) OBVIOUS
  <2>2. over \in Paths /\ Entry(s, over) = d /\ ~IsPrefixOf(from, over) BY <1>4, <1>6, <1>10, <2>1
  <2>3. Relinks(relinked, s, e, d, n, f, l) BY <1>16 DEF Relinks
  <2>4. Entry(s, from) = e /\ Entry(s, Front(from)) = f /\ from # <<>> BY <1>3, <1>6
  <2>5. Typed(s) /\ Tree(s) BY <1>2
  <2> QED BY <1>9, <2>2, <2>3, <2>4, <2>5, WalkMoved
<1>18. PICK B : B = Below(relinked, e) OBVIOUS
<1>19. /\ \A k : k \in DOMAIN pop <=> \E q \in B : k = <<"path", to \o q>>
       /\ B \subseteq Seq(Names) /\ \A q \in B : to \o q \in Paths
       /\ \A q \in Seq(Names) : from \o q \in Paths /\ Entry(s, from \o q) # Absent => q \in B
       /\ \A q \in B : /\ from \o q \in Paths /\ Entry(s, from \o q) # Absent
                       /\ pop[<<"path", to \o q>>] = Entry(s, from \o q)
  <2>1. pop = populatePathIndexForEntry(relinked, e, to) BY <1>14
  <2>2. Fits(s, e, to) BY <1>15 DEF Fits
  <2>3. Typed(s) /\ Tree(s) /\ Entry(s, from) = e /\ e \in Ids BY <1>2, <1>6, <1>9
  <2>4. Fills(pop, B, s, from, to) BY <1>17, <1>18, <2>1, <2>2, <2>3, Populated
  <2> QED BY <2>4 DEF Fills
<1>20. /\ DOMAIN put \subseteq Keys
       /\ \A x : <<"type", x>> \notin DOMAIN put
       /\ \A x, g : g \in {"parent", "name"} => (<<g, x>> \in DOMAIN put <=> x = e)
       /\ \A x, m : <<"child", x, m>> \in DOMAIN put <=> x = d /\ m = n
       /\ \A x : <<"path", x>> \in DOMAIN put <=> <<"path", x>> \in DOMAIN pop
       /\ put[<<"parent", e>>] = d /\ put[<<"name", e>>] = n /\ put[<<"child", d, n>>] = e
       /\ \A x : <<"path", x>> \in DOMAIN pop => put[<<"path", x>>] = pop[<<"path", x>>]
  <2>1. \A k \in DOMAIN pop : \E x \in Paths : k = <<"path", x>> BY <1>19
  <2>2. put = Over(Over(NextRecord(e, d, n), Row(<<"child", d, n>>, e)), pop) BY <1>11, <1>14
  <2> QED BY <1>9, <2>1, <2>2, MovedRows
<1>21. /\ \A x, g : g \in {"type", "parent", "name"} => <<g, x>> \notin gone
       /\ \A x, m : <<"child", x, m>> \in gone <=> x = f /\ m = l
       /\ \A q \in Paths : <<"path", q>> \in gone <=> IsPrefixOf(from, q)
  BY <1>2, <1>3, <1>6, <1>9, <1>14, MovedGone
<1>22. \A x : <<"path", x>> \in DOMAIN pop <=> \E q \in B : x = to \o q
  <2> TAKE x
  <2>1. \A q : <<"path", x>> = <<"path", to \o q>> <=> x = to \o q BY KeysDiffer
  <2> QED BY <1>19, <2>1
<1>23. from \in Seq(Names) /\ to \in Seq(Names) BY PathsAre
<1>24. About(s, put, gone, {from, to})
  <2>1. {from, to} \subseteq Paths \ {<<>>} BY <1>3
  <2>2. ASSUME NEW x \in Paths, <<"path", x>> \in DOMAIN put \cup gone PROVE \E t \in {from, to} : IsPrefixOf(t, x)
    <3>1. CASE <<"path", x>> \in DOMAIN put
      <4>1. PICK q \in B : x = to \o q BY <1>20, <1>22, <3>1
      <4>2. IsPrefixOf(to, x) BY <1>19, <1>23, <4>1, Joins
      <4> QED BY <4>2
    <3>2. CASE <<"path", x>> \in gone BY <1>21, <3>2
    <3> QED BY <2>2, <3>1, <3>2
  <2>3. ASSUME NEW x \in Ids, NEW g \in {"type", "parent", "name"}, <<g, x>> \in DOMAIN put \cup gone
        PROVE  \E p \in Paths : p \in {from, to} /\ Entry(s, p) = x
    <3>1. <<g, x>> \in DOMAIN put BY <1>21, <2>3
    <3>2. x = e BY <1>20, <3>1
    <3> QED BY <1>6, <3>2
  <2>4. ASSUME NEW x \in Ids, NEW m \in Names, <<"child", x, m>> \in DOMAIN put \cup gone
        PROVE  \E p \in Paths : Entry(s, p) = x /\ Append(p, m) \in {from, to}
    <3>1. (x = d /\ m = n) \/ (x = f /\ m = l) BY <1>20, <1>21, <2>4
    <3> QED BY <1>4, <1>6, <3>1
  <2>5. \A x \in Ids : <<"type", x>> \notin DOMAIN put BY <1>20
  <2>6. DOMAIN put \subseteq Keys BY <1>20
  <2> QED BY <2>1, <2>2, <2>3, <2>4, <2>5, <2>6 DEF About
<1>25. PICK t : t = doc'[r] OBVIOUS
<1>26. DOMAIN t = Keys /\ \A k \in Keys : t[k] = IF k \in DOMAIN put THEN put[k] ELSE IF k \in gone THEN Absent ELSE s[k]
  <2>1. DOMAIN put \subseteq Keys BY <1>20
  <2>2. Typed(doc[r]) BY <1>1, <1>2
  <2>3. /\ DOMAIN doc'[r] = Keys
        /\ \A k \in Keys : doc'[r][k] = IF k \in DOMAIN put THEN put[k] ELSE IF k \in gone THEN Absent ELSE doc[r][k]
    BY <1>2, <1>15, <2>1, <2>2, CommitIs
  <2> QED BY <1>1, <1>25, <2>3
<1>27. ASSUME NEW x \in Ids
       PROVE  /\ Type(t, x) = Type(s, x)
              /\ Parent(t, x) = IF x = e THEN d ELSE Parent(s, x)
              /\ NameOf(t, x) = IF x = e THEN n ELSE NameOf(s, x)
  <2>1. Type(t, x) = Type(s, x) BY <1>20, <1>21, <1>26, KeysAre DEF Type
  <2>2. Parent(t, x) = IF x = e THEN d ELSE Parent(s, x) BY <1>20, <1>21, <1>26, KeysAre DEF Parent
  <2>3. NameOf(t, x) = IF x = e THEN n ELSE NameOf(s, x) BY <1>20, <1>21, <1>26, KeysAre DEF NameOf
  <2> QED BY <2>1, <2>2, <2>3
<1>28. ASSUME NEW x \in Ids, NEW m \in Names
       PROVE  Child(t, x, m) = IF x = d /\ m = n THEN e ELSE IF x = f /\ m = l THEN Absent ELSE Child(s, x, m)
  BY <1>20, <1>21, <1>26, KeysAre DEF Child
<1>29. ASSUME NEW x \in Paths
       PROVE  Entry(t, x) = IF \E q \in B : x = to \o q THEN pop[<<"path", x>>]
                            ELSE IF IsPrefixOf(from, x) THEN Absent ELSE Entry(s, x)
  BY <1>20, <1>21, <1>22, <1>26, KeysAre DEF Entry
<1>30. \A x \in Paths : (\E q \in B : x = to \o q) => IsPrefixOf(to, x) /\ ~IsPrefixOf(from, x)
  BY <1>10, <1>19, <1>23, Joins
<1>31. ASSUME NEW q \in Seq(Names), to \o q \in Paths
       PROVE  Entry(t, to \o q) = IF from \o q \in Paths THEN Entry(s, from \o q) ELSE Absent
  <2>1. CASE q \in B BY <1>19, <1>29, <1>31, <2>1
  <2>2. CASE q \notin B
    <3>1. PICK x : x = to \o q OBVIOUS
    <3>2. ~\E u \in B : x = to \o u BY <1>19, <1>23, <2>2, <3>1, JoinUnique
    <3>3. IsPrefixOf(to, x) BY <1>23, <3>1, Joins
    <3>4. Entry(s, x) = Absent BY <1>2, <1>8, <1>31, <3>1, <3>3, PrefixLives
    <3>5. Entry(t, x) = Absent BY <1>29, <1>31, <3>1, <3>2, <3>4
    <3>6. from \o q \in Paths => Entry(s, from \o q) = Absent BY <1>19, <2>2
    <3> QED BY <3>1, <3>5, <3>6
  <2> QED BY <2>1, <2>2
<1>32. ASSUME NEW x \in Paths
       PROVE  /\ IsPrefixOf(from, x) => Entry(t, x) = Absent
              /\ ~IsPrefixOf(from, x) /\ ~IsPrefixOf(to, x) => Entry(t, x) = Entry(s, x)
  BY <1>29, <1>30
<1>33. \A q \in Seq(Names) : from \o q \in Paths /\ Entry(s, from \o q) # Absent => to \o q \in Paths BY <1>19
<1>34. Typed(t) /\ Tree(t)
  BY <1>2, <1>3, <1>6, <1>8, <1>9, <1>10, <1>26, <1>27, <1>28, <1>31, <1>32, <1>33, RenameTree
<1>35. ASSUME NEW x \in Live(t) PROVE x <= made'
  <2>1. x \in Live(s) BY <1>27 DEF Live
  <2> QED BY <1>1, <1>2, <1>15, <2>1 DEF Good, Counted
<1>36. made' \in made..MaxEntries BY <1>2, <1>15, CatalogAssumption DEF Shape
<1> QED BY <1>1, <1>15, <1>24, <1>25, <1>34, <1>35, <1>36, CommitKeeps

-----------------------------------------------------------------------------
(* Every behavior.                                                         *)

LEMMA EmptyIs ==
  /\ DOMAIN Empty = Keys
  /\ \A e \in Ids : Type(Empty, e) = IF e = Root THEN "directory" ELSE Absent
  /\ \A d \in Ids, n \in Names : Child(Empty, d, n) = Absent
  /\ \A p \in Paths : Entry(Empty, p) = IF p = <<>> THEN Root ELSE Absent
<1>1. DOMAIN Empty = Keys BY DEF Empty
<1>2. PICK kt, kp : kt = <<"type", Root>> /\ kp = <<"path", <<>>>> OBVIOUS
<1>3. kt # kp BY <1>2, KeysDiffer
<1>4. \A k \in Keys : Empty[k] = CASE k = kt -> "directory" [] k = kp -> Root [] OTHER -> Absent
  BY <1>2 DEF Empty
<1>5. \A k \in Keys : /\ k = kt => Empty[k] = "directory"
                      /\ k = kp => Empty[k] = Root
                      /\ k # kt /\ k # kp => Empty[k] = Absent
  BY <1>3, <1>4
<1>6. ASSUME NEW e \in Ids PROVE Type(Empty, e) = IF e = Root THEN "directory" ELSE Absent
  <2>1. PICK k : k = <<"type", e>> OBVIOUS
  <2>2. k \in Keys /\ (k = kt <=> e = Root) /\ k # kp BY <1>2, <2>1, KeysAre, KeysDiffer
  <2>3. Empty[k] = Type(Empty, e) BY <2>1 DEF Type
  <2> QED BY <1>5, <2>2, <2>3
<1>7. ASSUME NEW d \in Ids, NEW n \in Names PROVE Child(Empty, d, n) = Absent
  <2>1. PICK k : k = <<"child", d, n>> OBVIOUS
  <2>2. k \in Keys /\ k # kt /\ k # kp BY <1>2, <2>1, KeysAre, KeysDiffer
  <2>3. Empty[k] = Child(Empty, d, n) BY <2>1 DEF Child
  <2> QED BY <1>5, <2>2, <2>3
<1>8. ASSUME NEW p \in Paths PROVE Entry(Empty, p) = IF p = <<>> THEN Root ELSE Absent
  <2>1. PICK k : k = <<"path", p>> OBVIOUS
  <2>2. k \in Keys /\ (k = kp <=> p = <<>>) /\ k # kt BY <1>2, <2>1, KeysAre, KeysDiffer
  <2>3. Empty[k] = Entry(Empty, p) BY <2>1 DEF Entry
  <2> QED BY <1>5, <2>2, <2>3
<1> QED BY <1>1, <1>6, <1>7, <1>8

LEMMA EmptyIsGood ==
  /\ Typed(Empty) /\ Tree(Empty)
  /\ \A e \in Live(Empty) : e = Root
<1>1. <<>> \in Paths /\ Root # Absent /\ Root \in Ids /\ Absent # "directory" BY EmptyPath, CatalogAssumption
<1>2. Typed(Empty) BY <1>1, EmptyIs DEF Typed
<1>3. Entry(Empty, <<>>) = Root /\ Type(Empty, Root) = "directory" BY <1>1, EmptyIs
<1>4. Unique(Empty) BY EmptyIs DEF Unique
<1>5. \A e \in Live(Empty) : e = Root
  <2> TAKE e \in Live(Empty)
  <2>1. e \in Ids /\ Type(Empty, e) # Absent BY DEF Live
  <2> QED BY <2>1, EmptyIs
<1>6. Tree(Empty) BY <1>1, <1>3, <1>4, <1>5, EmptyIs DEF Tree
<1> QED BY <1>2, <1>5, <1>6

\* The catalog starts with the invariant, and every step keeps it.
LEMMA StartsGood ==
  ASSUME Init
  PROVE  IInv
<1>1. PICK s : s = Empty OBVIOUS
<1>2. Typed(s) /\ Tree(s) /\ \A e \in Live(s) : e = Root BY <1>1, EmptyIsGood
<1>3. /\ doc = [r \in Replicas |-> s] /\ base = s /\ wrote = [r \in Replicas |-> {}] /\ made = 0
      /\ touched = [r \in Replicas |-> {}]
  BY <1>1 DEF Init
<1>4. Good(s) BY <1>2, <1>3 DEF Good, Counted, Root
<1>5. Shape BY <1>3, CatalogAssumption DEF Shape
<1>6. NewOnce BY <1>3 DEF NewOnce, New
<1>7. ASSUME NEW r \in Replicas PROVE Good(doc[r]) /\ TrackInv(r)
  <2>1. doc[r] = s /\ wrote[r] = {} /\ touched[r] = {} BY <1>3
  <2>2. \A k : Alone(r, k) BY <1>3, <2>1 DEF Alone
  <2>3. \A e : ~New(r, e) BY <2>1 DEF New
  <2>4. TrackInv(r) BY <1>3, <2>1, <2>2, <2>3 DEF TrackInv
  <2> QED BY <1>4, <2>1, <2>4
<1> QED BY <1>3, <1>4, <1>5, <1>6, <1>7 DEF IInv

LEMMA StepKeeps ==
  ASSUME IInv, [Next]_vars
  PROVE  IInv'
<1>1. CASE tangled
  <2> SUFFICES tangled' BY DEF IInv
  <2>1. ASSUME NEW r, NEW put, NEW gone, NEW paths, Commit(r, put, gone, paths) PROVE tangled'
    <3>1. tangled' = tangled BY <2>1 DEF Commit
    <3> QED BY <1>1, <3>1
  <2>2. ASSUME NEW r, NEW p, NEW type, Create(r, p, type) PROVE tangled'
    <3>1. \E put, gone, paths : Commit(r, put, gone, paths) BY <2>2, Zenon DEF Create
    <3> QED BY <2>1, <3>1
  <2>3. ASSUME NEW r, NEW from, NEW to, Rename(r, from, to) PROVE tangled'
    <3>1. \E put, gone, paths : Commit(r, put, gone, paths) BY <2>3, Zenon DEF Rename
    <3> QED BY <2>1, <3>1
  <2>4. ASSUME NEW r, NEW p, Delete(r, p) PROVE tangled'
    <3>1. \E put, gone, paths : Commit(r, put, gone, paths) BY <2>4, Zenon DEF Delete
    <3> QED BY <2>1, <3>1
  <2>5. CASE Exchange
    <3>1. PICK E : tangled' = (tangled \/ E) BY <2>5, Zenon DEF Exchange
    <3> QED BY <1>1, <3>1
  <2>6. CASE UNCHANGED vars
    <3>1. tangled' = tangled BY <2>6 DEF vars
    <3> QED BY <1>1, <3>1
  <2>7. CASE Next BY <2>2, <2>3, <2>4, <2>5, <2>7 DEF Next
  <2> QED BY <2>6, <2>7
<1>2. CASE ~tangled
  <2>1. ASSUME NEW r \in Replicas, NEW p \in Paths, NEW type \in {"file", "directory"}, Create(r, p, type) PROVE IInv'
    BY <1>2, <2>1, CreateKeeps
  <2>2. ASSUME NEW r \in Replicas, NEW from \in Paths, NEW to \in Paths, Rename(r, from, to) PROVE IInv'
    BY <1>2, <2>2, RenameKeeps
  <2>3. ASSUME NEW r \in Replicas, NEW p \in Paths, Delete(r, p) PROVE IInv' BY <1>2, <2>3, DeleteKeeps
  <2>4. CASE Exchange BY <2>4, ExchangeKeeps
  <2>5. CASE UNCHANGED vars
    BY <2>5 DEF vars, IInv, Shape, Good, Counted, NewOnce, New, TrackInv, Alone, Near
  <2> QED BY <2>1, <2>2, <2>3, <2>4, <2>5 DEF Next
<1> QED BY <1>1, <1>2

LEMMA InvariantShowsTrees ==
  ASSUME IInv
  PROVE  OneTree
BY TreesAgree DEF IInv, Good, OneTree

\* Whatever replicas do between two exchanges (CatalogStore: mkdir, createFile, rename,
\* unlink), if none works at, above or below a place of another, then after every operation
\* and every merge by Yjs the index of paths, the child links and the parents of the entries
\* of each document describe the same tree, and exists, stat, list and tree tell it: for any
\* two client ids, names, depth, entries and number of operations.
THEOREM OneTreeHolds == Spec => []OneTree
<1>1. Init => IInv BY StartsGood
<1>2. IInv /\ [Next]_vars => IInv' BY StepKeeps
<1>3. IInv => OneTree BY InvariantShowsTrees
<1> QED BY <1>1, <1>2, <1>3, PTL DEF Spec
=============================================================================
