------------------------------- MODULE Catalog -------------------------------
(***************************************************************************)
(* The namespace of yjs-fs: the catalog of a Y.Doc that several replicas   *)
(* change on their own and merge.  Entries know their parent and name;     *)
(* children links and the index of absolute paths repeat what they say, so *)
(* that paths resolve quickly.  Each of these is a set of keys of Yjs maps,*)
(* and Yjs merges key by key, knowing nothing of the tree.                 *)
(***************************************************************************)
EXTENDS Naturals, Sequences, SequencesExt

CONSTANTS
  Replicas,   \* two client ids; the larger one wins concurrent writes of a key
  Names,
  Absent,     \* what a map gives for a key it does not have
  MaxDepth,   \* bound: names of a path
  MaxEntries, \* bound: entries ever created
  MaxOps      \* bound: operations

ASSUME CatalogAssumption ==
  /\ Replicas \subseteq Nat /\ \E low, high \in Replicas : low < high /\ Replicas = {low, high}
  /\ Absent \notin Nat /\ Absent \notin Names /\ Absent \notin {"file", "directory", "text"}
  /\ MaxDepth \in Nat \ {0} /\ MaxEntries \in Nat /\ MaxOps \in Nat

Root == 0
Ids == 0..MaxEntries
Paths == UNION {[1..n -> Names] : n \in 0..MaxDepth}
Keys ==
  ({"type", "parent", "name", "content"} \X Ids)
    \cup {<<"child", d, n>> : d \in Ids, n \in Names}
    \cup ({"path"} \X Paths)

VARIABLES
  doc,     \* of each replica: the value of each key
  base,    \* the document after the last exchange
  wrote,   \* of each replica: the keys set since then
  made,    \* entries created (crypto.randomUUID)
  ops,
  touched, \* history: the paths each replica's operations were about since then
  tangled  \* history: replicas have worked in the same place between two exchanges

vars == <<doc, base, wrote, made, ops, touched, tangled>>

Type(s, e) == s[<<"type", e>>]
Child(s, d, n) == s[<<"child", d, n>>]
Live(s) == {e \in Ids : Type(s, e) # Absent}
IsPrefixOf(p, q) == Len(p) <= Len(q) /\ \A i \in DOMAIN p : p[i] = q[i]

Row(k, v) == [x \in {k} |-> v]
\* The rows of f, and those of g that f does not set.
Over(f, g) == [k \in DOMAIN f \cup DOMAIN g |-> IF k \in DOMAIN f THEN f[k] ELSE g[k]]

Empty == [k \in Keys |-> CASE k = <<"type", Root>> -> "directory"
                           [] k = <<"path", <<>>>> -> Root
                           [] OTHER -> Absent]

\* createCatalogState on every replica, exchanged.
Init ==
  /\ doc = [r \in Replicas |-> Empty] /\ base = Empty
  /\ wrote = [r \in Replicas |-> {}]
  /\ made = 0 /\ ops = 0
  /\ touched = [r \in Replicas |-> {}] /\ tangled = FALSE

-----------------------------------------------------------------------------
(* Reading.                                                                *)

Walk(s, e, names) ==
  LET at[k \in 0..Len(names)] ==
        IF k = 0 THEN e ELSE IF at[k - 1] = Absent THEN Absent ELSE Child(s, at[k - 1], names[k])
  IN  at[Len(names)]

resolvePath(s, p) == IF s[<<"path", p>>] # Absent THEN s[<<"path", p>>] ELSE Walk(s, Root, p)

\* lookupPath finds nothing if the entry is gone.
Found(s, p) == resolvePath(s, p) # Absent /\ Type(s, resolvePath(s, p)) # Absent
FoundDirectory(s, p) == Found(s, p) /\ Type(s, resolvePath(s, p)) = "directory"

\* The n-th entry on the way up: the loops over parent links stop at the root or a gap.
Up(s, e, n) ==
  LET up[k \in 0..n] ==
        IF k = 0 THEN e
        ELSE IF up[k - 1] = Root \/ up[k - 1] = Absent \/ Type(s, up[k - 1]) = Absent THEN up[k - 1]
        ELSE s[<<"parent", up[k - 1]>>]
  IN  up[n]

\* They return: there is no cycle above e.
Ends(s, e) == LET top == Up(s, e, MaxEntries + 1) IN top \in {Root, Absent} \/ Type(s, top) = Absent

\* The names from the root down to e, if its parents lead there.
getPathForEntryId(s, e) ==
  LET above == {n \in 0..MaxEntries : Up(s, e, n) = Root}
      depth == CHOOSE n \in above : \A k \in above : n <= k
  IN  IF Type(s, e) = Absent \/ above = {} THEN Absent
      ELSE [i \in 1..depth |-> s[<<"name", Up(s, e, depth - i)>>]]

stat(s, p) ==
  LET e == resolvePath(s, p)
  IN  [entryId |-> e, path |-> p, parentId |-> s[<<"parent", e>>], name |-> s[<<"name", e>>], type |-> Type(s, e)]

\* By child links; links to nothing are skipped.
listDirectoryEntries(s, d) ==
  {[entryId |-> Child(s, d, n), name |-> n, path |-> Append(getPathForEntryId(s, d), n), type |-> Type(s, Child(s, d, n))] :
     n \in {x \in Names : Child(s, d, x) # Absent /\ Type(s, Child(s, d, x)) # Absent}}

\* The tree by child links, as what is at each of its paths; it throws on a link to nothing.
buildTree(s) == [q \in {x \in Paths : Walk(s, Root, x) # Absent} |-> [entryId |-> Walk(s, Root, q), type |-> Type(s, Walk(s, Root, q))]]
TreeThrows(s) == \E q \in DOMAIN buildTree(s) : buildTree(s)[q].type = Absent

\* Mutant: a directory may be moved below itself.
AnyMove(s, e, d) == TRUE
assertNoDescendantMove(s, e, d) == Ends(s, d) /\ \A n \in 0..MaxEntries : Up(s, d, n) # e

-----------------------------------------------------------------------------
(* Operations of one replica, each a transaction.                          *)

\* Set the keys of put; delete those of gone that are not set again.
Commit(r, put, gone, paths) ==
  /\ ops < MaxOps /\ ops' = ops + 1
  /\ doc' = [doc EXCEPT ![r] = Over(put, [k \in Keys |-> IF k \in gone THEN Absent ELSE @[k]])]
  /\ wrote' = [wrote EXCEPT ![r] = @ \cup DOMAIN put]
  /\ touched' = [touched EXCEPT ![r] = @ \cup paths]
  /\ UNCHANGED <<base, tangled>>

\* Rename sets fields of the record there is.
NextRecord(e, d, n) == Over(Row(<<"parent", e>>, d), Row(<<"name", e>>, n))
createEntryRecord(e, d, n, type) == Over(Row(<<"type", e>>, type), NextRecord(e, d, n))

\* The link to e from its directory, by what its record says.
OldLink(s, e) == {<<"child", s[<<"parent", e>>], s[<<"name", e>>]>>}

\* mkdir, and createFile with its content record.
Create(r, p, type) ==
  LET s == doc[r]
      d == resolvePath(s, Front(p))
      e == made + 1
  IN  /\ made < MaxEntries /\ p # <<>>
      /\ resolvePath(s, p) = Absent /\ FoundDirectory(s, Front(p))
      /\ made' = e
      /\ Commit(r, Over(createEntryRecord(e, d, Last(p), type),
                     Over(Over(Row(<<"child", d, Last(p)>>, e), Row(<<"path", p>>, e)),
                          IF type = "file" THEN Row(<<"content", e>>, "text") ELSE <<>>)),
                {}, {p})

removePathIndexForEntry(s, e, p) ==
  {<<"path", q>> : q \in {x \in Paths : s[<<"path", x>>] = e \/ (IsPrefixOf(p, x) /\ x # p)}}

\* Below e, by child links.
Below(s, e) == {q \in Paths : Walk(s, e, q) # Absent}
populatePathIndexForEntry(s, e, p) ==
  [k \in {<<"path", p \o q>> : q \in Below(s, e)} |-> Walk(s, e, SubSeq(k[2], Len(p) + 1, Len(k[2])))]

Rename(r, from, to) ==
  LET s == doc[r]
      e == resolvePath(s, from)
      d == resolvePath(s, Front(to))
      link == Row(<<"child", d, Last(to)>>, e)
      relinked == Over(link, [k \in Keys |-> IF k \in OldLink(s, e) THEN Absent ELSE s[k]])
  IN  /\ from # <<>> /\ to # <<>> /\ from # to
      /\ Found(s, from) /\ e # Root
      /\ resolvePath(s, to) = Absent /\ FoundDirectory(s, Front(to))
      /\ assertNoDescendantMove(s, e, d)
      /\ \A q \in Below(s, e) : Len(to) + Len(q) <= MaxDepth
      /\ UNCHANGED made
      /\ Commit(r, Over(Over(NextRecord(e, d, Last(to)), link), populatePathIndexForEntry(relinked, e, to)),
                OldLink(s, e) \cup removePathIndexForEntry(s, e, from),
                {from, to})

\* unlink; the content of a file goes after its entry.
Delete(r, p) ==
  LET s == doc[r]
      e == resolvePath(s, p)
  IN  /\ p # <<>> /\ Found(s, p) /\ e # Root
      /\ Type(s, e) = "directory" => Ends(s, e) /\ \A n \in Names : Child(s, e, n) \notin Live(s)
      /\ UNCHANGED made
      /\ Commit(r, <<>>,
                OldLink(s, e)
                  \cup ({"type", "parent", "name", "content"} \X {e})
                  \cup removePathIndexForEntry(s, e, p),
                {p})

-----------------------------------------------------------------------------
(* The exchange of updates.                                                *)

\* Yjs, for one key of a map: of concurrent writes the one of the larger client id stays,
\* with whatever that client did to it since; a deletion only removes the value it saw.
Merged(a, b, k) ==
  LET writers == {r \in {a, b} : k \in wrote[r]}
      winner == IF b \in writers /\ (a \notin writers \/ a < b) THEN b ELSE a
  IN  IF writers # {} THEN doc[winner][k]
      ELSE IF doc[a][k] = Absent \/ doc[b][k] = Absent THEN Absent ELSE base[k]

Exchange ==
  LET a == CHOOSE r \in Replicas : \A q \in Replicas : r <= q
      b == CHOOSE r \in Replicas : \A q \in Replicas : r >= q
      merged == [k \in Keys |->
                   IF k[1] \in {"parent", "name"} /\ Merged(a, b, <<"type", k[2]>>) = Absent THEN Absent
                   ELSE Merged(a, b, k)]
  IN  /\ a # b /\ \E r \in Replicas : doc[r] # base \/ wrote[r] # {}
      /\ doc' = [r \in Replicas |-> merged] /\ base' = merged
      /\ wrote' = [r \in Replicas |-> {}] /\ touched' = [r \in Replicas |-> {}]
      /\ tangled' = (tangled \/ \E p \in touched[a], q \in touched[b] : IsPrefixOf(p, q) \/ IsPrefixOf(q, p))
      /\ UNCHANGED <<made, ops>>

-----------------------------------------------------------------------------

Next ==
  \/ \E r \in Replicas, p \in Paths, type \in {"file", "directory"} : Create(r, p, type)
  \/ \E r \in Replicas, from, to \in Paths : Rename(r, from, to)
  \/ \E r \in Replicas, p \in Paths : Delete(r, p)
  \/ Exchange

Spec == Init /\ [][Next]_vars

-----------------------------------------------------------------------------

\* Every path resolves by the index as by the links ...
IndexAgrees(s) == \A p \in Paths : s[<<"path", p>>] = Walk(s, Root, p)

\* ... every child link is that of a living entry to its directory ...
LinksAgree(s) ==
  \A d \in Ids, n \in Names :
    LET e == Child(s, d, n)
    IN  e # Absent =>
          /\ Type(s, e) # Absent /\ Type(s, d) = "directory"
          /\ s[<<"parent", e>>] = d /\ s[<<"name", e>>] = n

\* ... every living entry has exactly one path, which its parents lead to ...
EveryEntryHasItsPath(s) ==
  \A e \in Live(s) :
    /\ Ends(s, e)
    /\ \A q \in Paths : resolvePath(s, q) = e <=> q = getPathForEntryId(s, e)

\* ... and exists, stat, list and tree tell the same.
QueriesAgree(s) ==
  LET tree == buildTree(s)
  IN  /\ ~TreeThrows(s)
      /\ \A p \in Paths : Found(s, p) <=> p \in DOMAIN tree
      /\ \A p \in DOMAIN tree :
           /\ stat(s, p).entryId = tree[p].entryId
           /\ tree[p].type = "directory" =>
                listDirectoryEntries(s, tree[p].entryId)
                  = {[entryId |-> tree[q].entryId, name |-> Last(q), path |-> q, type |-> tree[q].type] :
                       q \in {x \in DOMAIN tree : x # <<>> /\ Front(x) = p}}

\* While replicas work in different places, the index, the child links and the entries
\* of each describe one tree, after every operation and every exchange (CatalogStore).
OneTree ==
  tangled \/ \A r \in Replicas :
    /\ IndexAgrees(doc[r]) /\ LinksAgree(doc[r])
    /\ EveryEntryHasItsPath(doc[r]) /\ QueriesAgree(doc[r])

=============================================================================
