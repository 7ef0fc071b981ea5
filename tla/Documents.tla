------------------------------ MODULE Documents ------------------------------
(***************************************************************************)
(* One text file of yjs-fs as several replicas see it: its characters, the *)
(* size its catalog entry records, the comments anchored to it, what a     *)
(* user or an agent has selected in it, and a view of it that a React hook *)
(* keeps.  Replicas work apart and then exchange their updates.            *)
(* A character is a number: the place of its insertion among all.          *)
(***************************************************************************)
EXTENDS Naturals, Sequences, SequencesExt, FiniteSets

CONSTANTS
  Replicas,    \* client ids; the larger one wins concurrent writes of a key
  Viewer,      \* the replica with the view and the selection
  Absent,
  End,         \* the relative position behind the last character
  Initial,     \* characters of the file when replicas first have it
  MaxChars,    \* bound: characters ever inserted
  MaxComments, \* bound: comments ever made
  MaxOps       \* bound: operations

ASSUME DocumentsAssumption ==
  /\ Replicas \subseteq Nat /\ \E low, high \in Replicas : low < high /\ Replicas = {low, high}
  /\ Viewer \in Replicas
  /\ Absent \notin Nat /\ End \notin Nat /\ Absent # End
  /\ Initial \in Nat /\ MaxChars \in Nat /\ MaxComments \in Nat /\ MaxOps \in Nat

VARIABLES
  doc,      \* of each replica: the file, or Absent once unlinked
  base,     \* the file after the last exchange
  wrote,    \* of each replica: the keys of Yjs maps set since then
  made,     \* characters inserted anywhere
  anchors,  \* of each comment made anywhere: its relative positions
  replied,  \* replies made anywhere
  ops,
  selection, \* in the awareness of Viewer: relative positions, or Absent
  view,     \* of Viewer's component: what it shows and what is under way
  meant,    \* history: the characters each comment, and the selection, were made on
  loose     \* history: what each replica's metadata need no longer describe

vars == <<doc, base, wrote, made, anchors, replied, ops, selection, view, meant, loose>>
shared == <<base, anchors, replied>>

Comments == 1..MaxComments
\* Beside the comments, for what is not about one.
Selection == 0
Text == 0
Low == CHOOSE r \in Replicas : \A q \in Replicas : r <= q
High == CHOOSE r \in Replicas : \A q \in Replicas : r >= q

Visible(d) == SelectSeq(d.order, LAMBDA x : x \notin d.gone)
Chars(s) == {s[i] : i \in 1..Len(s)}

\* A deleted character still has its place: in front of what follows it.
Position(d, x) ==
  IF x = End THEN Len(Visible(d))
  ELSE Cardinality({i \in 1..Len(d.order) :
         d.order[i] \notin d.gone /\ \E j \in (i + 1)..Len(d.order) : d.order[j] = x})

\* createRelativePositionFromTypeIndex.
RelativePosition(d, i) == IF i < Len(Visible(d)) THEN Visible(d)[i + 1] ELSE End

\* Mutant: the position is the character in front of it.
CharacterBefore(d, i) == IF i \in 1..Len(Visible(d)) THEN Visible(d)[i] ELSE End
AnchorEnd(d, i) == RelativePosition(d, i)

\* Y.Text puts an insertion behind the deleted characters that follow its index.
TextInsert(d, i, new) ==
  LET p == CHOOSE n \in 0..Len(d.order) :
             /\ Len(SelectSeq(SubSeq(d.order, 1, n), LAMBDA x : x \notin d.gone)) = i
             /\ n = Len(d.order) \/ d.order[n + 1] \notin d.gone
  IN  [d EXCEPT !.order = SubSeq(@, 1, p) \o new \o SubSeq(@, p + 1, Len(@))]
TextDelete(d, i, n) == [d EXCEPT !.gone = @ \cup {Visible(d)[j] : j \in (i + 1)..(i + n)}]
content_edit(d, i, n, new) == TextInsert(TextDelete(d, i, n), i, new)

New(n) == [j \in 1..n |-> made + j]

Fresh == [order |-> [i \in 1..Initial |-> i], gone |-> {}, size |-> Initial,
          comments |-> {}, replies |-> {},
          resolved |-> [c \in Comments |-> FALSE], by |-> [c \in Comments |-> Absent]]

\* What a component makes of the file: its text and the comments that resolve in it.
readReplies(d, c) == {p \in d.replies : p[1] = c}
getCommentRecords(d) ==
  {[id |-> c, anchorIndex |-> Position(d, anchors[c][1]), resolved |-> d.resolved[c], by |-> d.by[c],
    replies |-> readReplies(d, c)] : c \in d.comments}
Snapshot(d) == IF d = Absent THEN Absent ELSE <<Visible(d), getCommentRecords(d)>>

Init ==
  /\ doc = [r \in Replicas |-> Fresh] /\ base = Fresh
  /\ wrote = [r \in Replicas |-> {}]
  /\ made = Initial /\ anchors = <<>> /\ replied = 0 /\ ops = 0
  /\ selection = Absent
  /\ view = [shown |-> Snapshot(Fresh), listening |-> FALSE, flag |-> FALSE, queued |-> FALSE, due |-> FALSE, slipped |-> FALSE]
  /\ meant = [c \in Comments \cup {Selection} |-> {}]
  /\ loose = [r \in Replicas |-> {}]

-----------------------------------------------------------------------------
(* The view: useSubscriptionVersion over subscribePath.                    *)

\* notify: one microtask for all the changes of a burst; it clears the flag.
notify(v) == IF v.flag THEN v ELSE [v EXCEPT !.flag = TRUE, !.queued = TRUE]
\* Mutant: the flag stays.
Stuck(v) == [v EXCEPT !.queued = FALSE, !.due = TRUE]
Delivered(v) == [v EXCEPT !.flag = FALSE, !.queued = FALSE, !.due = TRUE]

\* A change of the record or of the catalog reaches the listeners there are.
Noticed(d) ==
  view' = IF view.listening THEN notify(view)
          ELSE [view EXCEPT !.slipped = @ \/ Snapshot(d) # view.shown]

\* The effect of the first render subscribes.
Subscribe ==
  /\ ~view.listening
  /\ view' = [view EXCEPT !.listening = TRUE]
  /\ UNCHANGED <<doc, shared, wrote, made, ops, selection, meant, loose>>

\* The microtask calls the listener, which counts the version up.
Deliver ==
  /\ view.queued
  /\ view' = Delivered(view)
  /\ UNCHANGED <<doc, shared, wrote, made, ops, selection, meant, loose>>

\* React renders when it likes, and reads what there is then.
Render ==
  /\ view.due
  /\ view' = [view EXCEPT !.due = FALSE, !.shown = Snapshot(doc[Viewer]), !.slipped = FALSE]
  /\ UNCHANGED <<doc, shared, wrote, made, ops, selection, meant, loose>>

-----------------------------------------------------------------------------
(* Operations of one replica.                                              *)

\* Replica r makes d of the file, setting keys.
Change(r, d, keys) ==
  /\ ops < MaxOps /\ ops' = ops + 1
  /\ doc' = [doc EXCEPT ![r] = d]
  /\ wrote' = [wrote EXCEPT ![r] = @ \cup keys]
  /\ IF r = Viewer THEN Noticed(d) ELSE UNCHANGED view
  /\ UNCHANGED base

requireFile(r) == doc[r] # Absent
requireCommentRecord(r, c) == requireFile(r) /\ c \in doc[r].comments

content_size(d, n) == Len(Visible(d))

content_read(r) == Visible(doc[r])

\* writeFile, editFile (of a match that is unique): the text, then the size of the entry.
Rewrite(r, i, n, k) ==
  LET d == content_edit(doc[r], i, n, New(k))
  IN  /\ requireFile(r) /\ made + k <= MaxChars
      /\ made' = made + k
      /\ Change(r, [d EXCEPT !.size = content_size(d, k)], {<<"size", Text>>})
      /\ loose' = [loose EXCEPT ![r] = @ \ {Text}]
      /\ UNCHANGED <<anchors, replied, selection, meant>>
writeFile(r) == \E k \in 0..2 : requireFile(r) /\ Rewrite(r, 0, Len(content_read(r)), k)
editFile(r) ==
  /\ requireFile(r)
  /\ \E i \in 0..Len(Visible(doc[r])), n \in 1..2, k \in 0..1 :
       i + n <= Len(Visible(doc[r])) /\ Rewrite(r, i, n, k)

\* An editor bound to the Y.Text that getYTextForFile gives out: it knows no entry.
typeInto(r) ==
  /\ requireFile(r) /\ made < MaxChars /\ made' = made + 1
  /\ \E i \in 0..Len(Visible(doc[r])) : Change(r, TextInsert(doc[r], i, New(1)), {})
  /\ loose' = [loose EXCEPT ![r] = @ \cup {Text}]
  /\ UNCHANGED <<anchors, replied, selection, meant>>

Marked(d, i, n) == {Visible(d)[j] : j \in (i + 1)..(IF i + n < Len(Visible(d)) THEN i + n ELSE Len(Visible(d)))}

\* addComment; an end beyond the text is the end of the text.
addComment(r) ==
  \E c \in Comments, i \in 0..1, n \in 1..2 :
    /\ requireFile(r) /\ DOMAIN anchors = 1..(c - 1)
    /\ i < Len(Visible(doc[r]))
    /\ anchors' = [b \in 1..c |-> IF b < c THEN anchors[b] ELSE <<RelativePosition(doc[r], i), AnchorEnd(doc[r], i + n)>>]
    /\ meant' = [meant EXCEPT ![c] = Marked(doc[r], i, n)]
    /\ ops < MaxOps /\ ops' = ops + 1
    /\ doc' = [doc EXCEPT ![r].comments = @ \cup {c}]
    /\ view' = IF r # Viewer THEN view
               ELSE IF view.listening THEN notify(view) ELSE [view EXCEPT !.slipped = TRUE]
    /\ UNCHANGED <<base, wrote, made, replied, selection, loose>>

replyToComment(r, c) ==
  /\ requireCommentRecord(r, c) /\ replied' = replied + 1
  /\ Change(r, [doc[r] EXCEPT !.replies = @ \cup {<<c, replied'>>}], {})
  /\ UNCHANGED <<made, anchors, selection, meant, loose>>

\* Mutant: who resolved it stays when it is opened again.
KeptResolver(d, c, r) == [d EXCEPT !.resolved[c] = ~@, !.by[c] = IF d.resolved[c] THEN @ ELSE r]
resolveRecord(d, c, r) == [d EXCEPT !.resolved[c] = ~@, !.by[c] = IF d.resolved[c] THEN Absent ELSE r]

\* resolveComment: a toggle; opening a comment deletes the key of the resolver.
resolveComment(r, c) ==
  /\ requireCommentRecord(r, c)
  /\ Change(r, resolveRecord(doc[r], c, r),
            {<<"resolved", c>>} \cup (IF doc[r].resolved[c] THEN {} ELSE {<<"by", c>>}))
  /\ loose' = [loose EXCEPT ![r] = @ \ {c}]
  /\ UNCHANGED <<made, anchors, replied, selection, meant>>

\* unlink deletes entry and record, comments and all.
unlink(r) ==
  /\ requireFile(r) /\ Change(r, Absent, {})
  /\ UNCHANGED <<made, anchors, replied, selection, meant, loose>>

-----------------------------------------------------------------------------
(* The selection of Viewer, set by the presence hooks of an agent's tools. *)

setLocalSelection(i, n) ==
  LET d == doc[Viewer]
  IN  /\ selection' = <<RelativePosition(d, i), AnchorEnd(d, i + n)>>
      /\ meant' = [meant EXCEPT ![Selection] = Marked(d, i, n)]
clearSelection ==
  /\ selection' = Absent /\ meant' = [meant EXCEPT ![Selection] = {}]
  /\ UNCHANGED <<doc, shared, wrote, made, ops, view, loose>>

\* After a read or a write all of the text, after an edit the lines it affected.
trySetSelection(i, n) ==
  /\ requireFile(Viewer) /\ i + n <= Len(Visible(doc[Viewer]))
  /\ setLocalSelection(i, n)
  /\ ops < MaxOps /\ ops' = ops + 1
  /\ UNCHANGED <<doc, shared, wrote, made, view, loose>>
readHook == requireFile(Viewer) /\ trySetSelection(0, Len(Visible(doc[Viewer])))
editHook == \E i, n \in 0..1 : trySetSelection(i, n)

\* The timer of scheduleFade, without which no selection is set; or a file was deleted.
fade == selection # Absent /\ clearSelection

-----------------------------------------------------------------------------
(* The exchange of updates.                                                *)

\* Insertions at one place stay together, those of the smaller client id first.
MergedOrder(a, b) ==
  LET known == Chars(base.order)
      Before(d, x) == Cardinality({i \in 1..Len(d.order) :
                        d.order[i] \in known /\ \E j \in (i + 1)..Len(d.order) : d.order[j] = x})
      Run(d, n) == SelectSeq(d.order, LAMBDA x : x \notin known /\ Before(d, x) = n)
  IN  FlattenSeq([n \in 1..(Len(base.order) + 1) |->
        (IF n = 1 THEN <<>> ELSE <<base.order[n - 1]>>) \o Run(a, n - 1) \o Run(b, n - 1)])

\* A key of a map: of concurrent writes that of the larger client id stays.
MergedKey(k, a, b, was) ==
  IF k \in wrote[High] THEN b ELSE IF k \in wrote[Low] THEN a
  ELSE IF a # was THEN a ELSE b

Merged ==
  LET a == doc[Low]  b == doc[High]
  IN  IF Absent \in {a, b} THEN Absent
      ELSE [order |-> MergedOrder(a, b), gone |-> a.gone \cup b.gone,
            size |-> MergedKey(<<"size", Text>>, a.size, b.size, base.size),
            comments |-> a.comments \cup b.comments, replies |-> a.replies \cup b.replies,
            resolved |-> [c \in Comments |->
                            MergedKey(<<"resolved", c>>, a.resolved[c], b.resolved[c], base.resolved[c])],
            by |-> [c \in Comments |-> MergedKey(<<"by", c>>, a.by[c], b.by[c], base.by[c])]]

\* History: replicas that both changed the text or its size, or both toggled one comment.
Touched(r) ==
  {c \in Comments : <<"resolved", c>> \in wrote[r]}
    \cup {t \in {Text} : \/ <<"size", Text>> \in wrote[r]
                         \/ Absent \notin {doc[r], base} /\ <<doc[r].order, doc[r].gone>> # <<base.order, base.gone>>}
MergedLoose ==
  {t \in Comments \cup {Text} :
     \/ t \in Touched(Low) /\ t \in Touched(High)
     \/ \E r \in Replicas : t \in loose[r] /\ (t \in Touched(r) \/ \A q \in Replicas : t \notin Touched(q))}

Exchange ==
  /\ \E r \in Replicas : doc[r] # base \/ wrote[r] # {}
  /\ doc' = [r \in Replicas |-> Merged] /\ base' = Merged
  /\ wrote' = [r \in Replicas |-> {}]
  /\ loose' = [r \in Replicas |-> MergedLoose]
  /\ IF doc[Viewer] # Merged THEN Noticed(Merged) ELSE UNCHANGED view
  /\ UNCHANGED <<made, anchors, replied, ops, selection, meant>>

Next ==
  \/ \E r \in Replicas : writeFile(r) \/ editFile(r) \/ typeInto(r) \/ addComment(r) \/ unlink(r)
  \/ \E r \in Replicas, c \in Comments : replyToComment(r, c) \/ resolveComment(r, c)
  \/ readHook \/ editHook \/ fade
  \/ Subscribe \/ Deliver \/ Render
  \/ Exchange

Spec == Init /\ [][Next]_vars

-----------------------------------------------------------------------------

\* The range, as replica d resolves it, ends after its start and covers those of the
\* characters that d still shows.
Spans(d, range, chars) ==
  LET from == Position(d, range[1])  to == Position(d, range[2])
  IN  /\ from <= to
      /\ chars \cap Chars(Visible(d)) \subseteq {Visible(d)[j] : j \in (from + 1)..to}

\* A comment and a selection hold their text: whatever is inserted, deleted, rewritten
\* or merged, the range they resolve to on any replica covers every character they
\* were made on that is still there, and no range ends before it starts (comments.ts).
RangesHold ==
  \A r \in Replicas : doc[r] # Absent =>
    /\ \A c \in doc[r].comments : Spans(doc[r], anchors[c], meant[c])
    /\ r = Viewer /\ selection # Absent => Spans(doc[r], selection, meant[Selection])

SizeAgrees(r) == Text \notin loose[r] => doc[r].size = Len(Visible(doc[r]))
ResolverAgrees(r, c) == c \notin loose[r] => (doc[r].resolved[c] <=> doc[r].by[c] # Absent)

\* What is written about the file agrees with it: the entry's size is the length of the
\* text, and a comment names who resolved it exactly if it is resolved.  Excepted is
\* what replicas changed at once and nobody wrote since, and text typed past the facade.
RecordsAgree ==
  \A r \in Replicas : doc[r] # Absent =>
    SizeAgrees(r) /\ \A c \in doc[r].comments : ResolverAgrees(r, c)

\* A view that is behind has a notification queued or a render due, unless the change
\* came between its first render and the effect that subscribes (index.tsx:121).
ViewCatchesUp ==
  view.queued \/ view.due \/ view.slipped \/ view.shown = Snapshot(doc[Viewer])
==============================================================================
