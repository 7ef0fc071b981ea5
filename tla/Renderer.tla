------------------------------- MODULE Renderer -------------------------------
(***************************************************************************)
(* The terminal renderer of agentlayer-core: one object that turns the     *)
(* events of a run, those of its sub-agents among them, into lines.  Each  *)
(* scope (an agent within the call that started it) sends its own events   *)
(* in order; those of parallel sub-agents come in any order.  A word stands *)
(* for any text without a newline, NL for a newline.                       *)
(***************************************************************************)
EXTENDS Naturals, Sequences, FiniteSets, Folds, Functions, SequencesExt

CONSTANTS
  Scopes,
  Turns,  \* what a scope may have to say: sequences of steps
  NL, Nobody

VARIABLES
  feeds,    \* the events each scope still has to send
  renderer, \* the renderer's own state
  screen,   \* history: what was written of each block, labels, open line
  heard,    \* history: what was sent of each block
  streamToolArgs,
  flushed   \* the run is over and flush was called

renderVars == <<feeds, renderer, screen, heard, streamToolArgs, flushed>>

-----------------------------------------------------------------------------
(* The events of a step: [blocks, streamed, woven].  A block is a text, a  *)
(* thought or a call, with the chunks it arrives in.  A streamed step sends *)
(* its blocks as they arrive, its calls perhaps side by side, then its end *)
(* and at last the message that holds them all.                            *)

Event(type, id, text) == [type |-> type, id |-> id, text |-> text, blocks |-> <<>>, streamed |-> TRUE]
Id(b) == <<b.kind, b.id>>
Opens(b) == Event(b.kind \o "Start", Id(b), <<>>)
Deltas(b) == [i \in DOMAIN b.chunks |-> Event(b.kind \o "Delta", Id(b), b.chunks[i])]
Closes(b) == Event(b.kind \o "End", Id(b), <<>>)
Whole(b) == <<Opens(b)>> \o Deltas(b) \o <<Closes(b)>>
Woven(s) ==
  LET Each(op(_)) == [i \in DOMAIN s.blocks |-> op(s.blocks[i])]
      Longest == CHOOSE n \in {Len(b.chunks) : b \in ToSet(s.blocks)} : \A b \in ToSet(s.blocks) : Len(b.chunks) =< n
      Row(i) == FlattenSeq([k \in DOMAIN s.blocks |-> SubSeq(Deltas(s.blocks[k]), i, i)])
  IN Each(Opens) \o FlattenSeq([i \in 1..Longest |-> Row(i)]) \o Each(Closes)

StepEvents(s) ==
  (IF s.streamed
   THEN (IF s.woven THEN Woven(s) ELSE FlattenSeq([i \in DOMAIN s.blocks |-> Whole(s.blocks[i])]))
        \o <<Event("stepFinish", Nobody, <<>>)>>
   ELSE <<>>)
  \o <<[Event("message", Nobody, <<>>) EXCEPT !.blocks = s.blocks, !.streamed = s.streamed]>>
  \o (IF \E b \in ToSet(s.blocks) : b.kind = "toolInput" THEN <<Event("results", Nobody, <<>>)>> ELSE <<>>)

-----------------------------------------------------------------------------
(* The renderer and the screen together: r is the renderer's state, r.out  *)
(* the screen.                                                             *)

Put(f, x, v) == [y \in DOMAIN f \cup {x} |-> IF y = x THEN v ELSE f[y]]
Without(f, xs) == Restrict(f, DOMAIN f \ xs)
At(f, x, default) == IF x \in DOMAIN f THEN f[x] ELSE default
Only(words) == SelectSeq(words, LAMBDA w : w # NL)

\* The text lands on the screen.
Shown(r, key, words) == [r EXCEPT !.out.said = Put(@, key, At(@, key, <<>>) \o Only(words))]
Labelled(r, key) == [r EXCEPT !.out.labels = Put(@, key, At(@, key, 0) + 1)]

\* The newline of the tool line that is being written.
flushActiveToolLine(r) ==
  IF r.active = Nobody THEN r
  ELSE LET closed == [r EXCEPT !.active = Nobody]
       IN IF r.active \notin DOMAIN r.live \/ ~r.live[r.active].lineOpen THEN closed
          ELSE [closed EXCEPT !.live[r.active].lineOpen = FALSE, !.out.open = Nobody]

\* Mutant: a line that does not end the tool line first.
WriteOver(r) == [r EXCEPT !.out.torn = @ \/ r.out.open # Nobody]
\* A whole line; torn notes whether it lands in the middle of another.
writeLine(r) == LET f == flushActiveToolLine(r) IN [f EXCEPT !.out.torn = @ \/ f.out.open # Nobody]

ensureToolInputState(r, call) ==
  IF call \in DOMAIN r.live THEN r
  ELSE [r EXCEPT !.live = Put(@, call, [lineOpen |-> FALSE, invoked |-> FALSE, raw |-> <<>>])]

activateToolLine(r, call) ==
  LET f == IF r.active \notin {Nobody, call} THEN flushActiveToolLine(r) ELSE r
      e == ensureToolInputState(f, call)
      l == IF e.live[call].invoked THEN e ELSE Labelled(e, call)
  IN IF e.live[call].lineOpen THEN e
     ELSE [l EXCEPT !.live[call].invoked = TRUE, !.live[call].lineOpen = TRUE, !.rendered = @ \cup {call},
                    !.active = call, !.out.open = call, !.out.torn = @ \/ l.out.open # Nobody]

flushToolInputLine(r, call) ==
  IF call \notin DOMAIN r.live THEN r
  ELSE IF streamToolArgs THEN flushActiveToolLine(activateToolLine(r, call))
  ELSE IF call \in r.rendered THEN r
  ELSE Shown([Labelled(writeLine(r), call) EXCEPT !.rendered = @ \cup {call}], call, r.live[call].raw)

emitToolInputDelta(r, call, text) ==
  LET e == IF streamToolArgs THEN activateToolLine(r, call) ELSE ensureToolInputState(r, call)
      d == [e EXCEPT !.live[call].raw = @ \o text]
  IN IF streamToolArgs THEN Shown([d EXCEPT !.out.torn = @ \/ d.out.open # call], call, text) ELSE d

\* The part of a text up to its last newline, and the part behind it.
Ended(text) == LET nl == {i \in DOMAIN text : text[i] = NL} IN IF nl = {} THEN 0 ELSE CHOOSE i \in nl : \A j \in nl : j =< i

emitBufferedBlockLines(r, key, chunk) ==
  LET next == At(r.buffers, key, <<>>) \o chunk
      rest == SubSeq(next, Ended(next) + 1, Len(next))
      w == IF Ended(next) = 0 THEN r
           ELSE LET f == writeLine(r)
                IN Shown([(IF key \in f.started THEN f ELSE Labelled(f, key)) EXCEPT !.started = @ \cup {key}],
                         key, SubSeq(next, 1, Ended(next)))
  IN [w EXCEPT !.buffers = IF rest = <<>> THEN Without(@, {key}) ELSE Put(@, key, rest)]

flushBlockBuffer(r, key) ==
  IF key \notin DOMAIN r.buffers THEN r
  ELSE LET f == writeLine(r)
       IN Shown([(IF key \in f.started THEN f ELSE Labelled(f, key))
                   EXCEPT !.started = @ \cup {key}, !.buffers = Without(@, {key})], key, r.buffers[key])

Every(r, keys, op(_, _)) == FoldLeft(op, r, SetToSeq(keys))
Of(r, scope, kind) == {k \in DOMAIN r.buffers : k[1] = scope /\ k[2] = kind}
\* The rest of a scope's thoughts, as a thought of its own.
flushThinking(r, scope) ==
  Every(r, Of(r, scope, "reasoning"),
        LAMBDA s, k : Shown([Labelled(writeLine(s), k) EXCEPT !.buffers = Without(@, {k})], k, s.buffers[k]))

-----------------------------------------------------------------------------
(* The events.                                                             *)

\* Mutant: a message always tells its text.
TellAnyway(r, scope) == FALSE
\* Its text and its thoughts were shown as they came.
skipFinalAssistantText(r, scope) == scope \in r.sawLive

emitMessage(r, scope, blocks) ==
  LET f == flushThinking(r, scope)
      skip == skipFinalAssistantText(f, scope)
      Part(s, b) ==
        LET key == <<scope>> \o Id(b)
            text == FlattenSeq(b.chunks)
        IN IF b.kind = "toolInput"
           THEN IF key \in s.rendered THEN s
                ELSE Shown([Labelled(writeLine(s), key) EXCEPT !.rendered = @ \cup {key}], key, text)
           ELSE IF skip THEN s ELSE Shown(Labelled(writeLine(s), key), key, text)
  IN FoldLeft(Part, [f EXCEPT !.sawLive = @ \ {scope}], blocks)

stepFinish(r, scope) ==
  LET calls == Every(r, DOMAIN r.live, flushToolInputLine)
      texts == Of(calls, scope, "text")
      said == Every(calls, texts, flushBlockBuffer)
  IN flushThinking([said EXCEPT !.started = @ \ texts], scope)

onEvent(r, scope, e) ==
  LET key == IF e.id = Nobody THEN Nobody ELSE <<scope>> \o e.id
      live == [r EXCEPT !.sawLive = @ \cup {scope}]
  IN CASE e.type = "textStart" -> [flushThinking(r, scope) EXCEPT !.sawLive = @ \cup {scope}]
       [] e.type \in {"textDelta", "reasoningDelta"} -> emitBufferedBlockLines(live, key, e.text)
       [] e.type \in {"textEnd", "reasoningEnd"} -> [flushBlockBuffer(r, key) EXCEPT !.started = @ \ {key}]
       [] e.type = "toolInputStart" -> IF streamToolArgs THEN activateToolLine(r, key) ELSE ensureToolInputState(r, key)
       [] e.type = "toolInputDelta" -> emitToolInputDelta(r, key, e.text)
       [] e.type = "toolInputEnd" -> [flushToolInputLine(r, key) EXCEPT !.live = Without(@, {key})]
       [] e.type = "message" -> emitMessage(r, scope, e.blocks)
       [] e.type = "stepFinish" -> stepFinish(r, scope)
       [] e.type = "results" -> writeLine(r)
       [] OTHER -> r

flushAllBuffers(r) ==
  LET texts == Every(r, DOMAIN r.buffers, flushBlockBuffer)
  IN Every(texts, DOMAIN r.live, flushToolInputLine)

-----------------------------------------------------------------------------

\* History: what the event tells for the first time.
Told(h, scope, e) ==
  LET Add(f, k, words) == Put(f, k, At(f, k, <<>>) \o Only(words))
  IN IF e.text # <<>> THEN Add(h, <<scope>> \o e.id, e.text)
     ELSE IF e.type = "message" /\ ~e.streamed
     THEN FoldLeft(LAMBDA f, b : Add(f, <<scope>> \o Id(b), FlattenSeq(b.chunks)), h, e.blocks)
     ELSE h

Init ==
  /\ \E turns \in [Scopes -> Turns] :
       feeds = [s \in Scopes |-> FlattenSeq([i \in DOMAIN turns[s] |-> StepEvents(turns[s][i])])]
  /\ streamToolArgs \in BOOLEAN
  /\ renderer = [buffers |-> <<>>, live |-> <<>>, started |-> {}, sawLive |-> {}, rendered |-> {}, active |-> Nobody]
  /\ screen = [said |-> <<>>, labels |-> <<>>, open |-> Nobody, torn |-> FALSE]
  /\ heard = <<>> /\ flushed = FALSE

Becomes(r) ==
  /\ renderer' = [k \in DOMAIN renderer |-> r[k]]
  /\ screen' = r.out
Now == [k \in DOMAIN renderer \cup {"out"} |-> IF k = "out" THEN screen ELSE renderer[k]]

Send(s) ==
  /\ ~flushed /\ feeds[s] # <<>>
  /\ Becomes(onEvent(Now, s, Head(feeds[s])))
  /\ heard' = Told(heard, s, Head(feeds[s]))
  /\ feeds' = [feeds EXCEPT ![s] = Tail(@)]
  /\ UNCHANGED <<streamToolArgs, flushed>>

\* The run is over: it ended, or it was aborted in the middle.
Flush ==
  /\ ~flushed /\ flushed' = TRUE
  /\ Becomes(flushAllBuffers(Now))
  /\ UNCHANGED <<feeds, heard, streamToolArgs>>

Next == (\E s \in Scopes : Send(s)) \/ Flush
Spec == Init /\ [][Next]_renderVars

-----------------------------------------------------------------------------

\* A call's arguments are shown as they come, or all at once from its line.
AsTheyCome(key) == key[2] # "toolInput" \/ streamToolArgs

\* However the events of the scopes mix, every word an agent says, thinks or
\* passes to a call is on the screen at most once and in order, all of them
\* once the run is over, although each comes twice, in its delta and in the
\* message.  A call is announced once.
SaidOnce ==
  /\ \A key \in DOMAIN screen.said : IsPrefix(screen.said[key], At(heard, key, <<>>))
  /\ flushed => \A key \in DOMAIN heard : AsTheyCome(key) => At(screen.said, key, <<>>) = heard[key]
  /\ \A key \in DOMAIN screen.labels : key[2] = "toolInput" => screen.labels[key] = 1

\* Between the label of a call whose arguments are streamed and the end of its
\* line, nothing but its arguments is written, whoever else is speaking, and
\* the last line is ended.
LinesWhole == ~screen.torn /\ (flushed => screen.open = Nobody)
===============================================================================
