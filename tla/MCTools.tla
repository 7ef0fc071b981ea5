------------------------------- MODULE MCTools -------------------------------
(***************************************************************************)
(* Seven parts of the agent that share no state, checked one beside the    *)
(* other: Init chooses which of them is the subject, the variables of the  *)
(* others keep the value Idle.                                             *)
(***************************************************************************)
EXTENDS TokenUsage, Release, StopConditions, TLC

CONSTANT Idle

VARIABLES
  subject,
  backend, body, ops, at, phase, content, store, was, written, meddled,
  model, options, history, turn, request,
  leader, helpers, stubborn, endless, timer, abortable, flags, killer, heard, grace, streams, outcome,
  feeds, renderer, screen, told, streamToolArgs, flushed

patchVars == <<backend, body, ops, at, phase, content, store, was, written, meddled>>
requestVars == <<model, options, history, turn, request>>
procVars == <<leader, helpers, stubborn, endless, timer, abortable, flags, killer, heard, grace, streams, outcome>>
renderVars == <<feeds, renderer, screen, told, streamToolArgs, flushed>>

-----------------------------------------------------------------------------
(* Patches.                                                                *)

L(w) == <<w, "">>
Line(is, path, line) == [is |-> is, path |-> path, line |-> line]
Removed(l) == Line("remove", Idle, l)
Said == {Line("context", Idle, L("a")), Removed(L("a")), Removed(<<"b", "end">>), Line("add line", Idle, L("b")),
         Removed(<<"blank", "">>), Line("endOfFile", Idle, Idle)}
Header(c) == <<Line("@@", Idle, c)>>
Chunks(c) == {Header(c) \o s : s \in UNION {[1..n -> Said] : n \in 1..2}}
Updates == {<<Line("update", "p", Idle)>> \o m \o c : m \in {<<>>, <<Line("moveTo", "q", Idle)>>}, c \in Chunks(Idle)}
Pairs == {<<Line("update", "p", Idle)>> \o c \o d : c \in Chunks(L("a")), d \in {Header(Idle) \o s : s \in [1..1 -> Said]}}
Others == {<<Line("delete", "q", Idle)>>, <<Line("add", "q", Idle), Line("add line", Idle, L("b"))>>,
           <<Line("update", "q", Idle)>> \o Header(Idle) \o <<Removed(L("a"))>>}
MCBodies == Pairs \cup {x \o y : x \in Others, y \in Updates}
              \cup {x \o y : x \in {u \in Updates : u[2].is = "@@"}, y \in Others}
Solo == <<"blank", "">>
MCStores == {("p" :> <<L("a"), L("b"), L("a"), Solo>> @@ "q" :> y) : y \in {Idle, <<L("a"), Solo>>}}
              \cup {("p" :> <<L("b"), L("a"), Solo, Solo>> @@ "q" :> Idle)}

P == INSTANCE Patching WITH
       Words <- {"a", "b"}, Absent <- Idle, Paths <- {"p", "q"}, Bodies <- MCBodies, Stores <- MCStores,
       Contents <- {}, MaxMeddling <- 1

-----------------------------------------------------------------------------
(* Requests.                                                               *)

M(p, s, n, v) == [provider |-> p, series |-> s, number |-> n, variant |-> v]
Options(keep, asked, include, tools) == [store |-> keep, asked |-> asked, include |-> include, tools |-> tools, choice |-> Idle]
MCSetups ==
  {<<M("copilot", "gpt", 5, ""), Options("unset", {"topK", "priority"}, {}, {"function"})>>,
   <<M("sdk", "o", 1, "mini"), Options("off", {"effort", "temperature", "flex"}, {"encrypted"}, {"function", "local_shell", "web_search"})>>,
   <<M("copilot", "gpt", 5, "mini"), Options("unset", {"topK"}, {}, {"function", "unknown"})>>,
   <<M("codex", "gpt", 5, "sol"), Options("unset", {"max effort"}, {"sources"}, {"function"})>>}

Conv == INSTANCE Conversion WITH None <- Idle
Content(types) == [k \in DOMAIN types |-> [Conv!NoPart EXCEPT !.type = types[k]]]
MCContents == {Content(<<"text", "image">>), Content(<<"attachment prompt", "pdf">>)}

R == INSTANCE Requests WITH
       None <- Idle, Setups <- MCSetups, UserContents <- MCContents,
       Spaces <- {"openai", "copilot"}, MaxMessages <- 5, MaxParts <- 3

-----------------------------------------------------------------------------
(* Processes.                                                              *)

W == INSTANCE Processes

-----------------------------------------------------------------------------
(* The renderer.                                                           *)

NL == 0
Block(kind, id, chunks) == [kind |-> kind, id |-> id, chunks |-> chunks]
Step(streamed, woven, blocks) == [blocks |-> blocks, streamed |-> streamed, woven |-> woven]
Text1 == Block("text", 1, <<<<1, NL, 2>>, <<3>>>>)
Text2 == Block("text", 1, <<<<4>>, <<5, NL>>>>)
Thought == Block("reasoning", 1, <<<<6, NL, 7>>, <<8>>>>)
Call(i) == Block("toolInput", i, <<<<10 + i>>, <<20 + i>>>>)
MCTurns ==
  {<<Step(TRUE, FALSE, <<Thought, Text1>>), Step(TRUE, FALSE, <<Text2, Call(1)>>)>>,
   <<Step(TRUE, TRUE, <<Call(1), Call(2)>>), Step(TRUE, FALSE, <<Text1>>)>>,
   <<Step(FALSE, FALSE, <<Thought, Text2, Call(1)>>), Step(FALSE, FALSE, <<Text1>>)>>}

O == INSTANCE Renderer WITH Scopes <- {"a", "b"}, Turns <- MCTurns, Nobody <- Idle, heard <- told

-----------------------------------------------------------------------------
(* Releases: of a core, an application with a bundled library, and a file  *)
(* system that the application is published before.                        *)

Asks(field, name, range) == [field |-> field, name |-> name, range |-> range]
MCManifests ==
  {"core" :> {Asks("dependencies", "zod", "catalog")} @@ "yjs" :> {} @@ "app" :> app :
     app \in {{Asks("dependencies", "core", "workspace"), Asks("dependencies", "vendor", "workspace"), Asks("peerDependencies", "zod", "catalog")},
             {Asks("peerDependencies", "yjs", "workspace"), Asks("devDependencies", "gone", "workspace")},
             {Asks("dependencies", "gone", "workspace")}, {Asks("dependencies", "react", "catalog")}}}

MCPublishable == <<"core", "app", "yjs">>

-----------------------------------------------------------------------------
(* Stop conditions.                                                        *)

C(name, n, tool) == [name |-> name, n |-> n, tool |-> tool]
MCStops ==
  {<<C("maxSteps", 3, Idle)>>, <<C("doomLoop", 2, Idle), C("totalToolFailures", 3, "bash")>>,
   <<C("consecutiveToolFailures", 2, Idle)>>,
   <<C("consecutiveToolFailures", 2, "bash"), C("toolCompleted", 1, "read")>>,
   <<C("totalToolFailures", 3, Idle), C("toolCalled", 1, "read")>>}
Calls(tool, input) == [tool |-> tool, input |-> input]
MCCallLists ==
  {<<>>, <<Calls("bash", 1)>>, <<Calls("bash", 2)>>, <<Calls("read", 1)>>, <<Calls("bash", 1), Calls("read", 1)>>}

-----------------------------------------------------------------------------
(* Token usage: a run, its two sub-agents, and one of a sub-agent.         *)

MCParent == "main" :> Idle @@ "left" :> "main" @@ "right" :> "main" @@ "deep" :> "left"
MCModel == "main" :> "m" @@ "left" :> "n" @@ "right" :> "n" @@ "deep" :> "o"
MCReports == {[input |-> 3, read |-> r, write |-> w, noCache |-> n] : r \in {-1, 2}, w \in {0, 2}, n \in {-2, 1, 3}}

-----------------------------------------------------------------------------

NoPatch == backend = Idle /\ body = Idle /\ ops = Idle /\ at = Idle /\ phase = Idle /\
  content = Idle /\ store = Idle /\ was = Idle /\ written = Idle /\ meddled = Idle
NoRequest == model = Idle /\ options = Idle /\ history = Idle /\ turn = Idle /\ request = Idle
NoProcess == leader = Idle /\ helpers = Idle /\ stubborn = Idle /\ endless = Idle /\
  timer = Idle /\ abortable = Idle /\ flags = Idle /\ killer = Idle /\ heard = Idle /\
  grace = Idle /\ streams = Idle /\ outcome = Idle
NoRenderer == feeds = Idle /\ renderer = Idle /\ screen = Idle /\ told = Idle /\
  streamToolArgs = Idle /\ flushed = Idle
NoRelease == tags = Idle /\ jobs = Idle /\ registry = {} /\ released = {}
NoStops == stopWhen = Idle /\ steps = Idle /\ stage = Idle /\ fired = Idle
NoUsages == running = Idle /\ over = {} /\ byModel = Idle /\ bill = Idle /\ passedOn = Idle /\ calls = Idle

Init ==
  \/ subject = "patch" /\ P!Init /\ NoRequest /\ NoProcess /\ NoRenderer /\ NoRelease /\ NoStops /\ NoUsages
  \/ subject = "requests" /\ R!Init /\ NoPatch /\ NoProcess /\ NoRenderer /\ NoRelease /\ NoStops /\ NoUsages
  \/ subject = "process" /\ W!Init /\ NoPatch /\ NoRequest /\ NoRenderer /\ NoRelease /\ NoStops /\ NoUsages
  \/ subject = "renderer" /\ O!Init /\ NoPatch /\ NoRequest /\ NoProcess /\ NoRelease /\ NoStops /\ NoUsages
  \/ subject = "release" /\ ReleaseInit /\ NoPatch /\ NoRequest /\ NoProcess /\ NoRenderer /\ NoStops /\ NoUsages
  \/ subject = "stops" /\ StopInit /\ NoPatch /\ NoRequest /\ NoProcess /\ NoRenderer /\ NoRelease /\ NoUsages
  \/ subject = "usage" /\ UsageInit /\ NoPatch /\ NoRequest /\ NoProcess /\ NoRenderer /\ NoRelease /\ NoStops

Next ==
  \/ subject = "patch" /\ P!Next /\ UNCHANGED <<subject, requestVars, procVars, renderVars, releaseVars, stopVars, usageVars>>
  \/ subject = "requests" /\ R!Next /\ UNCHANGED <<subject, patchVars, procVars, renderVars, releaseVars, stopVars, usageVars>>
  \/ subject = "process" /\ W!Next /\ UNCHANGED <<subject, patchVars, requestVars, renderVars, releaseVars, stopVars, usageVars>>
  \/ subject = "renderer" /\ O!Next /\ UNCHANGED <<subject, patchVars, requestVars, procVars, releaseVars, stopVars, usageVars>>
  \/ subject = "release" /\ ReleaseNext /\ UNCHANGED <<subject, patchVars, requestVars, procVars, renderVars, stopVars, usageVars>>
  \/ subject = "stops" /\ StopNext /\ UNCHANGED <<subject, patchVars, requestVars, procVars, renderVars, releaseVars, usageVars>>
  \/ subject = "usage" /\ UsageNext /\ UNCHANGED <<subject, patchVars, requestVars, procVars, renderVars, releaseVars, stopVars>>

allVars == <<subject, patchVars, requestVars, procVars, renderVars, releaseVars, stopVars, usageVars>>
Spec == Init /\ [][Next]_allVars /\ WF_allVars(subject = "process" /\ W!Ends /\ UNCHANGED <<subject, patchVars, requestVars, renderVars, releaseVars, stopVars, usageVars>>)

\* The stop conditions alone.
StopsOnly == (Init /\ subject = "stops") /\ [][Next]_allVars

-----------------------------------------------------------------------------

\* A patch is applied whole or not at all (apply-patch.ts), see Patching.
AllOrNothing == subject = "patch" => P!AllOrNothing

\* Each chunk lands where its old lines are (patch-parser.ts), see Patching.
HunksLand == subject = "patch" => P!HunksLand

\* A request tells the whole conversation, and who asks (the converters, copilot.ts), see
\* Requests.
Retold == subject = "requests" => R!Retold

\* A call of the bash tool returns (process.ts), see Processes.
CallReturns == (subject = "process" /\ W!Stoppable) ~> (subject = "process" => outcome # "pending")

\* Every word is printed once and in order (output-renderer.ts), see Renderer.
SaidOnce == subject = "renderer" => O!SaidOnce

\* No line is written into another (output-renderer.ts), see Renderer.
LinesWhole == subject = "renderer" => O!LinesWhole
===============================================================================
