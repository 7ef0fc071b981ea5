------------------------------ MODULE Processes ------------------------------
(***************************************************************************)
(* One command of the bash tool: a process in a group of its own, its      *)
(* timeout, the abort signal of the run, the two signals with which it is  *)
(* stopped, and the wait for its end and its output.  The process may      *)
(* leave others behind in the group that hold its output open, and any of  *)
(* them may ignore SIGTERM.                                                *)
(***************************************************************************)
EXTENDS Naturals, FiniteSets

VARIABLES
  leader,     \* never spawned, running, exited
  helpers,    \* others in the group that still run
  stubborn,   \* those of the group that ignore SIGTERM
  endless,    \* those that do not end by themselves
  timer,      \* of the timeout: unset, armed, over
  abortable,  \* the abort signal is listened to
  flags,      \* what terminate was called for: timeout, abort, or nothing yet
  killer,     \* killProcessTree: idle, grace, done
  heard,      \* events of the child that were handled
  grace,      \* the timer behind "exit": unset, armed, over
  streams,    \* of stdout and stderr: open, ended or destroyed
  outcome     \* of runProcess: pending, done, failed
procVars == <<leader, helpers, stubborn, endless, timer, abortable, flags, killer, heard, grace, streams, outcome>>

Helpers == {"helper"}
Group == {"leader"} \cup Helpers
settled == outcome # "pending" \/ heard \cap {"close", "error", "grace"} # {}

Init ==
  /\ leader \in {"running", "never spawned"}
  /\ helpers \in SUBSET Helpers /\ (leader = "never spawned" => helpers = {})
  /\ stubborn \in SUBSET Group /\ endless \in SUBSET Group
  /\ timer \in {"unset", "armed"}
  /\ abortable \in BOOLEAN
  /\ flags = {} /\ killer = "idle" /\ heard = {} /\ grace = "unset"
  /\ streams = IF leader = "running" THEN "open" ELSE "ended"
  /\ outcome = "pending"

Alive == (IF leader = "running" THEN {"leader"} ELSE {}) \cup helpers

-----------------------------------------------------------------------------
(* The group.                                                              *)

\* A signal to the whole group, or to the leader if there is no group of that number.
Hit(those) ==
  /\ leader' = IF "leader" \in those THEN "exited" ELSE leader
  /\ helpers' = helpers \ those

LeaderEnds ==
  /\ leader = "running" /\ "leader" \notin endless
  /\ leader' = "exited"
  /\ UNCHANGED <<helpers, stubborn, endless, timer, abortable, flags, killer, heard, grace, streams, outcome>>

HelperEnds ==
  /\ \E h \in helpers \ endless : helpers' = helpers \ {h}
  /\ UNCHANGED <<leader, stubborn, endless, timer, abortable, flags, killer, heard, grace, streams, outcome>>

\* The ends of the pipes are closed once nobody holds them.
StreamsEnd ==
  /\ streams = "open" /\ Alive = {}
  /\ streams' = "ended"
  /\ UNCHANGED <<leader, helpers, stubborn, endless, timer, abortable, flags, killer, heard, grace, outcome>>

-----------------------------------------------------------------------------
(* Stopping it.                                                            *)

\* The first reason counts; the group is sent SIGTERM at once.
terminate(reason) ==
  IF flags # {} \/ leader = "never spawned"
  THEN flags' = (IF flags = {} THEN {reason} ELSE flags) /\ UNCHANGED <<leader, helpers, killer>>
  ELSE flags' = {reason} /\ killer' = "grace" /\ Hit(Alive \ stubborn)

Timeout ==
  /\ timer = "armed" /\ outcome = "pending" /\ timer' = "over"
  /\ terminate("timeout")
  /\ UNCHANGED <<stubborn, endless, abortable, heard, grace, streams, outcome>>

\* Of the run; one given already aborted is handled at once.
Abort ==
  /\ abortable /\ outcome = "pending" /\ abortable' = FALSE
  /\ terminate("abort")
  /\ UNCHANGED <<stubborn, endless, timer, heard, grace, streams, outcome>>

Kill == IF leader = "running" THEN Hit(Alive) ELSE UNCHANGED <<leader, helpers>>

\* After the grace the group is killed if the leader has not exited by then.
killProcessTree ==
  /\ killer = "grace" /\ killer' = "done"
  /\ Kill
  /\ UNCHANGED <<stubborn, endless, timer, abortable, flags, heard, grace, streams, outcome>>

-----------------------------------------------------------------------------
(* Waiting for it.                                                         *)

onError ==
  /\ leader = "never spawned" /\ ~settled
  /\ heard' = heard \cup {"error"} /\ streams' = "ended"
  /\ UNCHANGED <<leader, helpers, stubborn, endless, timer, abortable, flags, killer, grace, outcome>>

\* Mutant: wait for the pipes, however long.
NoGrace == UNCHANGED grace
ArmGrace == grace' = "armed"

onExit ==
  /\ leader = "exited" /\ "exit" \notin heard /\ ~settled
  /\ heard' = heard \cup {"exit"} /\ ArmGrace
  /\ UNCHANGED <<leader, helpers, stubborn, endless, timer, abortable, flags, killer, streams, outcome>>

\* "close" comes once the process has exited and its pipes are closed.
onClose ==
  /\ "exit" \in heard /\ streams # "open" /\ ~settled
  /\ heard' = heard \cup {"close"} /\ grace' = "over" /\ streams' = "destroyed"
  /\ UNCHANGED <<leader, helpers, stubborn, endless, timer, abortable, flags, killer, outcome>>

\* Whoever still holds the pipes loses them.
finish ==
  /\ grace = "armed" /\ ~settled
  /\ grace' = "over" /\ heard' = heard \cup {"grace"} /\ streams' = "destroyed"
  /\ UNCHANGED <<leader, helpers, stubborn, endless, timer, abortable, flags, killer, outcome>>

\* The wait and both streams are over.  A stream destroyed while it is read may throw
\* instead of ending.
Return ==
  /\ settled /\ streams # "open" /\ outcome = "pending"
  /\ outcome' \in (IF "error" \in heard THEN {"failed"} ELSE {"done"} \cup (IF "grace" \in heard THEN {"failed"} ELSE {}))
  /\ timer' = (IF timer = "armed" THEN "over" ELSE timer) /\ abortable' = FALSE
  /\ UNCHANGED <<leader, helpers, stubborn, endless, flags, killer, heard, grace, streams>>

Next ==
  \/ LeaderEnds \/ HelperEnds \/ StreamsEnd
  \/ Timeout \/ Abort \/ killProcessTree
  \/ onError \/ onExit \/ onClose \/ finish \/ Return

\* The operating system ends what ends, and the event loop gets to every event and timer;
\* an abort need not come.
Ends ==
  LeaderEnds \/ StreamsEnd \/ Timeout \/ killProcessTree \/ onError \/ onExit \/ onClose \/ finish \/ Return
Spec == Init /\ [][Next]_procVars /\ WF_procVars(Ends)

-----------------------------------------------------------------------------

\* The command ends by itself, has a timeout or is aborted.
Stoppable == "leader" \notin endless \/ timer # "unset" \/ flags # {}

\* A call returns: once its command ends, runs out of time or is aborted, whatever the
\* processes it leaves behind do.
CallReturns == Stoppable ~> outcome # "pending"
==============================================================================
