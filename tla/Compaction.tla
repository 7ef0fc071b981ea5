----------------------------- MODULE Compaction -----------------------------
(***************************************************************************)
(* Compaction of a conversation: a prefix of the messages is replaced by a *)
(* summary, by the caller (Agent.compact), on a /compact command, when the *)
(* last answer left the context window beyond a threshold, or once per run *)
(* when the provider reports an overflow.  findCompactionCut chooses the   *)
(* prefix.  Around it runs as much of the agent loop as grows the          *)
(* conversation: user messages, answers, tool results, approvals.          *)
(***************************************************************************)
EXTENDS Naturals, Sequences, FiniteSetsExt, SequencesExt

CONSTANTS
  MaxLog,          \* bound: messages of the whole conversation
  Sizes,           \* estimated tokens of a message
  SummarySize,     \* of a summary
  KeepRecentTokens \* ResolvedCompactionPolicy.keepRecentTokens

ASSUME CompactionAssumption ==
  /\ MaxLog \in Nat /\ Sizes \subseteq Nat \ {0}
  /\ SummarySize \in Nat \ {0} /\ KeepRecentTokens \in Nat

VARIABLES
  messages,   \* AgentState.messages
  compaction, \* compaction.totalReplacedMessageCount; NoCheckpoint without checkpoint
  pending,    \* tool calls with an approval entry
  tokens,     \* contextWindowTokens: unknown, below or beyond the threshold
  phase,      \* the run: idle, at the head of the loop, about to call the model
  overflowRecoveryUsed,
  log         \* history: the conversation without any compaction

vars == <<messages, compaction, pending, tokens, phase, overflowRecoveryUsed, log>>

\* Tool calls are named by the length of the log when they are made and their position.
CallIds == (1..MaxLog) \X (1..2)
Message(role, ids, size) == [role |-> role, ids |-> ids, size |-> size, of |-> <<>>]
\* With the messages it was made of, itself or through the summary before it.
Summary(of) == [Message("summary", {}, SummarySize) EXCEPT !.of = of]
\* A user message that is a /compact command.
Command == Message("command", {}, 1)
NoCheckpoint == MaxLog + 1
HasCheckpoint == compaction # NoCheckpoint

IdsOf(m, role) == UNION {m[i].ids : i \in {j \in DOMAIN m : m[j].role = role}}
Weight(m) == LET upTo[i \in 0..Len(m)] == IF i = 0 THEN 0 ELSE upTo[i - 1] + m[i].size IN upTo[Len(m)]
From(m, i) == SubSeq(m, i, Len(m))

Init ==
  /\ messages = <<>> /\ compaction = NoCheckpoint /\ pending = {} /\ tokens = "unknown"
  /\ phase = "idle" /\ overflowRecoveryUsed = FALSE
  /\ log = <<>>

-----------------------------------------------------------------------------
(* findCompactionCut and fitsCompactionTail.                               *)

\* Mutant: results of calls that are cut off may be retained.
AnyPairs(m) == TRUE
hasValidToolCallResultPairs(m) == IdsOf(m, "tool") \subseteq IdsOf(m, "assistant")

\* Mutant: calls waiting for an approval may be cut off.
NoneRequired(m, required) == TRUE
containsRequiredToolCalls(m, required) == required \subseteq IdsOf(m, "assistant")

isValidCutRole(x) == x.role # "tool"
Target == Max({1, KeepRecentTokens})

\* The length of the prefix to replace; 0: there is no coherent one.  The first position
\* at or after the boundary is preferred, then the last one before it.
findCompactionCut(m, required) ==
  LET heavy == {i \in DOMAIN m : Weight(From(m, i)) >= Target}
      boundary == IF heavy = {} THEN 1 ELSE Max(heavy)
      cuts == {i \in 2..Len(m) : /\ isValidCutRole(m[i])
                                 /\ hasValidToolCallResultPairs(From(m, i))
                                 /\ containsRequiredToolCalls(From(m, i), required)}
      after == {i \in cuts : i >= boundary}
  IN  IF boundary = 1 \/ cuts = {} THEN 0
      ELSE IF after # {} THEN Min(after) - 1 ELSE Max(cuts) - 1

fitsCompactionTail(m) ==
  /\ Len(m) >= 2 /\ findCompactionCut(m, {}) = 0
  /\ hasValidToolCallResultPairs(m)
  /\ Weight(m) <= Target

-----------------------------------------------------------------------------
(* performCompaction.                                                      *)

\* Mutant: the old summary is taken for a message.
ActiveAndSummary(m) == m
Active(m) == IF HasCheckpoint THEN Tail(m) ELSE m

ResetEstimate == "unknown"

\* What is told to the summarizer: a turn that is cut in two is told apart from the turns
\* before it.
planCompaction(m, required) ==
  LET cut == findCompactionCut(m, required)
      users == {i \in 1..cut : m[i].role \in {"user", "command"}}
      isSplitTurn == m[cut + 1].role = "assistant" /\ users # {}
      turnStart == IF isSplitTurn THEN Max(users) ELSE cut + 1
  IN  [cut |-> cut, history |-> SubSeq(m, 1, turnStart - 1), turnPrefix |-> SubSeq(m, turnStart, cut)]

\* The summarizer is told what it said before, if anything; it may fail whenever called.
Compacts(m, required) ==
  LET plan == planCompaction(Active(m), required)
      said == IF HasCheckpoint THEN m[1].of ELSE <<>>
  IN  /\ findCompactionCut(Active(m), required) > 0
      /\ messages' = <<Summary(said \o plan.history \o plan.turnPrefix)>> \o From(Active(m), plan.cut + 1)
      /\ compaction' = plan.cut + (IF HasCheckpoint THEN compaction ELSE 0)
      /\ tokens' = ResetEstimate

\* Within a run nothing is pending.
applyCompaction(m) == Compacts(m, {})

CompactionFails ==
  /\ phase' = "idle"
  /\ UNCHANGED <<messages, compaction, tokens, log>>

-----------------------------------------------------------------------------
(* The caller.                                                             *)

\* Also while approvals are pending: their results then come after the message.
Say(x) ==
  /\ phase = "idle" /\ Len(log) < MaxLog
  /\ messages' = Append(messages, x) /\ log' = Append(log, x)
  /\ UNCHANGED <<compaction, pending, tokens, phase, overflowRecoveryUsed>>

\* Agent.compact, also while approvals are pending.
Compact ==
  /\ phase = "idle" /\ messages # <<>>
  /\ Compacts(messages, pending)
  /\ UNCHANGED <<pending, phase, overflowRecoveryUsed, log>>

\* A run starts after the pending calls, if any, were decided and got their results.
Run ==
  /\ phase = "idle" /\ messages # <<>>
  /\ \/ pending # {}
     \/ Last(messages).role # "assistant" \/ Last(messages).ids # {}
  /\ Len(log) + Cardinality(pending) <= MaxLog
  /\ \E s \in Sizes :
       LET new == [i \in 1..Cardinality(pending) |-> Message("tool", {SetToSeq(pending)[i]}, s)]
       IN  messages' = messages \o new /\ log' = log \o new
  /\ pending' = {} /\ phase' = "head" /\ overflowRecoveryUsed' = FALSE
  /\ UNCHANGED <<compaction, tokens>>

-----------------------------------------------------------------------------
(* The loop.                                                               *)

Manual == Last(messages) = Command

\* The command itself is never compacted nor sent; it is a no-op if everything fits.
ManualCompaction ==
  /\ phase = "head" /\ Manual
  /\ \/ /\ fitsCompactionTail(Front(messages))
        /\ messages' = Front(messages)
        /\ log' = Front(log) /\ phase' = "request"
        /\ UNCHANGED <<compaction, tokens>>
     \/ /\ ~fitsCompactionTail(Front(messages))
        /\ applyCompaction(Front(messages))
        /\ log' = Front(log) /\ phase' = "request"
     \/ /\ ~fitsCompactionTail(Front(messages))
        /\ CompactionFails
  /\ UNCHANGED <<pending, overflowRecoveryUsed>>

ThresholdCompaction ==
  /\ phase = "head" /\ ~Manual /\ tokens = "beyond"
  /\ \/ /\ applyCompaction(messages)
        /\ phase' = "request"
        /\ UNCHANGED log
     \/ CompactionFails
  /\ UNCHANGED <<pending, overflowRecoveryUsed>>

NoCompaction ==
  /\ phase = "head" /\ ~Manual /\ tokens # "beyond"
  /\ phase' = "request"
  /\ UNCHANGED <<messages, compaction, pending, tokens, overflowRecoveryUsed, log>>

\* The provider reports an overflow: compact and retry, once per run.
Overflow ==
  /\ phase = "request" /\ ~overflowRecoveryUsed
  /\ overflowRecoveryUsed' = TRUE
  /\ \/ applyCompaction(messages) /\ UNCHANGED <<phase, log>>
     \/ CompactionFails
  /\ UNCHANGED pending

RequestFails ==
  /\ phase = "request"
  /\ phase' = "idle"
  /\ UNCHANGED <<messages, compaction, pending, tokens, overflowRecoveryUsed, log>>

\* The model answers with n tool calls; those of asks wait for an approval, the others
\* get their results.
Answer(n, asks) ==
  LET ids == {<<Len(log) + 1, i>> : i \in 1..n}
      done == SetToSeq({<<Len(log) + 1, i>> : i \in (1..n) \ asks})
  IN  /\ phase = "request" /\ Len(log) + 1 + n <= MaxLog
      /\ \E s \in Sizes :
           LET new == <<Message("assistant", ids, s)>>
                        \o [i \in DOMAIN done |-> Message("tool", {done[i]}, s)]
           IN  messages' = messages \o new /\ log' = log \o new
      /\ tokens' \in {"below", "beyond"}
      /\ pending' = {<<Len(log) + 1, i>> : i \in asks}
      /\ phase' = IF n = 0 \/ asks # {} THEN "idle" ELSE "head"
      /\ UNCHANGED <<compaction, overflowRecoveryUsed>>

-----------------------------------------------------------------------------
(* What a child is told that one of the calls forks off the conversation.  *)

\* A summary has the role of a user's message.
isUserTurnBoundary(x) == x.role \in {"user", "command", "summary"}

\* The call's own turn goes, from the user's message on.
removeInvokingTurn(m, call) ==
  LET invoking == {i \in DOMAIN m : call \in m[i].ids /\ m[i].role = "assistant"}
      users == {i \in DOMAIN m : isUserTurnBoundary(m[i]) /\ i < Min(invoking)}
      start == IF users = {} THEN Min(invoking) ELSE Max(users)
  IN  IF invoking = {} THEN m ELSE SubSeq(m, 1, start - 1) \o From(m, Min(invoking) + 1)

isEligibleForkMessage(x) == isUserTurnBoundary(x) \/ (x.role = "assistant" /\ x.ids = {})

\* From the n-th user's message from the end; 0: all turns.
selectRecentTurns(m, n) ==
  LET starts == {i \in DOMAIN m : isUserTurnBoundary(m[i])
                                  /\ Cardinality({j \in i..Len(m) : isUserTurnBoundary(m[j])}) = n}
  IN  IF starts = {} THEN m ELSE From(m, Max(starts))

projectForkMessages(m, turns, call) ==
  SelectSeq(selectRecentTurns(removeInvokingTurn(m, call), turns), isEligibleForkMessage)

\* The checkpoint goes with the summary.
createForkState(m, turns, call, prompt) ==
  LET told == projectForkMessages(m, turns, call)
  IN  [messages |-> Append(told, prompt), compaction |-> HasCheckpoint /\ \E i \in DOMAIN told : told[i] = m[1]]

-----------------------------------------------------------------------------

Next ==
  \/ \E s \in Sizes : Say(Message("user", {}, s))
  \/ Say(Command)
  \/ Compact
  \/ Run
  \/ ManualCompaction \/ ThresholdCompaction \/ NoCompaction
  \/ Overflow \/ RequestFails
  \/ \E n \in 0..2 : \E asks \in SUBSET (1..n) : Answer(n, asks)

Spec == Init /\ [][Next]_vars

-----------------------------------------------------------------------------

\* A fork of the last n turns before a call, all for 0, hears what was said in them and
\* nothing else; what a summary stands for through the summary, except in the turn that
\* was cut in two for it: the call's turn then takes the summary along.
ForkHears(n) ==
  \A call \in pending :
    LET i == call[1]
        first == IF HasCheckpoint THEN compaction + 1 ELSE 1
        before == {j \in first..(i - 1) : isUserTurnBoundary(log[j])}
        said == IF before = {} THEN <<>>
                ELSE (IF HasCheckpoint THEN <<messages[1]>> ELSE <<>>) \o SubSeq(log, first, Max(before) - 1)
        heard == SelectSeq(IF before = {} /\ ~HasCheckpoint THEN SubSeq(log, 1, i - 1) \o From(log, i + 1) ELSE said \o From(log, i + 1),
                           isEligibleForkMessage)
        fork == createForkState(messages, n, call, Command)
        Turns(m) == Cardinality({j \in DOMAIN m : isUserTurnBoundary(m[j])})
    IN  /\ IsSuffix(Front(fork.messages), heard)
        /\ IF n = 0 \/ Turns(heard) <= n THEN Front(fork.messages) = heard ELSE Turns(Front(fork.messages)) = n
        /\ fork.compaction => fork.messages[1] = messages[1]

\* The summaries made so far stand for as many messages as the checkpoint counts, and the
\* rest of the conversation is there, in order (performCompaction) ...
ConversationKept ==
  messages = IF HasCheckpoint THEN <<Summary(SubSeq(log, 1, compaction))>> \o From(log, compaction + 1) ELSE log

\* ... nothing is lost or summarized twice, nor is it for the children forked off the
\* conversation (createForkState).
NothingLost == ConversationKept /\ \A n \in 0..2 : ForkHears(n)

\* What is sent to the model has a result for every tool call and a tool call, earlier in
\* the conversation, for every result.
RequestCoherent ==
  phase = "request" =>
    \A i \in DOMAIN messages :
      /\ messages[i].role = "tool" => messages[i].ids \subseteq IdsOf(SubSeq(messages, 1, i), "assistant")
      /\ messages[i].role = "assistant" => messages[i].ids \subseteq IdsOf(From(messages, i), "tool")

\* A call that waits for an approval stays in the conversation, so that its decision has
\* something to answer.
PendingKept == pending \subseteq IdsOf(messages, "assistant")

=============================================================================
