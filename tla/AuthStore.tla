------------------------------ MODULE AuthStore ------------------------------
(***************************************************************************)
(* The file store of credentials (agentlayer-provider-auth): one JSON file *)
(* that every client, in whatever process, reads whole, changes in memory  *)
(* and writes whole.  A write truncates the file and then fills it; there  *)
(* is no lock.  What a client does with the answers is in Credentials.     *)
(***************************************************************************)
EXTENDS Naturals, Sequences

CONSTANTS
  Clients,   \* callers of the store: tasks of one process or of several
  Providers, \* normalized provider ids
  Auths,     \* credentials
  None,      \* no credentials under an id
  Foreign,   \* an entry that decodeAuthInfo does not know
  Missing,   \* there is no file
  Empty,     \* a file of no bytes, which JSON.parse rejects
  Garbled,   \* a text followed by the rest of a longer one: rejected too
  Stored     \* what the files may hold at first: [own, openCode, agentSdk]

ASSUME StoreAssumption ==
  /\ None \notin Auths /\ Foreign \notin Auths /\ None # Foreign
  /\ Empty # Garbled /\ Missing # Empty /\ Missing # Garbled
  /\ {Missing, Empty, Garbled} \cap [Providers -> Auths \cup {None, Foreign}] = {}

Entries == [Providers -> Auths \cup {None}]
Files == [Providers -> Auths \cup {None, Foreign}]

ASSUME StoredAssumption ==
  Stored \subseteq [own : Files \cup {Missing}, openCode : Files \cup {Missing},
                    agentSdk : Files \cup {Missing}]

VARIABLES
  file,     \* what auth.json holds
  openCode, \* OpenCode's file, read if the fallback is enabled
  agentSdk, \* the file of an older version, copied by ensureFileAuthStore
  call,     \* of each client: the operation it awaits
  at,       \* of each client: where that operation stands
  held,     \* of each client: the entries it read, as changed so far
  serial,   \* history: the entries, had the writes been made one by one
  stale,    \* history: clients that read before the last write
  raced,    \* history: a stale client has written
  cut       \* history: a client crashed between truncating and writing

fileVars == <<file, openCode, agentSdk>>
storeVars == <<file, openCode, agentSdk, call, at, held, serial, stale, raced, cut>>

NoCall == [op |-> "none", provider |-> None, auth |-> None]
NoEntries == [p \in Providers |-> None]

\* readAuthFile of a file that can be parsed.
Decoded(f) ==
  [p \in Providers |-> IF f = Missing THEN None
                       ELSE IF f[p] = Foreign THEN None ELSE f[p]]

StoreInit ==
  /\ \E s \in Stored : file = s.own /\ openCode = s.openCode /\ agentSdk = s.agentSdk
  /\ call = [c \in Clients |-> NoCall]
  /\ at = [c \in Clients |-> "idle"]
  /\ held = [c \in Clients |-> NoEntries]
  /\ serial = Decoded(file)
  /\ stale = {} /\ raced = FALSE /\ cut = FALSE

-----------------------------------------------------------------------------
(* The operations.  A client starts one, and finds its end in at[c]: "done" *)
(* with the answer in held[c], or "threw".                                 *)

\* One step of c's operation that leaves all files alone.
Steps(c, next, entries) ==
  /\ at' = [at EXCEPT ![c] = next]
  /\ held' = [held EXCEPT ![c] = entries]
  /\ UNCHANGED <<file, openCode, agentSdk, call, serial, raced, cut>>

Start(c, op, p, auth) ==
  /\ call' = [call EXCEPT ![c] = [op |-> op, provider |-> p, auth |-> auth]]
  /\ at' = [at EXCEPT ![c] = IF op = "ensure" THEN "ensure" ELSE "read"]
  /\ held' = [held EXCEPT ![c] = NoEntries]
  /\ UNCHANGED <<file, openCode, agentSdk, serial, stale, raced, cut>>

\* The client takes the answer and goes on without an operation.
Taken(c) ==
  /\ at[c] \in {"done", "threw"}
  /\ call' = [call EXCEPT ![c] = NoCall]
  /\ at' = [at EXCEPT ![c] = "idle"]
  /\ held' = [held EXCEPT ![c] = NoEntries]
  /\ UNCHANGED <<file, openCode, agentSdk, serial, stale, raced, cut>>

\* What the file says is read whole; a text that is none throws.
Reads(c, next, entries) ==
  IF file \in {Empty, Garbled} THEN Steps(c, "threw", NoEntries)
                               ELSE Steps(c, next, entries)

\* ensureFileAuthStore copies the older file when there is none.
Ensure(c) ==
  /\ at[c] = "ensure"
  /\ LET copied == Decoded(agentSdk)
     IN  IF file = Missing /\ copied # NoEntries
         THEN Steps(c, "truncate", copied)
         ELSE Steps(c, "done", NoEntries)
  /\ stale' = stale \ {c}

\* Mutant: the credentials of the others are not carried over.
OnlyOwn(c) == [NoEntries EXCEPT ![call[c].provider] = call[c].auth]

\* Mutant: delete removes the id it was given, which is not the one entries
\* are kept under.
RawIdDeleted(c) ==
  IF call[c].op = "delete" THEN Decoded(file)
  ELSE [Decoded(file) EXCEPT ![call[c].provider] = call[c].auth]

\* The entries that set and delete write.
Changed(c) == [Decoded(file) EXCEPT ![call[c].provider] = call[c].auth]

Read(c) ==
  /\ at[c] = "read"
  /\ stale' = stale \ {c}
  /\ \/ /\ call[c].op \in {"set", "delete"}
        /\ Reads(c, "truncate", Changed(c))
     \/ /\ call[c].op = "get"
        /\ Reads(c, IF Decoded(file)[call[c].provider] = None THEN "fallback" ELSE "done",
                 Decoded(file))
     \/ /\ call[c].op = "getAll"
        /\ Reads(c, "fallback", Decoded(file))

\* What OpenCode's file adds to the entries read.
Merged(c) ==
  [p \in Providers |-> IF held[c][p] = None THEN Decoded(openCode)[p] ELSE held[c][p]]

ReadFallback(c) ==
  /\ at[c] = "fallback"
  /\ \/ /\ call[c].op = "get"
        /\ Steps(c, IF Decoded(openCode)[call[c].provider] = None THEN "done" ELSE "reread",
                 held[c])
     \/ /\ call[c].op = "getAll"
        /\ Steps(c, IF Merged(c) = held[c] THEN "done" ELSE "truncate", Merged(c))
  /\ UNCHANGED stale

\* The import reads its own file again, for the other entries only: that there
\* were no credentials was true of the first reading.
Reread(c) ==
  /\ at[c] = "reread"
  /\ UNCHANGED stale
  /\ Reads(c, "truncate",
           [Decoded(file) EXCEPT ![call[c].provider] = Decoded(openCode)[call[c].provider]])

\* writeFile opens the file for writing: its text is gone.
Truncate(c) ==
  /\ at[c] = "truncate"
  /\ file' = Empty
  /\ at' = [at EXCEPT ![c] = "write"]
  /\ UNCHANGED <<openCode, agentSdk, call, held, serial, stale, raced, cut>>

\* The entries as this operation alone would change them.
Effect(c, entries) ==
  CASE call[c].op \in {"set", "delete"} -> [entries EXCEPT ![call[c].provider] = call[c].auth]
    [] call[c].op = "get" -> [entries EXCEPT ![call[c].provider] = held[c][call[c].provider]]
    [] OTHER -> [p \in Providers |-> IF entries[p] = None THEN held[c][p] ELSE entries[p]]

\* The text is written from the start of the file: where another client has
\* written since, the end of a longer text stays.
Write(c) ==
  /\ at[c] = "write"
  /\ file' \in {held[c]} \cup (IF file \in {Empty, held[c]} THEN {} ELSE {Garbled})
  /\ at' = [at EXCEPT ![c] = "done"]
  /\ serial' = Effect(c, serial)
  /\ stale' = (stale \cup {d \in Clients : at[d] \in {"fallback", "reread", "truncate", "write"}}) \ {c}
  /\ raced' = (raced \/ c \in stale)
  /\ UNCHANGED <<openCode, agentSdk, call, held, cut>>

StoreStep(c) == Ensure(c) \/ Read(c) \/ ReadFallback(c) \/ Reread(c) \/ Truncate(c) \/ Write(c)

\* The client's process ends, in whatever it was doing.
StoreCrash(c) ==
  /\ cut' = (cut \/ at[c] = "write")
  /\ at' = [at EXCEPT ![c] = "idle"]
  /\ call' = [call EXCEPT ![c] = NoCall]
  /\ held' = [held EXCEPT ![c] = NoEntries]
  /\ stale' = stale \ {c}
  /\ UNCHANGED <<file, openCode, agentSdk, serial, raced>>

\* The answer of get to client c.
Answer(c) == held[c][call[c].provider]

-----------------------------------------------------------------------------

\* Unless writes overlapped or were cut off, the file holds what the operations
\* would have left had each been made at once, and can be read: no set, delete
\* or import of one provider touches another (createFileAuthStore).
SerialStore ==
  \/ raced \/ cut
  \/ file # Missing /\ file \notin {Empty, Garbled} /\ Decoded(file) = serial
  \/ file = Missing /\ serial = NoEntries
  \/ file = Empty /\ \E c \in Clients : at[c] = "write"
=============================================================================
