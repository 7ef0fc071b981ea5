----------------------------- MODULE Credentials -----------------------------
(***************************************************************************)
(* Who uses the store of credentials: requests to Codex, which refresh an  *)
(* expired token first; requests to Copilot; logins by browser and by      *)
(* device code; logouts.  The server that issues tokens is external: a     *)
(* refresh may replace the refresh token, and the old one is then refused. *)
(***************************************************************************)
EXTENDS AuthStore

CONSTANTS
  ApiKey,      \* credentials of kind "api"
  MaxSessions, \* bound: logins that the server grants
  MaxTokens,   \* bound: refreshes of one session
  MaxTasks,    \* bound: tasks started
  MaxCrashes,  \* bound: crashes of clients
  MaxCallbacks \* bound: codes exchanged at one time by one browser login

VARIABLES
  task,    \* of each client: what it does
  stage,   \* of each client: how far that is
  auth,    \* of each client: the credentials it is about to refresh or store
  login,   \* of each client: the local variables of startBrowserOAuth
  server,  \* of each session: its newest tokens
  started, crashes,
  unsure,  \* history: sessions whose newest token may not be stored
  gone,    \* history: sessions logged out of while nobody else held them
  refused  \* history: sessions granted to a login that had ended otherwise

vars == <<storeVars, task, stage, auth, login, server, started, crashes,
          unsure, gone, refused>>
historyVars == <<unsure, gone, refused>>

Sessions == 0..MaxSessions
OAuth(s, access, refresh) == [session |-> s, access |-> access, refresh |-> refresh]
IsOAuth(a) == a \notin {None, ApiKey}
SessionIs(a, s) == IsOAuth(a) /\ a.session = s

\* Session 0 is one that the files may hold at first, with the token its server takes.
ASSUME CredentialsAssumption ==
  /\ MaxSessions \in Nat /\ MaxTokens \in Nat /\ {"codex", "copilot"} \subseteq Providers
  /\ \A s \in Sessions, i, j \in 0..MaxTokens : OAuth(s, i, j) \in Auths \ {ApiKey}
  /\ \A s \in Stored : \A f \in {s.own, s.openCode, s.agentSdk} \ {Missing} :
       \A p \in Providers : f[p] # Foreign /\ IsOAuth(f[p]) => f[p].session = 0 /\ f[p].refresh \in {0, None}

DeviceTasks == {"codex-device", "copilot-device"}
NoLogin == [callback |-> "pending", exchanges |-> 0, listening |-> FALSE]

Init ==
  /\ StoreInit
  /\ task = [c \in Clients |-> "idle"] /\ stage = [c \in Clients |-> "idle"]
  /\ auth = [c \in Clients |-> None]
  /\ login = [c \in Clients |-> NoLogin]
  /\ server = <<[access |-> 0, refresh |-> 0]>>
  /\ started = 0 /\ crashes = 0
  /\ unsure = {} /\ gone = {} /\ refused = {}

Server(s) == server[s + 1]
NewSession == Len(server)

-----------------------------------------------------------------------------

Go(c, t, s) ==
  /\ task' = [task EXCEPT ![c] = t]
  /\ stage' = [stage EXCEPT ![c] = s]

Ends(c) == Go(c, "idle", "idle") /\ auth' = [auth EXCEPT ![c] = None]

Begins(c) ==
  /\ task[c] = "idle" /\ started < MaxTasks
  /\ started' = started + 1
  /\ UNCHANGED <<auth, server, crashes, historyVars>>

\* Tasks that cannot write are left out: they change nothing.
StoreTask(c) ==
  /\ Begins(c)
  /\ UNCHANGED login
  /\ \/ Go(c, "codex", "get") /\ Start(c, "get", "codex", None)
     \/ \E p \in Providers : Go(c, "logout", "store") /\ Start(c, "delete", p, None)
     \/ /\ openCode # Missing
        /\ \/ Go(c, "copilot", "get") /\ Start(c, "get", "copilot", None)
           \/ Go(c, "list", "store") /\ Start(c, "getAll", None, None)
     \/ file = Missing /\ Go(c, "ensure", "store") /\ Start(c, "ensure", None, None)

\* Bound: one login at a time (a second browser login would find the port in
\* use), none when no session is left to be granted, and not the last task.
LoginBegins(c) ==
  /\ Begins(c)
  /\ started' < MaxTasks
  /\ NewSession <= MaxSessions
  /\ \A d \in Clients : task[d] \notin {"browser"} \cup DeviceTasks

\* startBrowserOAuth has the server listen and its timer run; the caller awaits complete().
StartBrowserOAuth(c) ==
  /\ LoginBegins(c)
  /\ Go(c, "browser", "waiting")
  /\ login' = [login EXCEPT ![c] = [NoLogin EXCEPT !.listening = TRUE]]
  /\ UNCHANGED storeVars

StartDeviceOAuth(c) ==
  /\ LoginBegins(c)
  /\ \E t \in DeviceTasks : Go(c, t, "polling")
  /\ UNCHANGED <<login, storeVars>>

InHand(d, s) ==
  SessionIs(auth[d], s) \/ SessionIs(call[d].auth, s) \/ \E p \in Providers : SessionIs(held[d][p], s)

\* The sessions that OpenCode's file holds too: a get imports them again.
Shared(s) ==
  openCode # Missing /\ \E p \in Providers : SessionIs(Decoded(openCode)[p], s)

\* The sessions whose credentials a logout or another login now removes under some id.
Dropped(c) ==
  {s \in Sessions : at[c] = "write" /\ \E p \in Providers :
     SessionIs(serial[p], s) /\ ~SessionIs(Effect(c, serial)[p], s)}

LoggedOut(c) ==
  {s \in Dropped(c) : call[c].op = "delete" /\ \A p \in Providers : ~SessionIs(Effect(c, serial)[p], s)}

\* One step of the client's store operation.
Store(c) ==
  /\ StoreStep(c)
  /\ gone' = gone \cup {s \in LoggedOut(c) :
                           ~Shared(s) /\ \A d \in Clients \ {c} : ~InHand(d, s)}
  /\ unsure' = unsure \cup {s \in Dropped(c) : Shared(s)}
  /\ UNCHANGED <<task, stage, auth, login, server, started, crashes, refused>>

\* Tasks that end with their operation: copilot requests read the credentials
\* and use them as they are, whatever their expiry.
StoreTaskEnds(c) ==
  /\ \/ task[c] \in {"copilot", "logout", "list", "ensure"}
     \/ task[c] = "codex" /\ stage[c] = "set"
     \/ task[c] \in {"browser"} \cup DeviceTasks /\ stage[c] = "set"
  /\ unsure' = IF at[c] = "threw" /\ IsOAuth(auth[c])
               THEN unsure \cup {auth[c].session} ELSE unsure
  /\ Taken(c) /\ Ends(c)
  /\ login' = [login EXCEPT ![c] = NoLogin]
  /\ UNCHANGED <<server, started, crashes, gone, refused>>

MayRefresh(a) == IsOAuth(a) /\ a.refresh # None

\* resolveCodexAuth has its credentials: it fails without any, uses them if it
\* can, and sends the refresh token if the clock is past their expiry.
Resolved(c) ==
  /\ task[c] = "codex" /\ stage[c] = "get"
  /\ \/ Ends(c)
     \/ /\ at[c] = "done" /\ MayRefresh(Answer(c))
        /\ Go(c, "codex", "refresh") /\ auth' = [auth EXCEPT ![c] = Answer(c)]
  /\ Taken(c)
  /\ UNCHANGED <<login, server, started, crashes, historyVars>>

\* Mutant: the answer's refresh token is dropped.
KeepsRefreshToken(a, fresh) == OAuth(a.session, fresh.access, a.refresh)

\* The credentials with the tokens of the answer.
Refreshed(a, fresh) == OAuth(a.session, fresh.access, fresh.refresh)

\* The server takes a refresh token that is the newest, and may replace it.
Accepted(s, rotates) ==
  [access |-> Server(s).access + 1, refresh |-> Server(s).refresh + IF rotates THEN 1 ELSE 0]

RefreshAnswered(c) ==
  /\ stage[c] = "refresh"
  /\ LET s == auth[c].session
     IN  IF auth[c].refresh # Server(s).refresh
         THEN /\ Ends(c)
              /\ UNCHANGED <<storeVars, server, unsure>>
         ELSE \E rotates, arrives \in BOOLEAN :
              LET fresh == Accepted(s, rotates)
                  updated == Refreshed(auth[c], fresh)
              IN  /\ Server(s).access < MaxTokens
                  /\ server' = [server EXCEPT ![s + 1] = fresh]
                  /\ unsure' = IF ~arrives \/ \E d \in Clients \ {c} : stage[d] = "set" /\ SessionIs(auth[d], s)
                               THEN unsure \cup {s} ELSE unsure
                  /\ IF arrives
                     THEN /\ Go(c, "codex", "set")
                          /\ auth' = [auth EXCEPT ![c] = updated]
                          /\ Start(c, "set", "codex", updated)
                     ELSE Ends(c) /\ UNCHANGED storeVars
  /\ UNCHANGED <<login, started, crashes, gone, refused>>

RefreshFails(c) ==
  /\ stage[c] = "refresh"
  /\ Ends(c)
  /\ UNCHANGED <<storeVars, login, server, started, crashes, historyVars>>

-----------------------------------------------------------------------------
(* Logins.                                                                 *)

\* Mutant: the last outcome counts.
LastSettled(l, outcome) == [l EXCEPT !.callback = outcome]

\* A promise settles once.
Settled(l, outcome) == IF l.callback = "pending" THEN [l EXCEPT !.callback = outcome] ELSE l

Browsing(c) == task[c] = "browser"

OnlyLogin(c, l) ==
  /\ login' = [login EXCEPT ![c] = l]
  /\ UNCHANGED <<storeVars, task, stage, auth, server, started, crashes, historyVars>>

\* The browser is sent to /auth/callback: with a code to exchange, or with an
\* error, no code or another state.
Callback(c) ==
  /\ Browsing(c) /\ login[c].listening /\ login[c].exchanges < MaxCallbacks
  /\ \/ OnlyLogin(c, [login[c] EXCEPT !.exchanges = @ + 1])
     \/ OnlyLogin(c, Settled(login[c], "rejected"))

\* Mutant: the timer runs only until the first code has come.
TimerCleared(c) == login[c].exchanges = 0
TimerRuns(c) == login[c].listening

LoginTimeout(c) ==
  /\ Browsing(c) /\ stage[c] = "waiting" /\ TimerRuns(c)
  /\ OnlyLogin(c, Settled(login[c], "rejected"))

\* A request of /cancel rejects; the caller's cancel() also stops the server.
Cancel(c) ==
  /\ Browsing(c)
  /\ \/ login[c].listening /\ OnlyLogin(c, Settled(login[c], "rejected"))
     \/ OnlyLogin(c, [Settled(login[c], "rejected") EXCEPT !.listening = FALSE])

\* The server grants a session for a code, or the exchange fails.
Granted ==
  /\ NewSession <= MaxSessions
  /\ server' = Append(server, [access |-> 0, refresh |-> 0])

ExchangeEnds(c) ==
  /\ Browsing(c) /\ login[c].exchanges > 0
  /\ LET ended == [login[c] EXCEPT !.exchanges = @ - 1]
     IN  \/ OnlyLogin(c, Settled(ended, "rejected"))
         \/ /\ Granted
            /\ login' = [login EXCEPT ![c] = Settled(ended, "resolved")]
            /\ auth' = IF Settled(ended, "resolved").callback = "resolved" /\ auth[c] = None
                       THEN [auth EXCEPT ![c] = OAuth(NewSession, 0, 0)] ELSE auth
            /\ refused' = IF login[c].callback = "pending" THEN refused
                          ELSE refused \cup {NewSession}
            /\ UNCHANGED <<storeVars, task, stage, started, crashes, unsure, gone>>

\* complete(): the tokens are written, or it throws; the server is stopped either way.
Complete(c) ==
  /\ Browsing(c) /\ stage[c] = "waiting"
  /\ \/ /\ login[c].callback = "resolved"
        /\ Go(c, "browser", "set") /\ Start(c, "set", "codex", auth[c])
        /\ UNCHANGED <<auth, login>>
     \/ /\ login[c].callback = "rejected"
        /\ Ends(c) /\ login' = [login EXCEPT ![c] = NoLogin]
        /\ UNCHANGED storeVars
  /\ UNCHANGED <<server, started, crashes, historyVars>>

\* Polling goes on while the user has not decided.  Copilot's server answers
\* with the token; Codex's with a code that is exchanged.
DeviceDecides(c) ==
  /\ stage[c] = "polling"
  /\ \/ /\ Granted
        /\ LET granted == OAuth(NewSession, 0, 0)
           IN  /\ auth' = [auth EXCEPT ![c] = granted]
               /\ Start(c, "set", IF task[c] = "codex-device" THEN "codex" ELSE "copilot", granted)
        /\ Go(c, task[c], "set")
     \/ Ends(c) /\ UNCHANGED <<storeVars, server>>
  /\ UNCHANGED <<login, started, crashes, historyVars>>

-----------------------------------------------------------------------------

\* A crash where it leaves something half done: elsewhere the task might as
\* well have ended.
Crash(c) ==
  /\ at[c] = "write" \/ (stage[c] = "set" /\ at[c] # "done")
  /\ crashes < MaxCrashes
  /\ crashes' = crashes + 1
  /\ StoreCrash(c) /\ Ends(c)
  /\ login' = [login EXCEPT ![c] = NoLogin]
  /\ unsure' = IF stage[c] = "set" THEN unsure \cup {auth[c].session} ELSE unsure
  /\ UNCHANGED <<server, started, gone, refused>>

Progress(c) ==
  \/ Store(c) \/ StoreTaskEnds(c) \/ Resolved(c) \/ RefreshAnswered(c) \/ RefreshFails(c)
  \/ LoginTimeout(c) \/ Complete(c) \/ DeviceDecides(c)

Next ==
  \E c \in Clients :
    \/ Progress(c) \/ Crash(c)
    \/ StoreTask(c) \/ StartBrowserOAuth(c) \/ StartDeviceOAuth(c)
    \/ Callback(c) \/ Cancel(c) \/ ExchangeEnds(c)

\* Files are read and written, servers answer or the connection fails, a timer
\* fires, and whoever was shown a device code decides in the end.
Fairness == \A c \in Clients : WF_vars(Progress(c))

Spec == Init /\ [][Next]_vars /\ Fairness

-----------------------------------------------------------------------------

Readable == file \notin {Missing, Empty, Garbled}

\* Between refreshes the store holds the refresh token that the server takes,
\* unless two refreshes of the session overlapped, an answer was lost, its
\* writer crashed or writes of the file did, or what OpenCode's file holds was
\* imported once more: resolveCodexAuth then can go on for ever without
\* another login.
StoredTokenWorks ==
  ~raced /\ ~cut /\ Readable =>
    LET a == Decoded(file)["codex"]
    IN  IsOAuth(a) /\ a.refresh # None /\ a.session \notin unsure
        /\ (\A c \in Clients : stage[c] = "set" => ~SessionIs(auth[c], a.session))
        => a.refresh = Server(a.session).refresh

\* Credentials that were deleted do not come back, unless a client had them in
\* hand at that moment or OpenCode's file still has them.
LogoutHolds ==
  ~raced /\ ~cut /\ Readable =>
    \A p \in Providers, s \in gone : ~SessionIs(Decoded(file)[p], s)

\* What a login is granted after it was cancelled, timed out or failed is never
\* stored, nor is a second grant to the same login.
CancelHolds ==
  Readable => \A p \in Providers, s \in refused : ~SessionIs(Decoded(file)[p], s)

\* Every request, login and logout ends, and no login leaves its port bound.
TasksEnd ==
  \A c \in Clients : task[c] # "idle" ~> task[c] = "idle" /\ ~login[c].listening
=============================================================================
