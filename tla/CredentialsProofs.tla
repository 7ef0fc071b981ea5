-------------------------- MODULE CredentialsProofs --------------------------
(***************************************************************************)
(* What the file of credentials is worth: what a login is granted too late *)
(* reaches no file, the file holds what its operations would leave one     *)
(* after the other, a session that was logged out does not come back, and  *)
(* the refresh token of Codex is the one its server takes, each with the   *)
(* exceptions the property names, for any number of clients, providers,    *)
(* sessions, tasks and crashes.                                            *)
(*                                                                         *)
(* CancelInv says of everything a client holds, and of every file, that    *)
(* its sessions have been granted and not refused; a session that is       *)
(* granted is new.  SerialInv says of every client that has read since the *)
(* last write what it holds of the serial entries; the invariants of the   *)
(* tokens build on it.                                                     *)
(***************************************************************************)
EXTENDS Credentials, TLAPS

Tokens == [access : Nat, refresh : Nat]
Logins == [callback : {"pending", "resolved", "rejected"}, exchanges : Nat, listening : BOOLEAN]

\* The sessions that credentials may be of.
Good == (0..(Len(server) - 1)) \ refused
Clean(a, sessions) == IsOAuth(a) => a.session \in sessions
CleanEntries(f, sessions) == \A p \in Providers : f[p] # Foreign => Clean(f[p], sessions)

Shape ==
  /\ server \in Seq(Tokens) /\ refused \subseteq 0..(Len(server) - 1)
  /\ DOMAIN call = Clients /\ DOMAIN at = Clients /\ DOMAIN held = Clients
  /\ DOMAIN task = Clients /\ DOMAIN stage = Clients /\ DOMAIN auth = Clients /\ login \in [Clients -> Logins]

StoreInv ==
  /\ Readable => CleanEntries(file, Good)
  /\ openCode # Missing => CleanEntries(openCode, Good)
  /\ agentSdk # Missing => CleanEntries(agentSdk, Good)
  /\ \A c \in Clients : /\ Clean(call[c].auth, Good)
                        /\ \A p \in Providers : Clean(held[c][p], Good)

LoginInv ==
  \A c \in Clients :
    /\ Clean(auth[c], Good)
    /\ stage[c] = "refresh" => IsOAuth(auth[c])
    /\ stage[c] = "get" => call[c].provider \in Providers
    /\ task[c] = "browser" => stage[c] \in {"waiting", "set"}
    /\ login[c].callback = "resolved" => task[c] = "browser" /\ auth[c] # None

CancelInv == Shape /\ StoreInv /\ LoginInv

\* What a file says is clean, if the file is.
LEMMA DecodedClean ==
  ASSUME NEW f, NEW K, f # Missing => CleanEntries(f, K)
  PROVE  \A p \in Providers : Clean(Decoded(f)[p], K)
BY DEF Decoded, Clean, CleanEntries, IsOAuth

\* Sessions that are added spoil nothing.
LEMMA MoreSessions ==
  ASSUME NEW a, NEW K, NEW L, K \subseteq L, Clean(a, K)
  PROVE  Clean(a, L)
BY DEF Clean

LEMMA StepsKeeps ==
  ASSUME NEW c \in Clients, NEW next, NEW entries, Shape, StoreInv, Steps(c, next, entries),
         \A p \in Providers : Clean(entries[p], Good), UNCHANGED <<server, refused>>
  PROVE  StoreInv'
BY DEF Steps, Shape, StoreInv, Good, Readable

\* What is there stays clean when sessions are added.
LEMMA FilesKeep ==
  ASSUME StoreInv, UNCHANGED <<file, openCode, agentSdk>>, Good \subseteq Good'
  PROVE  /\ (Readable => CleanEntries(file, Good))'
         /\ (openCode # Missing => CleanEntries(openCode, Good))'
         /\ (agentSdk # Missing => CleanEntries(agentSdk, Good))'
<1>1. \A f : CleanEntries(f, Good) => CleanEntries(f, Good')
  BY DEF CleanEntries, Clean
<1> QED BY <1>1 DEF StoreInv, Readable

LEMMA StartKeeps ==
  ASSUME NEW c \in Clients, NEW op, NEW p, NEW a, Shape, StoreInv, Start(c, op, p, a),
         Good \subseteq Good', Clean(a, Good')
  PROVE  StoreInv'
<1>1. \A q \in Providers : Clean(NoEntries[q], Good')
  BY DEF NoEntries, Clean, IsOAuth
<1>2. UNCHANGED <<file, openCode, agentSdk>>
  BY DEF Start
<1>3. \A d \in Clients : Clean(call'[d].auth, Good') /\ \A q \in Providers : Clean(held'[d][q], Good')
  BY <1>1, MoreSessions DEF Start, Shape, StoreInv
<1> QED BY <1>2, <1>3, FilesKeep DEF StoreInv

LEMMA LeavesKeeps ==
  ASSUME NEW c \in Clients, Shape, StoreInv, Taken(c) \/ StoreCrash(c), UNCHANGED <<server, refused>>
  PROVE  StoreInv'
<1>1. Clean(NoCall.auth, Good) /\ \A q \in Providers : Clean(NoEntries[q], Good)
  BY DEF NoEntries, NoCall, Clean, IsOAuth
<1> QED BY <1>1 DEF Taken, StoreCrash, Shape, StoreInv, Good, Readable

LEMMA StoreStepKeeps ==
  ASSUME NEW c \in Clients, Shape, StoreInv, StoreStep(c), UNCHANGED <<server, refused>>
  PROVE  StoreInv'
<1>1. \A p \in Providers : Clean(NoEntries[p], Good) /\ Clean(held[c][p], Good)
  BY DEF NoEntries, Clean, IsOAuth, StoreInv
<1>2. /\ \A p \in Providers : Clean(Decoded(openCode)[p], Good)
      /\ \A p \in Providers : Clean(Decoded(agentSdk)[p], Good)
      /\ file \notin {Empty, Garbled} => \A p \in Providers : Clean(Decoded(file)[p], Good)
  BY DecodedClean DEF StoreInv, Readable
<1>3. CASE Ensure(c)
  BY <1>1, <1>2, <1>3, StepsKeeps DEF Ensure
<1>4. CASE Read(c)
  <2>1. file \notin {Empty, Garbled} => \A p \in Providers : Clean(Changed(c)[p], Good)
    BY <1>2 DEF Changed, Decoded, StoreInv
  <2> QED BY <1>1, <1>2, <1>4, <2>1, StepsKeeps DEF Read, Reads
<1>5. CASE ReadFallback(c)
  <2>1. \A p \in Providers : Clean(Merged(c)[p], Good)
    BY <1>1, <1>2 DEF Merged
  <2> QED BY <1>1, <1>5, <2>1, StepsKeeps DEF ReadFallback
<1>6. CASE Reread(c)
  <2> DEFINE imported == [Decoded(file) EXCEPT ![call[c].provider] = Decoded(openCode)[call[c].provider]]
  <2>1. file \notin {Empty, Garbled} => \A p \in Providers : Clean(imported[p], Good)
    BY <1>2 DEF Decoded
  <2> QED BY <1>1, <1>6, <2>1, StepsKeeps DEF Reread, Reads
<1>7. CASE Truncate(c)
  BY <1>7 DEF Truncate, StoreInv, Good, Readable
<1>8. CASE Write(c)
  BY <1>1, <1>8 DEF Write, StoreInv, Good, Readable, CleanEntries
<1> QED BY <1>3, <1>4, <1>5, <1>6, <1>7, <1>8 DEF StoreStep

-----------------------------------------------------------------------------

LEMMA LoginTypes ==
  /\ NoLogin \in Logins /\ NoLogin.callback = "pending"
  /\ [NoLogin EXCEPT !.listening = TRUE] \in Logins /\ [NoLogin EXCEPT !.listening = TRUE].callback = "pending"
<1>1. NoLogin \in Logins /\ NoLogin.callback = "pending"
  BY DEF NoLogin, Logins
<1>2. \A l \in Logins : [l EXCEPT !.listening = TRUE] \in Logins /\ [l EXCEPT !.listening = TRUE].callback = l.callback
  BY DEF Logins
<1> QED BY <1>1, <1>2

\* An operation is begun for a task with credentials that are clean.
LEMMA TaskBeginsKeeps ==
  ASSUME CancelInv, NEW c \in Clients, StoreTask(c) PROVE CancelInv'
<1>1. Clean(None, Good)
  BY DEF Clean, IsOAuth
<1>2. PICK op, p : Start(c, op, p, None) /\ (stage'[c] = "get" => p \in {"codex", "copilot"})
  BY DEF StoreTask, Go, CancelInv, Shape
<1>3. StoreInv'
  <2>1. Good' = Good
    BY DEF StoreTask, Begins, historyVars, Good
  <2> QED BY <1>1, <1>2, <2>1, StartKeeps DEF CancelInv
<1>4. LoginInv'
  <2>1. call'[c].provider = p /\ \A d \in Clients : d # c => call'[d] = call[d]
    BY <1>2 DEF Start, CancelInv, Shape
  <2>2. /\ stage'[c] \in {"get", "store"} /\ task'[c] # "browser"
        /\ task[c] = "idle"
        /\ \A d \in Clients : d # c => task'[d] = task[d] /\ stage'[d] = stage[d]
    BY DEF StoreTask, Begins, Go, CancelInv, Shape
  <2>3. UNCHANGED <<auth, login, server, refused>>
    BY DEF StoreTask, Begins, historyVars
  <2> QED BY <1>2, <2>1, <2>2, <2>3, CredentialsAssumption DEF LoginInv, CancelInv, Good
<1>5. Shape'
  BY <1>2 DEF StoreTask, Begins, Go, historyVars, Start, CancelInv, Shape
<1> QED BY <1>3, <1>4, <1>5 DEF CancelInv

LEMMA LoginBeginsKeeps ==
  ASSUME CancelInv, NEW c \in Clients, StartBrowserOAuth(c) \/ StartDeviceOAuth(c) PROVE CancelInv'
<1>1. UNCHANGED <<file, openCode, agentSdk, call, at, held, auth, server, refused>> /\ task[c] = "idle"
  BY DEF StartBrowserOAuth, StartDeviceOAuth, LoginBegins, Begins, historyVars, storeVars
<1>2. \/ task'[c] = "browser" /\ stage'[c] = "waiting" /\ login'[c].callback = "pending"
      \/ task'[c] \in DeviceTasks /\ stage'[c] = "polling" /\ login'[c] = login[c]
  <2>1. CASE StartBrowserOAuth(c)
    BY <2>1, LoginTypes DEF StartBrowserOAuth, Go, CancelInv, Shape
  <2>2. CASE StartDeviceOAuth(c)
    BY <2>2 DEF StartDeviceOAuth, Go, CancelInv, Shape
  <2> QED BY <2>1, <2>2
<1>3. /\ \A d \in Clients \ {c} : task'[d] = task[d] /\ stage'[d] = stage[d] /\ login'[d] = login[d]
      /\ DOMAIN task' = Clients /\ DOMAIN stage' = Clients /\ login' \in [Clients -> Logins]
  <2>1. CASE StartBrowserOAuth(c)
    BY <2>1, LoginTypes DEF StartBrowserOAuth, Go, CancelInv, Shape
  <2>2. CASE StartDeviceOAuth(c)
    BY <2>2 DEF StartDeviceOAuth, Go, CancelInv, Shape
  <2> QED BY <2>1, <2>2
<1>4. LoginInv'
  BY <1>1, <1>2, <1>3 DEF DeviceTasks, CancelInv, LoginInv, Good
<1> QED BY <1>1, <1>3, <1>4 DEF CancelInv, Shape, StoreInv, Good, Readable

\* A task ends and forgets what it had.
LEMMA EndsKeeps ==
  ASSUME CancelInv, NEW c \in Clients, Ends(c), StoreInv', DOMAIN call' = Clients, DOMAIN at' = Clients, DOMAIN held' = Clients,
         \A d \in Clients \ {c} : call'[d] = call[d],
         UNCHANGED <<server, refused>>,
         \/ login' = [login EXCEPT ![c] = NoLogin]
         \/ login' = login /\ login[c].callback # "resolved"
  PROVE  CancelInv'
<1>1. Clean(None, Good)
  BY DEF Clean, IsOAuth
<1>2. /\ stage'[c] = "idle" /\ task'[c] = "idle" /\ auth'[c] = None /\ login'[c].callback # "resolved"
      /\ \A d \in Clients \ {c} : UNCHANGED <<stage[d], task[d], auth[d], login[d]>>
      /\ DOMAIN task' = Clients /\ DOMAIN stage' = Clients /\ DOMAIN auth' = Clients
      /\ login' \in [Clients -> Logins]
  BY LoginTypes DEF Ends, Go, CancelInv, Shape
<1>3. LoginInv'
  BY <1>1, <1>2 DEF CancelInv, LoginInv, Good
<1> QED BY <1>2, <1>3 DEF CancelInv, Shape

LEMMA LeftClients ==
  ASSUME Shape, NEW c \in Clients, Taken(c) \/ StoreCrash(c)
  PROVE  /\ DOMAIN call' = Clients /\ DOMAIN at' = Clients /\ DOMAIN held' = Clients
         /\ \A d \in Clients \ {c} : call'[d] = call[d]
BY DEF Taken, StoreCrash, Shape

LEMMA TaskEndsKeeps ==
  ASSUME CancelInv, NEW c \in Clients, StoreTaskEnds(c) \/ Crash(c) PROVE CancelInv'
<1>1. /\ Taken(c) \/ StoreCrash(c)
      /\ Ends(c) /\ login' = [login EXCEPT ![c] = NoLogin] /\ UNCHANGED <<server, refused>>
  BY DEF StoreTaskEnds, Crash
<1> QED BY <1>1, LeftClients, LeavesKeeps, EndsKeeps DEF CancelInv

\* A refresh sends what the store answered.
LEMMA ResolvedKeeps ==
  ASSUME CancelInv, NEW c \in Clients, Resolved(c) PROVE CancelInv'
<1>1. /\ Taken(c) /\ task[c] = "codex" /\ stage[c] = "get" /\ UNCHANGED <<login, server, refused>>
      /\ login[c].callback # "resolved"
  BY DEF Resolved, historyVars, CancelInv, LoginInv
<1>2. StoreInv'
  BY <1>1, LeavesKeeps DEF CancelInv
<1>3. CASE Ends(c)
  BY <1>1, <1>2, <1>3, LeftClients, EndsKeeps DEF CancelInv
<1>4. CASE MayRefresh(Answer(c)) /\ Go(c, "codex", "refresh") /\ auth' = [auth EXCEPT ![c] = Answer(c)]
  <2>1. Clean(Answer(c), Good) /\ IsOAuth(Answer(c))
    BY <1>1, <1>4 DEF Answer, MayRefresh, CancelInv, StoreInv, LoginInv
  <2>2. /\ stage'[c] = "refresh" /\ task'[c] = "codex" /\ auth'[c] = Answer(c)
        /\ \A d \in Clients \ {c} : UNCHANGED <<stage[d], task[d], auth[d], call[d]>>
        /\ DOMAIN task' = Clients /\ DOMAIN stage' = Clients /\ DOMAIN auth' = Clients
    BY <1>1, <1>4, LeftClients DEF Go, CancelInv, Shape
  <2>3. LoginInv'
    BY <1>1, <2>1, <2>2 DEF CancelInv, LoginInv, Good
  <2> QED BY <1>1, <1>2, <2>2, <2>3, LeftClients DEF CancelInv, Shape
<1> QED BY <1>3, <1>4 DEF Resolved

\* A task that goes on to store credentials it was given.
LEMMA SetKeeps ==
  ASSUME CancelInv, NEW c \in Clients, NEW t, NEW p, NEW a, Go(c, t, "set"), Start(c, "set", p, a),
         server' \in Seq(Tokens), refused' \subseteq 0..(Len(server') - 1),
         Good \subseteq Good', Clean(a, Good'), login' = login,
         DOMAIN auth' = Clients, auth'[c] = a, \A d \in Clients \ {c} : auth'[d] = auth[d],
         login[c].callback = "resolved" => t = "browser" /\ a # None
  PROVE  CancelInv'
<1>1. StoreInv'
  BY StartKeeps DEF CancelInv
<1>2. /\ stage'[c] = "set" /\ task'[c] = t /\ auth'[c] = a
      /\ \A d \in Clients \ {c} : UNCHANGED <<stage[d], task[d], auth[d], call[d]>>
      /\ DOMAIN task' = Clients /\ DOMAIN stage' = Clients /\ DOMAIN auth' = Clients
      /\ DOMAIN call' = Clients /\ DOMAIN at' = Clients /\ DOMAIN held' = Clients
  BY DEF Go, Start, CancelInv, Shape
<1>3. \A d \in Clients : Clean(auth'[d], Good')
  BY <1>2, MoreSessions DEF CancelInv, LoginInv
<1>4. LoginInv'
  BY <1>2, <1>3 DEF CancelInv, LoginInv
<1> QED BY <1>1, <1>2, <1>4 DEF CancelInv, Shape

-----------------------------------------------------------------------------

LEMMA RefreshKeeps ==
  ASSUME CancelInv, NEW c \in Clients, RefreshAnswered(c) \/ RefreshFails(c) PROVE CancelInv'
<1>1. /\ stage[c] = "refresh" /\ login' = login /\ refused' = refused /\ IsOAuth(auth[c])
      /\ login[c].callback # "resolved"
  BY DEF RefreshAnswered, RefreshFails, historyVars, CancelInv, LoginInv
<1>2. CASE Ends(c) /\ UNCHANGED <<storeVars, server>>
  <2>1. UNCHANGED <<file, openCode, agentSdk, call, at, held>> /\ Good' = Good
    BY <1>1, <1>2 DEF storeVars, Good
  <2>2. StoreInv' /\ DOMAIN call' = Clients /\ DOMAIN at' = Clients /\ DOMAIN held' = Clients
    BY <2>1 DEF CancelInv, StoreInv, Shape, Readable
  <2> QED BY <1>1, <1>2, <2>1, <2>2, EndsKeeps
<1>3. ASSUME NEW rotates \in BOOLEAN, server' = [server EXCEPT ![auth[c].session + 1] = Accepted(auth[c].session, rotates)]
      PROVE  server' \in Seq(Tokens) /\ Good' = Good /\ Len(server') = Len(server)
  <2>1. auth[c].session \in 0..(Len(server) - 1)
    BY <1>1 DEF CancelInv, LoginInv, Clean, Good
  <2>2. Server(auth[c].session) \in Tokens
    BY <2>1 DEF Server, CancelInv, Shape
  <2>3. Accepted(auth[c].session, rotates) \in Tokens
    BY <2>2 DEF Accepted, Tokens
  <2>4. server' \in Seq(Tokens) /\ Len(server') = Len(server)
    BY <1>3, <2>1, <2>3 DEF CancelInv, Shape
  <2> QED BY <1>1, <2>4 DEF Good
<1>4. ASSUME NEW rotates \in BOOLEAN,
             server' = [server EXCEPT ![auth[c].session + 1] = Accepted(auth[c].session, rotates)],
             NEW fresh, fresh = Accepted(auth[c].session, rotates),
             Go(c, "codex", "set"), auth' = [auth EXCEPT ![c] = Refreshed(auth[c], fresh)],
             Start(c, "set", "codex", Refreshed(auth[c], fresh))
      PROVE  CancelInv'
  <2>1. Refreshed(auth[c], fresh).session = auth[c].session
    BY DEF Refreshed, OAuth
  <2>2. Clean(Refreshed(auth[c], fresh), Good')
    BY <1>1, <1>3, <1>4, <2>1 DEF CancelInv, LoginInv, Clean
  <2>3. DOMAIN auth' = Clients /\ auth'[c] = Refreshed(auth[c], fresh) /\ \A d \in Clients \ {c} : auth'[d] = auth[d]
    BY <1>4 DEF CancelInv, Shape
  <2> QED BY <1>1, <1>3, <1>4, <2>2, <2>3, SetKeeps DEF CancelInv, Shape
<1>5. ASSUME NEW rotates \in BOOLEAN, Ends(c), UNCHANGED storeVars,
             server' = [server EXCEPT ![auth[c].session + 1] = Accepted(auth[c].session, rotates)]
      PROVE  CancelInv'
  <2>1. UNCHANGED <<file, openCode, agentSdk, call, at, held>> /\ Good' = Good /\ server' \in Seq(Tokens) /\ Len(server') = Len(server)
    BY <1>3, <1>5 DEF storeVars
  <2>2. Clean(None, Good)
    BY DEF Clean, IsOAuth
  <2>3. StoreInv'
    BY <2>1 DEF CancelInv, StoreInv, Readable
  <2>4. /\ stage'[c] = "idle" /\ task'[c] = "idle" /\ auth'[c] = None
        /\ \A d \in Clients \ {c} : UNCHANGED <<stage[d], task[d], auth[d]>>
        /\ DOMAIN task' = Clients /\ DOMAIN stage' = Clients /\ DOMAIN auth' = Clients
    BY <1>5 DEF Ends, Go, CancelInv, Shape
  <2>5. LoginInv'
    BY <1>1, <2>1, <2>2, <2>4 DEF CancelInv, LoginInv
  <2> QED BY <1>1, <2>1, <2>3, <2>4, <2>5 DEF CancelInv, Shape
<1> QED BY <1>1, <1>2, <1>4, <1>5 DEF RefreshAnswered, RefreshFails

\* A login that has ended otherwise is never resolved.
LEMMA OnlyLoginKeeps ==
  ASSUME CancelInv, NEW c \in Clients, NEW l \in Logins, OnlyLogin(c, l), l.callback \in {login[c].callback, "rejected"}
  PROVE  CancelInv'
<1>1. UNCHANGED <<file, openCode, agentSdk, call, at, held, task, stage, auth, server, refused>>
  BY DEF OnlyLogin, storeVars, historyVars
<1>2. /\ login'[c] = l /\ \A d \in Clients \ {c} : login'[d] = login[d]
      /\ login' \in [Clients -> Logins]
  BY DEF OnlyLogin, CancelInv, Shape
<1>3. LoginInv'
  BY <1>1, <1>2 DEF CancelInv, LoginInv, Good
<1> QED BY <1>1, <1>2, <1>3 DEF CancelInv, Shape, StoreInv, Good, Readable

LEMMA SettledOnce ==
  ASSUME NEW l \in Logins, NEW outcome \in {"resolved", "rejected"}
  PROVE  /\ Settled(l, outcome) \in Logins
         /\ Settled(l, outcome).callback = IF l.callback = "pending" THEN outcome ELSE l.callback
BY DEF Settled, Logins

LEMMA BrowserKeeps ==
  ASSUME CancelInv, NEW c \in Clients, Callback(c) \/ LoginTimeout(c) \/ Cancel(c) PROVE CancelInv'
<1>1. login[c] \in Logins
  BY DEF CancelInv, Shape
<1>2. /\ Settled(login[c], "rejected") \in Logins
      /\ Settled(login[c], "rejected").callback \in {login[c].callback, "rejected"}
  BY <1>1, SettledOnce
<1>3. \A l \in Logins : [l EXCEPT !.listening = FALSE] \in Logins /\ [l EXCEPT !.listening = FALSE].callback = l.callback
  BY DEF Logins
<1>4. \A l \in Logins : [l EXCEPT !.exchanges = @ + 1] \in Logins /\ [l EXCEPT !.exchanges = @ + 1].callback = l.callback
  BY DEF Logins
<1>5. PICK l \in Logins : OnlyLogin(c, l) /\ l.callback \in {login[c].callback, "rejected"}
  BY <1>1, <1>2, <1>3, <1>4 DEF Callback, LoginTimeout, Cancel
<1> QED BY <1>5, OnlyLoginKeeps

\* A session that is granted is new.
LEMMA GrantedNew ==
  ASSUME Shape, Granted, refused' \in {refused, refused \cup {NewSession}}
  PROVE  /\ server' \in Seq(Tokens) /\ refused' \subseteq 0..(Len(server') - 1)
         /\ Good \subseteq Good'
         /\ refused' = refused => NewSession \in Good'
         /\ OAuth(NewSession, 0, 0).session = NewSession /\ OAuth(NewSession, 0, 0) \notin {None, ApiKey}
<1>1. server' \in Seq(Tokens) /\ Len(server') = Len(server) + 1 /\ Len(server) \in Nat
  BY DEF Shape, Granted, Tokens
<1>2. NewSession \in Sessions /\ NewSession \notin refused
  BY <1>1, CredentialsAssumption DEF Granted, NewSession, Sessions, Shape
<1>3. NewSession = Len(server)
  BY DEF NewSession
<1>4. 0 \in 0..MaxTokens
  BY CredentialsAssumption
<1>5. OAuth(NewSession, 0, 0) \in Auths \ {ApiKey}
  BY <1>2, <1>4, CredentialsAssumption
<1>6. OAuth(NewSession, 0, 0).session = NewSession /\ OAuth(NewSession, 0, 0) \notin {None, ApiKey}
  BY <1>5, StoreAssumption DEF OAuth
<1> QED BY <1>1, <1>2, <1>3, <1>6 DEF Good, Shape

LEMMA ExchangeKeeps == ASSUME CancelInv, NEW c \in Clients, ExchangeEnds(c) PROVE CancelInv'
<1> DEFINE ended == [login[c] EXCEPT !.exchanges = @ - 1]
<1>1. login[c] \in Logins /\ login[c].exchanges > 0 /\ Browsing(c)
  BY DEF CancelInv, Shape, ExchangeEnds
<1>2. ended \in Logins /\ ended.callback = login[c].callback
  BY <1>1 DEF Logins
<1>3. CASE OnlyLogin(c, Settled(ended, "rejected"))
  BY <1>2, <1>3, SettledOnce, OnlyLoginKeeps
<1>4. CASE /\ Granted
           /\ login' = [login EXCEPT ![c] = Settled(ended, "resolved")]
           /\ auth' = IF Settled(ended, "resolved").callback = "resolved" /\ auth[c] = None
                      THEN [auth EXCEPT ![c] = OAuth(NewSession, 0, 0)] ELSE auth
           /\ refused' = IF login[c].callback = "pending" THEN refused
                         ELSE refused \cup {NewSession}
           /\ UNCHANGED <<storeVars, task, stage>>
  <2>1. UNCHANGED <<file, openCode, agentSdk, call, at, held, task, stage>>
    BY <1>4 DEF storeVars
  <2>2. /\ server' \in Seq(Tokens) /\ refused' \subseteq 0..(Len(server') - 1)
        /\ Good \subseteq Good'
        /\ login[c].callback = "pending" => Clean(OAuth(NewSession, 0, 0), Good')
        /\ OAuth(NewSession, 0, 0) # None
    BY <1>4, GrantedNew DEF CancelInv, Clean
  <2>3. Settled(ended, "resolved") \in Logins
        /\ Settled(ended, "resolved").callback = IF login[c].callback = "pending" THEN "resolved" ELSE login[c].callback
    BY <1>2, SettledOnce
  <2>4. login' \in [Clients -> Logins] /\ login'[c] = Settled(ended, "resolved")
        /\ \A d \in Clients \ {c} : login'[d] = login[d]
    BY <1>4, <2>3 DEF CancelInv, Shape
  <2>5. /\ DOMAIN auth' = Clients /\ \A d \in Clients \ {c} : auth'[d] = auth[d]
        /\ Clean(auth'[c], Good')
        /\ login'[c].callback = "resolved" => auth'[c] # None
    <3>1. CASE login[c].callback = "pending" /\ auth[c] = None
      BY <1>4, <2>2, <2>3, <2>4, <3>1 DEF CancelInv, Shape
    <3>2. CASE ~(login[c].callback = "pending" /\ auth[c] = None)
      <4>1. auth' = auth
        BY <1>4, <2>3, <3>2 DEF CancelInv, LoginInv
      <4> QED BY <2>2, <2>3, <2>4, <3>2, <4>1, MoreSessions DEF CancelInv, Shape, LoginInv
    <3> QED BY <3>1, <3>2
  <2>6. StoreInv'
    <3>1. \A d \in Clients : Clean(call[d].auth, Good') /\ \A p \in Providers : Clean(held[d][p], Good')
      BY <2>2, MoreSessions DEF CancelInv, StoreInv
    <3> QED BY <2>1, <2>2, <3>1, FilesKeep DEF CancelInv, StoreInv
  <2>7. LoginInv'
    <3>1. \A d \in Clients : Clean(auth'[d], Good')
      BY <2>2, <2>5, MoreSessions DEF CancelInv, LoginInv
    <3>2. stage[c] # "refresh"
      BY <1>1 DEF Browsing, CancelInv, LoginInv
    <3> QED BY <1>1, <2>1, <2>4, <2>5, <3>1, <3>2 DEF Browsing, CancelInv, LoginInv
  <2> QED BY <2>1, <2>2, <2>4, <2>5, <2>6, <2>7 DEF CancelInv, Shape
<1> QED BY <1>3, <1>4 DEF ExchangeEnds

LEMMA CompleteKeeps == ASSUME CancelInv, NEW c \in Clients, Complete(c) PROVE CancelInv'
<1>1. UNCHANGED <<server, refused>>
  BY DEF Complete, historyVars
<1>2. CASE /\ login[c].callback = "resolved" /\ Go(c, "browser", "set")
           /\ Start(c, "set", "codex", auth[c]) /\ UNCHANGED <<auth, login>>
  <2>1. Good' = Good /\ Clean(auth[c], Good') /\ auth[c] # None
    BY <1>1, <1>2 DEF Good, CancelInv, LoginInv
  <2> QED BY <1>1, <1>2, <2>1, SetKeeps DEF CancelInv, Shape
<1>3. CASE Ends(c) /\ login' = [login EXCEPT ![c] = NoLogin] /\ UNCHANGED storeVars
  <2>1. UNCHANGED <<file, openCode, agentSdk, call, at, held>> /\ Good' = Good
    BY <1>1, <1>3 DEF storeVars, Good
  <2>2. StoreInv' /\ DOMAIN call' = Clients /\ DOMAIN at' = Clients /\ DOMAIN held' = Clients
    BY <2>1 DEF CancelInv, StoreInv, Shape, Readable
  <2> QED BY <1>1, <1>3, <2>1, <2>2, EndsKeeps
<1> QED BY <1>2, <1>3 DEF Complete

LEMMA DeviceKeeps == ASSUME CancelInv, NEW c \in Clients, DeviceDecides(c) PROVE CancelInv'
<1>1. stage[c] = "polling" /\ UNCHANGED <<login, refused>> /\ login[c].callback # "resolved"
  BY DEF DeviceDecides, historyVars, CancelInv, LoginInv
<1>2. ASSUME NEW p, Granted, auth' = [auth EXCEPT ![c] = OAuth(NewSession, 0, 0)],
             Start(c, "set", p, OAuth(NewSession, 0, 0)), Go(c, task[c], "set")
      PROVE  CancelInv'
  <2>1. /\ server' \in Seq(Tokens) /\ refused' \subseteq 0..(Len(server') - 1)
        /\ Good \subseteq Good' /\ Clean(OAuth(NewSession, 0, 0), Good')
    BY <1>1, <1>2, GrantedNew DEF CancelInv, Clean
  <2>2. /\ DOMAIN auth' = Clients /\ auth'[c] = OAuth(NewSession, 0, 0)
        /\ \A d \in Clients \ {c} : auth'[d] = auth[d]
    BY <1>2 DEF CancelInv, Shape
  <2> QED BY <1>1, <1>2, <2>1, <2>2, SetKeeps
<1>3. CASE Ends(c) /\ UNCHANGED <<storeVars, server>>
  <2>1. UNCHANGED <<file, openCode, agentSdk, call, at, held>> /\ Good' = Good
    BY <1>1, <1>3 DEF storeVars, Good
  <2>2. StoreInv' /\ DOMAIN call' = Clients /\ DOMAIN at' = Clients /\ DOMAIN held' = Clients
    BY <2>1 DEF CancelInv, StoreInv, Shape, Readable
  <2> QED BY <1>1, <1>3, <2>1, <2>2, EndsKeeps
<1> QED BY <1>2, <1>3 DEF DeviceDecides

LEMMA StoreKeeps == ASSUME CancelInv, NEW c \in Clients, Store(c) PROVE CancelInv'
<1>1. StoreStep(c) /\ UNCHANGED <<task, stage, auth, login, server, refused>>
  BY DEF Store
<1>2. StoreInv'
  BY <1>1, StoreStepKeeps DEF CancelInv
<1>3. call' = call /\ DOMAIN at' = Clients /\ DOMAIN held' = Clients
  BY <1>1 DEF StoreStep, Ensure, Read, Reads, ReadFallback, Reread, Truncate, Write, Steps, CancelInv, Shape
<1> QED BY <1>1, <1>2, <1>3 DEF CancelInv, Shape, LoginInv, Good

-----------------------------------------------------------------------------

LEMMA InitCancel == Init => CancelInv
<1> SUFFICES ASSUME Init PROVE CancelInv
  OBVIOUS
<1>1. server = <<[access |-> 0, refresh |-> 0]>> /\ refused = {}
  BY DEF Init
<1>2. server \in Seq(Tokens) /\ Len(server) = 1 /\ Good = {0}
  BY <1>1 DEF Tokens, Good
<1>3. Clean(None, Good)
  BY DEF Clean, IsOAuth
<1>4. PICK s \in Stored : file = s.own /\ openCode = s.openCode /\ agentSdk = s.agentSdk
  BY DEF Init, StoreInit
<1>5. \A f \in {file, openCode, agentSdk} : f # Missing => CleanEntries(f, Good)
  BY <1>2, <1>4, CredentialsAssumption DEF CleanEntries, Clean
<1>6. StoreInv
  BY <1>3, <1>5 DEF Init, StoreInit, NoCall, NoEntries, StoreInv, Readable
<1>7. LoginInv
  BY <1>3 DEF Init, StoreInit, NoLogin, LoginInv
<1>8. Shape
  BY <1>1, <1>2 DEF Init, StoreInit, NoLogin, Logins, Shape
<1> QED BY <1>6, <1>7, <1>8 DEF CancelInv

LEMMA CancelStep == CancelInv /\ [Next]_vars => CancelInv'
<1> SUFFICES ASSUME CancelInv, [Next]_vars PROVE CancelInv'
  OBVIOUS
<1>1. CASE UNCHANGED vars
  BY <1>1 DEF vars, storeVars, CancelInv, Shape, StoreInv, LoginInv, Good, Readable
<1>2. CASE Next
  BY <1>2, StoreKeeps, TaskEndsKeeps, ResolvedKeeps, RefreshKeeps, BrowserKeeps, CompleteKeeps, DeviceKeeps,
     TaskBeginsKeeps, LoginBeginsKeeps, ExchangeKeeps DEF Next, Progress
<1> QED BY <1>1, <1>2

\* What a login is granted after it was cancelled, timed out or failed never comes to be in
\* the store, whatever its clients, any other login and any crash do in between.
THEOREM CancelStays == Spec => []CancelHolds
<1>1. CancelInv => CancelHolds
  <2> SUFFICES ASSUME CancelInv, Readable, NEW p \in Providers, NEW s \in refused
               PROVE  ~SessionIs(Decoded(file)[p], s)
    BY DEF CancelHolds
  <2>1. Clean(Decoded(file)[p], Good)
    BY DecodedClean DEF CancelInv, StoreInv
  <2> QED BY <2>1 DEF Clean, Good, SessionIs
<1> QED BY <1>1, CancelStep, InitCancel, PTL DEF Spec
-----------------------------------------------------------------------------
(* The file and the operations on it.                                      *)

Sure == ~raced /\ ~cut
Ops == {"none", "get", "set", "delete", "getAll", "ensure"}

\* Where an operation can stand.
OpShape(c) ==
  /\ held[c] \in Entries /\ call[c].auth \in Auths \cup {None} /\ call[c].op \in Ops
  /\ call[c].op \in {"get", "set", "delete"} => call[c].provider \in Providers
  /\ at[c] \in {"idle", "ensure", "read", "fallback", "reread", "truncate", "write", "done", "threw"}
  /\ at[c] = "ensure" => call[c].op = "ensure"
  /\ at[c] = "fallback" => call[c].op \in {"get", "getAll"}
  /\ at[c] = "reread" => call[c].op = "get"
  /\ at[c] \in {"truncate", "write"} => call[c].op # "none"

StoreTyped ==
  /\ serial \in Entries /\ file \in Files \cup {Missing, Empty, Garbled}
  /\ openCode \in Files \cup {Missing} /\ agentSdk \in Files \cup {Missing}
  /\ stale \subseteq Clients /\ DOMAIN call = Clients /\ DOMAIN at = Clients /\ DOMAIN held = Clients
  /\ \A c \in Clients : OpShape(c)

\* What a client holds that has read since the last write.
Fits(c) ==
  /\ at[c] \in {"fallback", "reread"} => held[c] = serial
  /\ at[c] \in {"truncate", "write"} => held[c] = Effect(c, serial)
  /\ at[c] \in {"fallback", "reread", "truncate", "write"} /\ call[c].op = "get" => serial[call[c].provider] = None
  /\ at[c] \in {"truncate", "write"} /\ call[c].op = "ensure" => serial = NoEntries
  /\ at[c] = "write" => file = Empty

SerialInv == Sure => SerialStore /\ \A c \in Clients \ stale : Fits(c)

\* What a step of c may do to the store.
Begun(c, op, p, a) ==
  /\ Start(c, op, p, a) /\ at[c] = "idle"
  /\ op \in Ops \ {"none"} /\ a \in Auths \cup {None} /\ (op \in {"get", "set", "delete"} => p \in Providers)
StoreMoves(c) ==
  \/ StoreStep(c) \/ Taken(c) \/ StoreCrash(c) \/ UNCHANGED storeVars
  \/ \E op, p, a : Begun(c, op, p, a)

-----------------------------------------------------------------------------

LEMMA NoEntriesFacts == NoEntries \in Entries /\ Decoded(Missing) = NoEntries /\ \A p \in Providers : NoEntries[p] = None
BY DEF NoEntries, Entries, Decoded

LEMMA DecodedEntries == ASSUME NEW f \in Files \cup {Missing} PROVE Decoded(f) \in Entries
BY DEF Files, Entries, Decoded

\* Entries are a text of the file, and are read as they were written.
LEMMA EntriesDecode ==
  ASSUME NEW f \in Entries
  PROVE  f \in Files /\ f \notin {Missing, Empty, Garbled} /\ Decoded(f) = f
<1>1. f \in Files
  BY DEF Entries, Files
<1>2. f # Missing /\ f \notin {Empty, Garbled}
  BY <1>1, StoreAssumption DEF Files
<1>3. \A p \in Providers : f[p] # Foreign
  BY StoreAssumption DEF Entries
<1> QED BY <1>1, <1>2, <1>3 DEF Decoded, Entries

LEMMA WithOne ==
  ASSUME NEW e \in Entries, NEW p, NEW a \in Auths \cup {None}
  PROVE  /\ [e EXCEPT ![p] = a] \in Entries
         /\ p \in Providers => [e EXCEPT ![p] = a][p] = a
         /\ \A q \in Providers \ {p} : [e EXCEPT ![p] = a][q] = e[q]
BY DEF Entries

LEMMA EffectSame ==
  ASSUME NEW d, call'[d] = call[d], held'[d] = held[d], serial' = serial
  PROVE  Effect(d, serial)' = Effect(d, serial)
BY DEF Effect

LEMMA EffectEntries ==
  ASSUME NEW c \in Clients, OpShape(c), NEW e \in Entries
  PROVE  Effect(c, e) \in Entries
<1>1. CASE call[c].op \in {"set", "delete"}
  BY <1>1, WithOne DEF Effect, OpShape
<1>2. CASE call[c].op = "get"
  <2>1. held[c][call[c].provider] \in Auths \cup {None}
    BY <1>2 DEF OpShape, Entries
  <2> QED BY <1>2, <2>1, WithOne DEF Effect
<1>3. CASE call[c].op \notin {"set", "delete", "get"}
  BY <1>3 DEF Effect, OpShape, Entries
<1> QED BY <1>1, <1>2, <1>3

LEMMA FileDecoded ==
  ASSUME StoreTyped, file \notin {Empty, Garbled}
  PROVE  Decoded(file) \in Entries
BY DecodedEntries DEF StoreTyped

-----------------------------------------------------------------------------
(* The steps that read.                                                    *)

\* What a reading step leaves alone, and what c then holds.
LEMMA ReadingFacts ==
  ASSUME StoreTyped, NEW c \in Clients, Ensure(c) \/ Read(c) \/ ReadFallback(c) \/ Reread(c)
  PROVE  /\ UNCHANGED <<file, openCode, agentSdk, call, serial, raced, cut>>
         /\ stale' \subseteq stale /\ stale \subseteq stale' \cup {c}
         /\ DOMAIN at' = Clients /\ DOMAIN held' = Clients
         /\ \A d \in Clients \ {c} : at'[d] = at[d] /\ held'[d] = held[d]
         /\ at[c] \notin {"truncate", "write"} /\ at'[c] \in {"fallback", "reread", "truncate", "done", "threw"}
<1>1. ASSUME NEW next \in {"fallback", "reread", "truncate", "done", "threw"}, NEW e, Steps(c, next, e)
      PROVE  /\ UNCHANGED <<file, openCode, agentSdk, call, serial, raced, cut>>
             /\ DOMAIN at' = Clients /\ DOMAIN held' = Clients
             /\ \A d \in Clients \ {c} : at'[d] = at[d] /\ held'[d] = held[d]
             /\ at'[c] \in {"fallback", "reread", "truncate", "done", "threw"}
  BY <1>1 DEF Steps, StoreTyped
<1>2. CASE Ensure(c)
  BY <1>1, <1>2 DEF Ensure
<1>3. CASE Read(c)
  BY <1>1, <1>3 DEF Read, Reads
<1>4. CASE ReadFallback(c)
  BY <1>1, <1>4 DEF ReadFallback
<1>5. CASE Reread(c)
  BY <1>1, <1>5 DEF Reread, Reads
<1> QED BY <1>2, <1>3, <1>4, <1>5

LEMMA EnsureHolds ==
  ASSUME StoreTyped, NEW c \in Clients, Ensure(c)
  PROVE  /\ call[c].op = "ensure"
         /\ \/ at'[c] = "truncate" /\ file = Missing /\ held'[c] = Decoded(agentSdk) /\ held'[c] \in Entries
            \/ at'[c] = "done" /\ held'[c] = NoEntries
BY DecodedEntries DEF Ensure, Steps, StoreTyped, OpShape

LEMMA ReadHolds ==
  ASSUME StoreTyped, NEW c \in Clients, Read(c)
  PROVE  \/ at'[c] = "threw" /\ held'[c] = NoEntries
         \/ /\ file \notin {Empty, Garbled} /\ at'[c] = "truncate" /\ call[c].op \in {"set", "delete"}
            /\ held'[c] = Changed(c) /\ held'[c] \in Entries
         \/ /\ file \notin {Empty, Garbled} /\ at'[c] = "done" /\ call[c].op = "get"
            /\ held'[c] = Decoded(file) /\ held'[c] \in Entries /\ held'[c][call[c].provider] # None
         \/ /\ file \notin {Empty, Garbled} /\ at'[c] = "fallback" /\ call[c].op \in {"get", "getAll"}
            /\ held'[c] = Decoded(file) /\ held'[c] \in Entries
            /\ call[c].op = "get" => held'[c][call[c].provider] = None
<1>1. CASE call[c].op \in {"set", "delete"} /\ Reads(c, "truncate", Changed(c))
  <2>1. CASE file \in {Empty, Garbled}
    BY <1>1, <2>1 DEF Reads, Steps, StoreTyped
  <2>2. CASE file \notin {Empty, Garbled}
    <3>1. Changed(c) \in Entries
      <4>1. Decoded(file) \in Entries /\ call[c].auth \in Auths \cup {None}
        BY <2>2, FileDecoded DEF StoreTyped, OpShape
      <4> QED BY <4>1, WithOne DEF Changed
    <3> QED BY <1>1, <2>2, <3>1 DEF Reads, Steps, StoreTyped
  <2> QED BY <2>1, <2>2
<1>2. CASE /\ call[c].op = "get"
           /\ Reads(c, IF Decoded(file)[call[c].provider] = None THEN "fallback" ELSE "done", Decoded(file))
  BY <1>2, FileDecoded DEF Reads, Steps, StoreTyped
<1>3. CASE call[c].op = "getAll" /\ Reads(c, "fallback", Decoded(file))
  BY <1>3, FileDecoded DEF Reads, Steps, StoreTyped
<1> QED BY <1>1, <1>2, <1>3 DEF Read

LEMMA FallbackHolds ==
  ASSUME StoreTyped, NEW c \in Clients, ReadFallback(c)
  PROVE  /\ at[c] = "fallback" /\ stale' = stale
         /\ \/ call[c].op = "get" /\ at'[c] \in {"done", "reread"} /\ held'[c] = held[c]
            \/ /\ call[c].op = "getAll" /\ at'[c] \in {"done", "truncate"} /\ held'[c] = Merged(c)
               /\ held'[c] \in Entries
<1>1. openCode \in Files \cup {Missing} /\ held[c] \in Entries
  BY DEF StoreTyped, OpShape
<1>2. Merged(c) \in Entries
  BY <1>1, DecodedEntries DEF Merged, Entries
<1> QED BY <1>2 DEF ReadFallback, Steps, StoreTyped

LEMMA RereadHolds ==
  ASSUME StoreTyped, NEW c \in Clients, Reread(c)
  PROVE  /\ at[c] = "reread" /\ call[c].op = "get" /\ call[c].provider \in Providers /\ stale' = stale
         /\ \/ at'[c] = "threw" /\ held'[c] = NoEntries
            \/ /\ file \notin {Empty, Garbled} /\ at'[c] = "truncate" /\ held'[c] \in Entries
               /\ held'[c] = [Decoded(file) EXCEPT ![call[c].provider] = Decoded(openCode)[call[c].provider]]
<1>1. at[c] = "reread" /\ call[c].op = "get" /\ call[c].provider \in Providers
  BY DEF Reread, StoreTyped, OpShape
<1>2. Decoded(openCode)[call[c].provider] \in Auths \cup {None}
  BY <1>1, DecodedEntries DEF StoreTyped, Entries
<1>3. CASE file \in {Empty, Garbled}
  BY <1>1, <1>3 DEF Reread, Reads, Steps, StoreTyped
<1>4. CASE file \notin {Empty, Garbled}
  <2>1. [Decoded(file) EXCEPT ![call[c].provider] = Decoded(openCode)[call[c].provider]] \in Entries
    BY <1>2, <1>4, FileDecoded, WithOne
  <2> QED BY <1>1, <1>4, <2>1 DEF Reread, Reads, Steps, StoreTyped
<1> QED BY <1>3, <1>4

LEMMA ReadingTyped ==
  ASSUME StoreTyped, NEW c \in Clients, Ensure(c) \/ Read(c) \/ ReadFallback(c) \/ Reread(c)
  PROVE  StoreTyped'
<1>1. OpShape(c)'
  <2>1. OpShape(c) /\ call'[c] = call[c]
    BY ReadingFacts DEF StoreTyped
  <2>2. CASE Ensure(c)
    BY <2>1, <2>2, EnsureHolds, NoEntriesFacts DEF OpShape
  <2>3. CASE Read(c)
    BY <2>1, <2>3, ReadHolds, NoEntriesFacts DEF OpShape
  <2>4. CASE ReadFallback(c)
    BY <2>1, <2>4, FallbackHolds DEF OpShape
  <2>5. CASE Reread(c)
    BY <2>1, <2>5, RereadHolds, NoEntriesFacts DEF OpShape
  <2> QED BY <2>2, <2>3, <2>4, <2>5
<1>2. \A d \in Clients \ {c} : OpShape(d)'
  BY ReadingFacts DEF StoreTyped, OpShape
<1> QED BY <1>1, <1>2, ReadingFacts DEF StoreTyped

LEMMA OtherTyped ==
  ASSUME StoreTyped, NEW c \in Clients,
         Truncate(c) \/ Write(c) \/ Taken(c) \/ StoreCrash(c) \/ (\E op, p, a : Begun(c, op, p, a)) \/ UNCHANGED storeVars
  PROVE  StoreTyped'
<1>1. CASE Truncate(c)
  BY <1>1 DEF Truncate, StoreTyped, OpShape
<1>2. CASE Write(c)
  <2>1. held[c] \in Files /\ serial' \in Entries
    BY <1>2, EntriesDecode, EffectEntries DEF Write, StoreTyped, OpShape
  <2>2. \A d \in Clients : OpShape(d)'
    BY <1>2 DEF Write, StoreTyped, OpShape
  <2> QED BY <1>2, <2>1, <2>2 DEF Write, StoreTyped
<1>3. CASE Taken(c) \/ StoreCrash(c)
  <2>1. \A d \in Clients : OpShape(d)'
    BY <1>3, NoEntriesFacts DEF Taken, StoreCrash, StoreTyped, OpShape, NoCall, Ops
  <2> QED BY <1>3, <2>1 DEF Taken, StoreCrash, StoreTyped
<1>4. ASSUME NEW op, NEW p, NEW a, Begun(c, op, p, a) PROVE StoreTyped'
  <2>1. \A d \in Clients : OpShape(d)'
    BY <1>4, NoEntriesFacts DEF Begun, Start, StoreTyped, OpShape, Ops
  <2> QED BY <1>4, <2>1 DEF Begun, Start, StoreTyped
<1>5. CASE UNCHANGED storeVars
  BY <1>5 DEF storeVars, StoreTyped, OpShape
<1> QED BY <1>1, <1>2, <1>3, <1>4, <1>5

LEMMA MovesTyped == ASSUME StoreTyped, NEW c \in Clients, StoreMoves(c) PROVE StoreTyped'
BY ReadingTyped, OtherTyped DEF StoreMoves, StoreStep

-----------------------------------------------------------------------------
(* The entries that the file has, or is about to have.                     *)

\* What is in the file, where it can be read.
LEMMA FileIsSerial ==
  ASSUME StoreTyped, SerialInv, Sure, file \notin {Empty, Garbled}
  PROVE  Decoded(file) = serial
BY NoEntriesFacts DEF SerialInv, SerialStore, Sure

\* A step that is none of writing does not move the serial entries.
LEMMA OthersFit ==
  ASSUME NEW d, Fits(d), UNCHANGED <<at[d], held[d], call[d], serial>>, file' \in {file, Empty}
  PROVE  Fits(d)'
BY EffectSame DEF Fits

LEMMA ReadingFits ==
  ASSUME StoreTyped, SerialInv, Sure, NEW c \in Clients, Ensure(c) \/ Read(c) \/ ReadFallback(c) \/ Reread(c), c \notin stale'
  PROVE  Fits(c)'
<1> USE ReadingFacts
<1>1. serial' = serial /\ file' = file /\ call' = call
  OBVIOUS
<1>2. CASE Ensure(c)
  <2>1. CASE at'[c] = "truncate" /\ file = Missing /\ held'[c] \in Entries
    <3>1. serial = NoEntries
      BY <2>1, FileIsSerial, NoEntriesFacts, StoreAssumption
    <3>2. Effect(c, serial)' = [p \in Providers |-> IF serial[p] = None THEN held'[c][p] ELSE serial[p]]
      BY <1>1, <1>2, EnsureHolds DEF Effect
    <3>3. Effect(c, serial)' = held'[c]
      BY <2>1, <3>1, <3>2, NoEntriesFacts DEF Entries
    <3> QED BY <1>1, <1>2, <2>1, <3>1, <3>3, EnsureHolds DEF Fits
  <2>2. CASE at'[c] = "done"
    BY <2>2 DEF Fits
  <2> QED BY <1>2, <2>1, <2>2, EnsureHolds
<1>3. CASE Read(c)
  <2>1. CASE at'[c] \in {"threw", "done"}
    BY <2>1 DEF Fits
  <2>2. CASE /\ file \notin {Empty, Garbled} /\ at'[c] = "truncate" /\ call[c].op \in {"set", "delete"}
             /\ held'[c] = Changed(c)
    <3>1. held'[c] = [serial EXCEPT ![call[c].provider] = call[c].auth]
      BY <2>2, FileIsSerial DEF Changed
    <3>2. Effect(c, serial)' = held'[c]
      BY <1>1, <2>2, <3>1 DEF Effect
    <3> QED BY <1>1, <2>2, <3>2 DEF Fits
  <2>3. CASE /\ file \notin {Empty, Garbled} /\ at'[c] = "fallback" /\ held'[c] = Decoded(file)
             /\ call[c].op = "get" => held'[c][call[c].provider] = None
    BY <1>1, <2>3, FileIsSerial DEF Fits
  <2> QED BY <1>3, <2>1, <2>2, <2>3, ReadHolds
<1>4. CASE ReadFallback(c)
  <2>1. /\ held[c] = serial /\ at[c] = "fallback" /\ serial \in Entries
        /\ call[c].op = "get" => serial[call[c].provider] = None
    BY <1>4, FallbackHolds DEF SerialInv, Fits, StoreTyped
  <2>2. CASE call[c].op = "get" /\ at'[c] \in {"done", "reread"} /\ held'[c] = held[c]
    BY <1>1, <2>1, <2>2 DEF Fits
  <2>3. CASE call[c].op = "getAll" /\ at'[c] \in {"done", "truncate"} /\ held'[c] = Merged(c) /\ held'[c] \in Entries
    <3>1. Effect(c, serial)' = [p \in Providers |-> IF serial[p] = None THEN held'[c][p] ELSE serial[p]]
      BY <1>1, <2>3 DEF Effect
    <3>2. \A p \in Providers : serial[p] # None => held'[c][p] = serial[p]
      BY <2>1, <2>3 DEF Merged
    <3>3. Effect(c, serial)' = held'[c]
      BY <2>3, <3>1, <3>2 DEF Entries
    <3> QED BY <1>1, <2>3, <3>3 DEF Fits
  <2> QED BY <1>4, <2>2, <2>3, FallbackHolds
<1>5. CASE Reread(c)
  <2>1. /\ at[c] = "reread" /\ call[c].op = "get" /\ call[c].provider \in Providers /\ c \notin stale
        /\ serial[call[c].provider] = None /\ serial \in Entries
    <3>1. /\ at[c] = "reread" /\ call[c].op = "get" /\ call[c].provider \in Providers /\ c \notin stale
      BY <1>5, RereadHolds
    <3>2. Fits(c) /\ serial \in Entries
      BY <3>1 DEF SerialInv, StoreTyped
    <3> QED BY <3>1, <3>2 DEF Fits
  <2>2. CASE at'[c] = "threw"
    BY <2>2 DEF Fits
  <2>3. CASE /\ file \notin {Empty, Garbled} /\ at'[c] = "truncate"
             /\ held'[c] = [Decoded(file) EXCEPT ![call[c].provider] = Decoded(openCode)[call[c].provider]]
    <3>1. held'[c] = [serial EXCEPT ![call[c].provider] = held'[c][call[c].provider]]
      BY <2>1, <2>3, FileIsSerial DEF Entries
    <3>2. Effect(c, serial)' = held'[c]
      BY <1>1, <2>1, <3>1 DEF Effect
    <3> QED BY <1>1, <2>1, <2>3, <3>2 DEF Fits
  <2> QED BY <1>5, <2>2, <2>3, RereadHolds
<1> QED BY <1>2, <1>3, <1>4, <1>5

\* A file that may be read again was written by the one client that writes.
LEMMA SerialReading ==
  ASSUME StoreTyped, SerialInv, NEW c \in Clients, Ensure(c) \/ Read(c) \/ ReadFallback(c) \/ Reread(c)
  PROVE  SerialInv'
<1> SUFFICES ASSUME Sure' PROVE SerialInv'
  BY DEF SerialInv
<1>1. Sure /\ UNCHANGED <<file, call, serial, raced, cut>>
  BY ReadingFacts DEF Sure
<1>2. SerialStore'
  BY <1>1, ReadingFacts DEF SerialInv, SerialStore
<1>3. ASSUME NEW d \in Clients \ stale' PROVE Fits(d)'
  <2>1. CASE d = c
    BY <1>1, <1>3, <2>1, ReadingFits
  <2>2. CASE d # c
    BY <1>1, <1>3, <2>2, ReadingFacts, OthersFit DEF SerialInv
  <2> QED BY <2>1, <2>2
<1> QED BY <1>2, <1>3 DEF SerialInv

LEMMA SerialTruncate == ASSUME StoreTyped, SerialInv, NEW c \in Clients, Truncate(c) PROVE SerialInv'
<1> SUFFICES ASSUME Sure' PROVE SerialInv'
  BY DEF SerialInv
<1>1. /\ Sure /\ UNCHANGED <<held, call, serial, stale>> /\ file' = Empty
      /\ at[c] = "truncate" /\ at'[c] = "write" /\ \A d \in Clients \ {c} : at'[d] = at[d]
  BY DEF Truncate, Sure, StoreTyped
<1>2. SerialStore'
  BY <1>1 DEF SerialStore
<1>3. ASSUME NEW d \in Clients \ stale PROVE Fits(d)'
  <2>1. Fits(d)
    BY <1>1 DEF SerialInv
  <2>2. Effect(d, serial)' = Effect(d, serial)
    BY <1>1, EffectSame
  <2>3. CASE d = c
    BY <1>1, <2>1, <2>2, <2>3 DEF Fits
  <2>4. CASE d # c
    BY <1>1, <2>1, <2>2, <2>4 DEF Fits
  <2> QED BY <2>3, <2>4
<1> QED BY <1>1, <1>2, <1>3 DEF SerialInv

\* Unless it is raced, a write replaces the entries its client read, and makes others stale.
LEMMA WriteFacts ==
  ASSUME StoreTyped, SerialInv, NEW c \in Clients, Write(c), Sure'
  PROVE  /\ Sure /\ c \notin stale /\ at[c] = "write" /\ held[c] = Effect(c, serial) /\ held[c] \in Entries
         /\ file' = held[c] /\ serial' = held[c] /\ Decoded(held[c]) = held[c] /\ held[c] \notin {Missing, Empty, Garbled}
         /\ UNCHANGED <<openCode, agentSdk, call, held>>
         /\ at'[c] = "done" /\ \A d \in Clients \ {c} : at'[d] = at[d]
         /\ \A d \in Clients \ stale' : at'[d] \notin {"fallback", "reread", "truncate", "write"}
<1>1. Sure /\ c \notin stale /\ at[c] = "write"
  BY DEF Write, Sure
<1>2. held[c] = Effect(c, serial) /\ file = Empty
  BY <1>1 DEF SerialInv, Fits
<1>3. held[c] \in Entries /\ Decoded(held[c]) = held[c] /\ held[c] \notin {Missing, Empty, Garbled}
  BY EntriesDecode DEF StoreTyped, OpShape
<1>4. file' = held[c] /\ serial' = held[c] /\ UNCHANGED <<openCode, agentSdk, call, held>>
  BY <1>2 DEF Write
<1>5. at'[c] = "done" /\ \A d \in Clients \ {c} : at'[d] = at[d]
  BY DEF Write, StoreTyped
<1>6. \A d \in Clients \ stale' : at'[d] \notin {"fallback", "reread", "truncate", "write"}
  <2> TAKE d \in Clients \ stale'
  <2>1. CASE d = c
    BY <1>5, <2>1
  <2>2. CASE d # c
    BY <1>5, <2>2 DEF Write
  <2> QED BY <2>1, <2>2
<1> QED BY <1>1, <1>2, <1>3, <1>4, <1>5, <1>6

LEMMA SerialWrite == ASSUME StoreTyped, SerialInv, NEW c \in Clients, Write(c) PROVE SerialInv'
<1> SUFFICES ASSUME Sure' PROVE SerialInv'
  BY DEF SerialInv
<1>1. SerialStore'
  BY WriteFacts DEF SerialStore
<1>2. \A d \in Clients \ stale' : Fits(d)'
  BY WriteFacts DEF Fits
<1> QED BY <1>1, <1>2 DEF SerialInv

LEMMA SerialOther ==
  ASSUME StoreTyped, SerialInv, NEW c \in Clients,
         Taken(c) \/ StoreCrash(c) \/ (\E op, p, a : Begun(c, op, p, a)) \/ UNCHANGED storeVars
  PROVE  SerialInv'
<1> SUFFICES ASSUME Sure' PROVE SerialInv'
  BY DEF SerialInv
<1>1. CASE UNCHANGED storeVars
  <2>1. \A d \in Clients : Fits(d) => Fits(d)'
    BY <1>1, OthersFit DEF storeVars
  <2> QED BY <1>1, <2>1 DEF storeVars, SerialInv, SerialStore, Sure
<1>2. CASE Taken(c) \/ StoreCrash(c) \/ \E op, p, a : Begun(c, op, p, a)
  <2>1. /\ Sure /\ UNCHANGED <<file, serial>> /\ stale \subseteq stale' \cup {c} /\ at[c] # "write"
        /\ at'[c] \in {"idle", "ensure", "read"}
        /\ \A d \in Clients \ {c} : UNCHANGED <<at[d], held[d], call[d]>>
    <3>1. CASE Taken(c)
      BY <3>1 DEF Taken, Sure, StoreTyped
    <3>2. CASE StoreCrash(c)
      BY <3>2 DEF StoreCrash, Sure, StoreTyped
    <3>3. ASSUME NEW op, NEW p, NEW a, Begun(c, op, p, a)
          PROVE  /\ Sure /\ UNCHANGED <<file, serial>> /\ stale \subseteq stale' \cup {c} /\ at[c] # "write"
                 /\ at'[c] \in {"idle", "ensure", "read"}
                 /\ \A d \in Clients \ {c} : UNCHANGED <<at[d], held[d], call[d]>>
      BY <3>3 DEF Begun, Start, Sure, StoreTyped
    <3> QED BY <1>2, <3>1, <3>2, <3>3
  <2>2. SerialStore'
    BY <2>1 DEF SerialInv, SerialStore, Sure
  <2>3. \A d \in Clients \ stale' : Fits(d)'
    <3> TAKE d \in Clients \ stale'
    <3>1. CASE d = c
      BY <2>1, <3>1 DEF Fits
    <3>2. CASE d # c
      BY <2>1, <3>2, OthersFit DEF SerialInv
    <3> QED BY <3>1, <3>2
  <2> QED BY <2>2, <2>3 DEF SerialInv
<1> QED BY <1>1, <1>2

LEMMA MovesSerial == ASSUME StoreTyped, SerialInv, NEW c \in Clients, StoreMoves(c) PROVE SerialInv'
BY SerialReading, SerialTruncate, SerialWrite, SerialOther DEF StoreMoves, StoreStep

-----------------------------------------------------------------------------
(* The tasks: which operation each awaits.                                 *)

SetCall(t, a) == [op |-> "set", provider |-> IF t = "copilot-device" THEN "copilot" ELSE "codex", auth |-> a]

TaskOf(c) ==
  /\ auth[c] \in Auths \cup {None}
  /\ stage[c] \in {"idle", "store", "get", "polling", "waiting", "refresh", "set"}
  /\ stage[c] \in {"idle", "waiting", "polling", "refresh"} => at[c] = "idle"
  /\ at[c] = "idle" => held[c] = NoEntries /\ call[c] = NoCall
  /\ stage[c] = "set" => call[c] = SetCall(task[c], auth[c]) /\ at[c] \in {"read", "truncate", "write", "done", "threw"}
  /\ stage[c] = "get" => call[c].op = "get" /\ call[c].provider = task[c] /\ task[c] \in {"codex", "copilot"}
  /\ stage[c] = "store" => call[c].op \in {"delete", "getAll", "ensure"}
  /\ stage[c] \in {"idle", "store", "get", "polling"} => auth[c] = None
  /\ stage[c] # "set" => call[c].auth = None
  /\ stage[c] = "refresh" => task[c] = "codex" /\ auth[c] # None
  /\ stage[c] = "set" => auth[c] # None
  /\ task[c] = "idle" => stage[c] = "idle"
  /\ task[c] = "browser" => stage[c] \in {"waiting", "set"}
  /\ stage[c] = "polling" => task[c] \in DeviceTasks
  /\ stage[c] = "waiting" => task[c] = "browser"

TokenTyped ==
  /\ Len(server) # 0 /\ Len(server) <= MaxSessions + 1
  /\ \A i \in 1..Len(server) : server[i].access \in 0..MaxTokens /\ server[i].refresh \in 0..server[i].access

UseInv == CancelInv /\ StoreTyped /\ TokenTyped /\ \A c \in Clients : TaskOf(c)

LEMMA TaskOthers ==
  ASSUME NEW d, TaskOf(d), UNCHANGED <<task[d], stage[d], auth[d], call[d], at[d], held[d]>>
  PROVE  TaskOf(d)'
BY DEF TaskOf

LEMMA GoFacts ==
  ASSUME CancelInv, NEW c \in Clients, NEW t, NEW g, Go(c, t, g)
  PROVE  /\ task'[c] = t /\ stage'[c] = g
         /\ \A d \in Clients \ {c} : task'[d] = task[d] /\ stage'[d] = stage[d]
BY DEF Go, CancelInv, Shape

LEMMA EndsWith ==
  ASSUME CancelInv, NEW c \in Clients, Ends(c)
  PROVE  /\ task'[c] = "idle" /\ stage'[c] = "idle" /\ auth'[c] = None
         /\ \A d \in Clients \ {c} : UNCHANGED <<task[d], stage[d], auth[d]>>
BY GoFacts DEF Ends, CancelInv, Shape

LEMMA StartFacts ==
  ASSUME StoreTyped, NEW c \in Clients, NEW op, NEW p, NEW a, Start(c, op, p, a)
  PROVE  /\ call'[c] = [op |-> op, provider |-> p, auth |-> a] /\ held'[c] = NoEntries
         /\ at'[c] = IF op = "ensure" THEN "ensure" ELSE "read"
         /\ \A d \in Clients \ {c} : UNCHANGED <<call[d], at[d], held[d]>>
         /\ UNCHANGED <<file, openCode, agentSdk, serial, stale, raced, cut>>
BY DEF Start, StoreTyped

LEMMA LeftFacts ==
  ASSUME StoreTyped, NEW c \in Clients, Taken(c) \/ StoreCrash(c)
  PROVE  /\ call'[c] = NoCall /\ held'[c] = NoEntries /\ at'[c] = "idle"
         /\ \A d \in Clients \ {c} : UNCHANGED <<call[d], at[d], held[d]>>
         /\ UNCHANGED <<file, openCode, agentSdk, serial, raced>> /\ stale' \subseteq stale /\ stale \subseteq stale' \cup {c}
BY DEF Taken, StoreCrash, StoreTyped

\* What each step of a task leaves of it.
LEMMA IdleTask ==
  ASSUME NEW c \in Clients, task'[c] = "idle", stage'[c] = "idle", auth'[c] = None, at'[c] = "idle", held'[c] = NoEntries, call'[c] = NoCall
  PROVE  TaskOf(c)'
BY DEF TaskOf, NoCall

LEMMA StoreTaskOf ==
  ASSUME UseInv, NEW c \in Clients, StoreTask(c)
  PROVE  StoreMoves(c) /\ \A d \in Clients : TaskOf(d)'
<1>1. task[c] = "idle" /\ auth' = auth
  BY DEF StoreTask, Begins
<1>2. PICK op, p, t, g : /\ Start(c, op, p, None) /\ Go(c, t, g) /\ t \notin {"idle", "browser"}
                         /\ \/ g = "get" /\ op = "get" /\ p = t /\ t \in {"codex", "copilot"}
                            \/ g = "store" /\ op \in {"delete", "getAll", "ensure"}
                         /\ op = "delete" => p \in Providers
  <2>1. CASE Go(c, "codex", "get") /\ Start(c, "get", "codex", None)
    BY <2>1
  <2>2. CASE Go(c, "copilot", "get") /\ Start(c, "get", "copilot", None)
    BY <2>2
  <2>3. ASSUME NEW p \in Providers, Go(c, "logout", "store"), Start(c, "delete", p, None)
        PROVE  \E op, q, t, g : /\ Start(c, op, q, None) /\ Go(c, t, g) /\ t \notin {"idle", "browser"}
                                /\ \/ g = "get" /\ op = "get" /\ q = t /\ t \in {"codex", "copilot"}
                                   \/ g = "store" /\ op \in {"delete", "getAll", "ensure"}
                                /\ op = "delete" => q \in Providers
    BY <2>3
  <2>4. CASE Go(c, "list", "store") /\ Start(c, "getAll", None, None)
    BY <2>4
  <2>5. CASE Go(c, "ensure", "store") /\ Start(c, "ensure", None, None)
    BY <2>5
  <2> QED BY <2>1, <2>2, <2>3, <2>4, <2>5 DEF StoreTask
<1>3. /\ task'[c] = t /\ stage'[c] = g
      /\ \A d \in Clients \ {c} : task'[d] = task[d] /\ stage'[d] = stage[d]
  BY <1>2, GoFacts DEF UseInv
<1>4. /\ call'[c] = [op |-> op, provider |-> p, auth |-> None] /\ held'[c] = NoEntries
      /\ at'[c] \in {"ensure", "read"}
      /\ \A d \in Clients \ {c} : call'[d] = call[d] /\ at'[d] = at[d] /\ held'[d] = held[d]
  BY <1>2, StartFacts DEF UseInv
<1>5. auth[c] = None
  BY <1>1 DEF UseInv, TaskOf
<1>6. TaskOf(c)'
  BY <1>1, <1>2, <1>3, <1>4, <1>5 DEF TaskOf
<1>7. Begun(c, op, p, None)
  <2>1. at[c] = "idle"
    BY <1>1 DEF UseInv, TaskOf
  <2>2. op \in {"get", "delete"} => p \in Providers
    BY <1>2, CredentialsAssumption
  <2> QED BY <1>2, <2>1, <2>2 DEF Begun, Ops
<1>8. \A d \in Clients : TaskOf(d)'
  BY <1>1, <1>3, <1>4, <1>6, TaskOthers DEF UseInv
<1> QED BY <1>7, <1>8 DEF StoreMoves

LEMMA LoginBegun ==
  ASSUME UseInv, NEW c \in Clients, StartBrowserOAuth(c) \/ StartDeviceOAuth(c)
  PROVE  \A d \in Clients : TaskOf(d)'
<1>1. task[c] = "idle" /\ UNCHANGED <<auth, call, at, held>>
  BY DEF StartBrowserOAuth, StartDeviceOAuth, LoginBegins, Begins, storeVars
<1>2. \/ task'[c] = "browser" /\ stage'[c] = "waiting"
      \/ task'[c] \in DeviceTasks /\ stage'[c] = "polling"
  BY GoFacts DEF UseInv, StartBrowserOAuth, StartDeviceOAuth
<1>3. \A d \in Clients \ {c} : UNCHANGED <<task[d], stage[d]>>
  BY GoFacts DEF UseInv, StartBrowserOAuth, StartDeviceOAuth
<1>4. TaskOf(c) /\ stage[c] = "idle"
  BY <1>1 DEF UseInv, TaskOf
<1>5. TaskOf(c)'
  BY <1>1, <1>2, <1>4 DEF TaskOf, DeviceTasks, NoCall
<1> QED BY <1>1, <1>3, <1>5, TaskOthers DEF UseInv

LEMMA StoreOf ==
  ASSUME UseInv, NEW c \in Clients, Store(c)
  PROVE  \A d \in Clients : TaskOf(d)'
<1>1. StoreStep(c) /\ UNCHANGED <<task, stage, auth>> /\ TaskOf(c) /\ OpShape(c)
  BY DEF Store, UseInv, StoreTyped
<1>2. /\ call' = call /\ \A d \in Clients \ {c} : at'[d] = at[d] /\ held'[d] = held[d]
      /\ at[c] \notin {"idle", "done", "threw"} /\ at'[c] \in {"fallback", "reread", "truncate", "write", "done", "threw"}
  <2>1. CASE Ensure(c) \/ Read(c) \/ ReadFallback(c) \/ Reread(c)
    BY <2>1, ReadingFacts DEF UseInv, Ensure, Read, ReadFallback, Reread
  <2>2. CASE Truncate(c) \/ Write(c)
    BY <2>2 DEF Truncate, Write, UseInv, StoreTyped
  <2> QED BY <1>1, <2>1, <2>2 DEF StoreStep
<1>3. call[c].op = "set" => at'[c] \in {"truncate", "write", "done", "threw"}
  <2> SUFFICES ASSUME call[c].op = "set" PROVE at'[c] \in {"truncate", "write", "done", "threw"}
    OBVIOUS
  <2>1. CASE Read(c)
    BY <2>1, ReadHolds DEF UseInv
  <2>2. CASE ~Read(c)
    BY <1>1, <1>2, <2>2 DEF StoreStep, Ensure, ReadFallback, Reread, Truncate, Write, OpShape, UseInv, StoreTyped
  <2> QED BY <2>1, <2>2
<1>4. TaskOf(c)'
  BY <1>1, <1>2, <1>3 DEF TaskOf, SetCall
<1> QED BY <1>1, <1>2, <1>4, TaskOthers DEF UseInv

LEMMA TaskEndsOf ==
  ASSUME UseInv, NEW c \in Clients, StoreTaskEnds(c) \/ Crash(c)
  PROVE  \A d \in Clients : TaskOf(d)'
<1>1. (Taken(c) \/ StoreCrash(c)) /\ Ends(c)
  BY DEF StoreTaskEnds, Crash
<1>2. TaskOf(c)'
  BY <1>1, LeftFacts, EndsWith, IdleTask DEF UseInv
<1> QED BY <1>1, <1>2, LeftFacts, EndsWith, TaskOthers DEF UseInv

LEMMA ResolvedOf ==
  ASSUME UseInv, NEW c \in Clients, Resolved(c)
  PROVE  \A d \in Clients : TaskOf(d)'
<1>1. Taken(c) /\ task[c] = "codex" /\ stage[c] = "get" /\ TaskOf(c) /\ OpShape(c)
  BY DEF Resolved, UseInv, StoreTyped
<1>2. CASE Ends(c)
  <2>1. TaskOf(c)'
    BY <1>1, <1>2, LeftFacts, EndsWith, IdleTask DEF UseInv
  <2> QED BY <1>1, <1>2, <2>1, LeftFacts, EndsWith, TaskOthers DEF UseInv
<1>3. CASE MayRefresh(Answer(c)) /\ Go(c, "codex", "refresh") /\ auth' = [auth EXCEPT ![c] = Answer(c)]
  <2>1. auth'[c] = Answer(c) /\ \A d \in Clients \ {c} : auth'[d] = auth[d]
    BY <1>3 DEF UseInv, CancelInv, Shape
  <2>2. Answer(c) \in Auths /\ Answer(c) # None
    <3>1. call[c].provider \in Providers
      BY <1>1 DEF OpShape, TaskOf
    <3>2. held[c][call[c].provider] \in Auths \cup {None}
      BY <1>1, <3>1 DEF OpShape, Entries
    <3> QED BY <1>3, <3>2 DEF Answer, MayRefresh, IsOAuth
  <2>3. TaskOf(c)'
    BY <1>1, <1>3, <2>1, <2>2, GoFacts, LeftFacts DEF UseInv, TaskOf, NoCall
  <2> QED BY <1>1, <1>3, <2>1, <2>3, GoFacts, LeftFacts, TaskOthers DEF UseInv
<1> QED BY <1>2, <1>3 DEF Resolved

\* A task that goes on to store what it was given.
LEMMA SetOf ==
  ASSUME UseInv, NEW c \in Clients, NEW t, NEW p, NEW a \in Auths, t # "idle",
         Go(c, t, "set"), Start(c, "set", p, a), p = IF t = "copilot-device" THEN "copilot" ELSE "codex",
         auth'[c] = a, \A d \in Clients \ {c} : auth'[d] = auth[d]
  PROVE  \A d \in Clients : TaskOf(d)'
<1>1. /\ call'[c] = SetCall(t, a) /\ at'[c] = "read" /\ task'[c] = t /\ stage'[c] = "set"
      /\ \A d \in Clients \ {c} : UNCHANGED <<task[d], stage[d], call[d], at[d], held[d]>>
  BY GoFacts, StartFacts DEF SetCall, UseInv
<1>2. TaskOf(c)'
  BY <1>1, StoreAssumption DEF TaskOf
<1> QED BY <1>1, <1>2, TaskOthers DEF UseInv

\* The sessions of what a client holds are within bounds, and so are their tokens.
LEMMA ServerTyped ==
  ASSUME UseInv, NEW s \in 0..(Len(server) - 1)
  PROVE  /\ s \in Sessions /\ s + 1 \in 1..Len(server) /\ Server(s) \in Tokens
         /\ Server(s).access \in 0..MaxTokens /\ Server(s).refresh \in 0..Server(s).access
<1>1. server \in Seq(Tokens) /\ Len(server) \in Nat /\ Len(server) <= MaxSessions + 1
  BY DEF UseInv, CancelInv, Shape, TokenTyped
<1>2. s \in Sessions /\ s + 1 \in 1..Len(server)
  BY <1>1, CredentialsAssumption DEF Sessions
<1>3. server[s + 1] \in Tokens
  BY <1>1, <1>2
<1> QED BY <1>2, <1>3 DEF Server, UseInv, TokenTyped

\* The server takes the token of a refresh.
Takes(c, rotates) ==
  /\ stage[c] = "refresh" /\ auth[c].refresh = Server(auth[c].session).refresh
  /\ Server(auth[c].session).access < MaxTokens
  /\ server' = [server EXCEPT ![auth[c].session + 1] = Accepted(auth[c].session, rotates)]

LEMMA TakesFacts ==
  ASSUME UseInv, NEW c \in Clients, NEW rotates \in BOOLEAN, Takes(c, rotates)
  PROVE  /\ TokenTyped' /\ Len(server') = Len(server) /\ auth[c].session \in 0..(Len(server) - 1) /\ IsOAuth(auth[c])
         /\ server'[auth[c].session + 1] = Accepted(auth[c].session, rotates)
         /\ \A s \in 0..(Len(server) - 1) : s # auth[c].session => Server(s)' = Server(s)
         /\ Refreshed(auth[c], Accepted(auth[c].session, rotates)) \in Auths \ {ApiKey}
         /\ Refreshed(auth[c], Accepted(auth[c].session, rotates)).session = auth[c].session
         /\ Refreshed(auth[c], Accepted(auth[c].session, rotates)).refresh = Accepted(auth[c].session, rotates).refresh
<1> DEFINE s == auth[c].session
           fresh == Accepted(s, rotates)
<1>1. s \in 0..(Len(server) - 1) /\ IsOAuth(auth[c])
  BY DEF Takes, UseInv, CancelInv, LoginInv, Clean, Good
<1>2. /\ s \in Sessions /\ s + 1 \in 1..Len(server)
      /\ Server(s).access \in 0..MaxTokens /\ Server(s).refresh \in 0..Server(s).access
  BY <1>1, ServerTyped
<1>3. fresh.access \in 0..MaxTokens /\ fresh.refresh \in 0..fresh.access
  BY <1>2, CredentialsAssumption DEF Accepted, Takes
<1>4. server \in Seq(Tokens) /\ server' = [server EXCEPT ![s + 1] = fresh] /\ Len(server) \in Nat
  BY DEF Takes, UseInv, CancelInv, Shape
<1>5. DOMAIN server' = 1..Len(server) /\ server'[s + 1] = fresh /\ \A i \in 1..Len(server) : i # s + 1 => server'[i] = server[i]
  BY <1>2, <1>4
<1>6. Len(server') = Len(server)
  <2>1. server' \in Seq(Tokens \cup {fresh})
    BY <1>4, <1>2
  <2> QED BY <1>4, <1>5, <2>1
<1>7. TokenTyped'
  BY <1>3, <1>5, <1>6 DEF UseInv, TokenTyped
<1>8. server'[s + 1] = fresh
  BY <1>5
<1>9. \A u \in 0..(Len(server) - 1) : u # s => Server(u)' = Server(u)
  <2> TAKE u \in 0..(Len(server) - 1)
  <2> HAVE u # s
  <2>1. u + 1 \in 1..Len(server) /\ u + 1 # s + 1
    BY <1>1, <1>4
  <2> QED BY <1>5, <2>1 DEF Server
<1>10. Refreshed(auth[c], fresh) = OAuth(s, fresh.access, fresh.refresh)
  BY DEF Refreshed
<1>11. fresh.refresh \in 0..MaxTokens
  BY <1>3, CredentialsAssumption
<1>12. OAuth(s, fresh.access, fresh.refresh) \in Auths \ {ApiKey}
  BY <1>2, <1>3, <1>11, CredentialsAssumption
<1>13. OAuth(s, fresh.access, fresh.refresh).session = s /\ OAuth(s, fresh.access, fresh.refresh).refresh = fresh.refresh
  BY DEF OAuth
<1> QED BY <1>1, <1>6, <1>7, <1>8, <1>9, <1>10, <1>12, <1>13

LEMMA RefreshCases ==
  ASSUME NEW c \in Clients, RefreshAnswered(c) \/ RefreshFails(c)
  PROVE  /\ stage[c] = "refresh" /\ UNCHANGED <<login, gone, refused>>
         /\ \/ Ends(c) /\ UNCHANGED <<storeVars, server, unsure>>
            \/ \E rotates \in BOOLEAN :
                 /\ Takes(c, rotates) /\ unsure \subseteq unsure'
                 /\ \A d \in Clients \ {c} : stage[d] = "set" /\ SessionIs(auth[d], auth[c].session) => auth[c].session \in unsure'
                 /\ \/ Ends(c) /\ UNCHANGED storeVars /\ auth[c].session \in unsure'
                    \/ /\ Go(c, "codex", "set")
                       /\ auth' = [auth EXCEPT ![c] = Refreshed(auth[c], Accepted(auth[c].session, rotates))]
                       /\ Start(c, "set", "codex", Refreshed(auth[c], Accepted(auth[c].session, rotates)))
<1>1. CASE RefreshFails(c)
  BY <1>1 DEF RefreshFails, historyVars
<1>2. CASE RefreshAnswered(c)
  <2>1. CASE auth[c].refresh # Server(auth[c].session).refresh
    BY <1>2, <2>1 DEF RefreshAnswered
  <2>2. CASE auth[c].refresh = Server(auth[c].session).refresh
    <3> DEFINE s == auth[c].session
    <3>1. PICK rotates \in BOOLEAN, arrives \in BOOLEAN :
            /\ Server(s).access < MaxTokens
            /\ server' = [server EXCEPT ![s + 1] = Accepted(s, rotates)]
            /\ unsure' = IF ~arrives \/ \E d \in Clients \ {c} : stage[d] = "set" /\ SessionIs(auth[d], s)
                         THEN unsure \cup {s} ELSE unsure
            /\ IF arrives
               THEN /\ Go(c, "codex", "set")
                    /\ auth' = [auth EXCEPT ![c] = Refreshed(auth[c], Accepted(s, rotates))]
                    /\ Start(c, "set", "codex", Refreshed(auth[c], Accepted(s, rotates)))
               ELSE Ends(c) /\ UNCHANGED storeVars
      BY <1>2, <2>2 DEF RefreshAnswered
    <3>2. Takes(c, rotates) /\ UNCHANGED <<login, gone, refused>> /\ stage[c] = "refresh"
      BY <1>2, <2>2, <3>1 DEF RefreshAnswered, Takes
    <3>3. unsure \subseteq unsure' /\ (~arrives => s \in unsure')
      BY <3>1
    <3>4. \A d \in Clients \ {c} : stage[d] = "set" /\ SessionIs(auth[d], s) => s \in unsure'
      BY <3>1
    <3>5. CASE arrives
      BY <3>1, <3>2, <3>3, <3>4, <3>5
    <3>6. CASE ~arrives
      BY <3>1, <3>2, <3>3, <3>4, <3>6
    <3> QED BY <3>5, <3>6
  <2> QED BY <1>2, <2>1, <2>2
<1> QED BY <1>1, <1>2

\* An operation is begun by a client that awaits none.
LEMMA RefreshOf ==
  ASSUME UseInv, NEW c \in Clients, RefreshAnswered(c) \/ RefreshFails(c)
  PROVE  TokenTyped' /\ StoreMoves(c) /\ \A d \in Clients : TaskOf(d)'
<1>1. stage[c] = "refresh" /\ TaskOf(c) /\ at[c] = "idle" /\ held[c] = NoEntries /\ call[c] = NoCall /\ TokenTyped
  <2>1. stage[c] = "refresh" /\ TaskOf(c)
    BY RefreshCases DEF UseInv
  <2> QED BY <2>1 DEF TaskOf, UseInv
<1>2. ASSUME Ends(c), UNCHANGED storeVars PROVE StoreMoves(c) /\ \A d \in Clients : TaskOf(d)'
  <2>1. TaskOf(c)'
    BY <1>1, <1>2, EndsWith, IdleTask DEF UseInv, storeVars
  <2>2. \A d \in Clients \ {c} : TaskOf(d)'
    BY <1>2, EndsWith, TaskOthers DEF UseInv, storeVars
  <2> QED BY <1>2, <2>1, <2>2 DEF StoreMoves
<1>3. CASE Ends(c) /\ UNCHANGED <<storeVars, server, unsure>>
  BY <1>1, <1>2, <1>3 DEF TokenTyped
<1>4. ASSUME NEW rotates \in BOOLEAN, Takes(c, rotates), Ends(c), UNCHANGED storeVars
      PROVE  TokenTyped' /\ StoreMoves(c) /\ \A d \in Clients : TaskOf(d)'
  BY <1>2, <1>4, TakesFacts
<1>5. ASSUME NEW rotates \in BOOLEAN, Takes(c, rotates), Go(c, "codex", "set"),
             NEW a, a = Refreshed(auth[c], Accepted(auth[c].session, rotates)),
             auth' = [auth EXCEPT ![c] = a], Start(c, "set", "codex", a)
      PROVE  TokenTyped' /\ StoreMoves(c) /\ \A d \in Clients : TaskOf(d)'
  <2>1. TokenTyped' /\ a \in Auths
    BY <1>5, TakesFacts
  <2>2. auth'[c] = a /\ \A d \in Clients \ {c} : auth'[d] = auth[d]
    BY <1>5 DEF UseInv, CancelInv, Shape
  <2>3. \A d \in Clients : TaskOf(d)'
    BY <1>5, <2>1, <2>2, SetOf
  <2>4. Begun(c, "set", "codex", a)
    BY <1>1, <1>5, <2>1, CredentialsAssumption DEF Begun, Ops
  <2> QED BY <2>1, <2>3, <2>4 DEF StoreMoves
<1> QED BY <1>3, <1>4, <1>5, RefreshCases

\* A session is granted with its first tokens.
LEMMA GrantedTyped ==
  ASSUME UseInv, Granted
  PROVE  /\ TokenTyped' /\ Len(server') = Len(server) + 1 /\ NewSession = Len(server) /\ NewSession # 0
         /\ server'[NewSession + 1] = [access |-> 0, refresh |-> 0]
         /\ \A s \in 0..(Len(server) - 1) : Server(s)' = Server(s)
         /\ OAuth(NewSession, 0, 0) \in Auths \ {ApiKey} /\ OAuth(NewSession, 0, 0) # None
<1>1. server \in Seq(Tokens) /\ Len(server) \in Nat /\ Len(server) <= MaxSessions
  BY DEF UseInv, CancelInv, Shape, Granted, NewSession
<1>2. /\ Len(server') = Len(server) + 1 /\ server'[Len(server) + 1] = [access |-> 0, refresh |-> 0]
      /\ \A i \in 1..Len(server) : server'[i] = server[i]
  BY <1>1 DEF Granted, Tokens
<1>3. \A i \in 1..(Len(server) + 1) : i \in 1..Len(server) \/ i = Len(server) + 1
  BY <1>1
<1>4. TokenTyped'
  <2>1. [access |-> 0, refresh |-> 0].access \in 0..MaxTokens /\ [access |-> 0, refresh |-> 0].refresh \in 0..0
    BY CredentialsAssumption
  <2>2. Len(server') <= MaxSessions + 1
    BY <1>1, <1>2, CredentialsAssumption
  <2>3. \A i \in 1..Len(server') : server'[i].access \in 0..MaxTokens /\ server'[i].refresh \in 0..server'[i].access
    BY <1>2, <1>3, <2>1 DEF UseInv, TokenTyped
  <2> QED BY <1>1, <1>2, <2>2, <2>3 DEF TokenTyped
<1>5. \A s \in 0..(Len(server) - 1) : Server(s)' = Server(s)
  <2> TAKE s \in 0..(Len(server) - 1)
  <2>1. s + 1 \in 1..Len(server)
    BY <1>1
  <2> QED BY <1>2, <2>1 DEF Server
<1>6. Len(server) \in Sessions /\ OAuth(Len(server), 0, 0) \in Auths \ {ApiKey}
  <2>1. Len(server) \in Sessions /\ 0 \in 0..MaxTokens
    BY <1>1, CredentialsAssumption DEF Sessions
  <2> QED BY <2>1, CredentialsAssumption
<1>7. Len(server) # 0
  BY DEF UseInv, TokenTyped
<1> QED BY <1>1, <1>2, <1>4, <1>5, <1>6, <1>7, StoreAssumption DEF NewSession

\* A step in which only the login of c changes, or its outcome.
LEMMA ExchangeCases ==
  ASSUME UseInv, NEW c \in Clients, ExchangeEnds(c)
  PROVE  \/ \E l : OnlyLogin(c, l)
         \/ /\ Granted /\ UNCHANGED <<storeVars, task, stage, unsure, gone>> /\ Browsing(c)
            /\ \/ auth' = auth
               \/ auth[c] = None /\ stage[c] = "waiting" /\ auth' = [auth EXCEPT ![c] = OAuth(NewSession, 0, 0)]
<1> DEFINE ended == [login[c] EXCEPT !.exchanges = @ - 1]
<1>1. CASE OnlyLogin(c, Settled(ended, "rejected"))
  BY <1>1
<1>2. CASE /\ Granted /\ UNCHANGED <<storeVars, task, stage, unsure, gone>>
           /\ auth' = IF Settled(ended, "resolved").callback = "resolved" /\ auth[c] = None
                      THEN [auth EXCEPT ![c] = OAuth(NewSession, 0, 0)] ELSE auth
  <2>1. Browsing(c)
    BY DEF ExchangeEnds
  <2>2. stage[c] \in {"waiting", "set"} /\ (stage[c] = "set" => auth[c] # None)
    BY <2>1 DEF UseInv, TaskOf, Browsing
  <2>3. CASE auth[c] = None
    BY <1>2, <2>1, <2>2, <2>3
  <2>4. CASE auth[c] # None
    BY <1>2, <2>1, <2>4
  <2> QED BY <2>3, <2>4
<1> QED BY <1>1, <1>2 DEF ExchangeEnds

LEMMA LoginOf ==
  ASSUME UseInv, NEW c \in Clients, (\E l : OnlyLogin(c, l)) \/ ExchangeEnds(c)
  PROVE  TokenTyped' /\ StoreMoves(c) /\ \A d \in Clients : TaskOf(d)'
<1>1. ASSUME NEW l, OnlyLogin(c, l) PROVE TokenTyped' /\ StoreMoves(c) /\ \A d \in Clients : TaskOf(d)'
  BY <1>1, TaskOthers DEF OnlyLogin, storeVars, UseInv, StoreMoves, TokenTyped
<1>2. CASE /\ Granted /\ UNCHANGED <<storeVars, task, stage, unsure, gone>> /\ Browsing(c)
           /\ \/ auth' = auth
              \/ auth[c] = None /\ stage[c] = "waiting" /\ auth' = [auth EXCEPT ![c] = OAuth(NewSession, 0, 0)]
  <2>1. TokenTyped' /\ OAuth(NewSession, 0, 0) \in Auths
    BY <1>2, GrantedTyped
  <2>2. CASE auth' = auth
    BY <1>2, <2>1, <2>2, TaskOthers DEF storeVars, UseInv, StoreMoves
  <2>3. CASE auth[c] = None /\ stage[c] = "waiting" /\ auth' = [auth EXCEPT ![c] = OAuth(NewSession, 0, 0)]
    <3>1. auth'[c] = OAuth(NewSession, 0, 0) /\ \A d \in Clients \ {c} : auth'[d] = auth[d]
      BY <2>3 DEF UseInv, CancelInv, Shape
    <3>2. TaskOf(c)'
      BY <1>2, <2>1, <2>3, <3>1 DEF storeVars, UseInv, TaskOf
    <3> QED BY <1>2, <2>1, <3>1, <3>2, TaskOthers DEF storeVars, UseInv, StoreMoves
  <2> QED BY <1>2, <2>2, <2>3
<1> QED BY <1>1, <1>2, ExchangeCases

LEMMA BrowserOf ==
  ASSUME UseInv, NEW c \in Clients, Callback(c) \/ LoginTimeout(c) \/ Cancel(c)
  PROVE  \E l : OnlyLogin(c, l)
BY DEF Callback, LoginTimeout, Cancel

LEMMA CompleteOf ==
  ASSUME UseInv, NEW c \in Clients, Complete(c)
  PROVE  TokenTyped' /\ StoreMoves(c) /\ \A d \in Clients : TaskOf(d)'
<1>1. task[c] = "browser" /\ stage[c] = "waiting" /\ server' = server /\ TaskOf(c)
  BY DEF Complete, Browsing, UseInv
<1>2. at[c] = "idle" /\ held[c] = NoEntries /\ call[c] = NoCall /\ TokenTyped'
  BY <1>1 DEF TaskOf, UseInv, TokenTyped
<1>3. CASE /\ login[c].callback = "resolved" /\ Go(c, "browser", "set")
           /\ Start(c, "set", "codex", auth[c]) /\ UNCHANGED <<auth, login>>
  <2>1. auth[c] \in Auths
    BY <1>1, <1>3 DEF UseInv, CancelInv, LoginInv, TaskOf
  <2>2. \A d \in Clients : TaskOf(d)'
    BY <1>3, <2>1, SetOf
  <2>3. Begun(c, "set", "codex", auth[c])
    BY <1>2, <1>3, <2>1, CredentialsAssumption DEF Begun, Ops
  <2> QED BY <1>2, <2>2, <2>3 DEF StoreMoves
<1>4. CASE Ends(c) /\ UNCHANGED storeVars
  <2>1. TaskOf(c)'
    BY <1>2, <1>4, EndsWith, IdleTask DEF UseInv, storeVars
  <2> QED BY <1>2, <1>4, <2>1, EndsWith, TaskOthers DEF UseInv, storeVars, StoreMoves
<1> QED BY <1>3, <1>4 DEF Complete

LEMMA DeviceCases ==
  ASSUME UseInv, NEW c \in Clients, DeviceDecides(c)
  PROVE  /\ stage[c] = "polling" /\ UNCHANGED <<unsure, gone>>
         /\ \/ Ends(c) /\ UNCHANGED <<storeVars, server>>
            \/ /\ Granted /\ auth' = [auth EXCEPT ![c] = OAuth(NewSession, 0, 0)] /\ Go(c, task[c], "set")
               /\ Start(c, "set", IF task[c] = "codex-device" THEN "codex" ELSE "copilot", OAuth(NewSession, 0, 0))
BY DEF DeviceDecides, historyVars

LEMMA DeviceOf ==
  ASSUME UseInv, NEW c \in Clients, DeviceDecides(c)
  PROVE  TokenTyped' /\ StoreMoves(c) /\ \A d \in Clients : TaskOf(d)'
<1>1. stage[c] = "polling" /\ TaskOf(c) /\ at[c] = "idle" /\ held[c] = NoEntries /\ call[c] = NoCall /\ task[c] \in DeviceTasks
  <2>1. stage[c] = "polling" /\ TaskOf(c)
    BY DeviceCases DEF UseInv
  <2> QED BY <2>1 DEF TaskOf
<1>2. CASE Ends(c) /\ UNCHANGED <<storeVars, server>>
  <2>1. TaskOf(c)'
    BY <1>1, <1>2, EndsWith, IdleTask DEF UseInv, storeVars
  <2> QED BY <1>2, <2>1, EndsWith, TaskOthers DEF UseInv, storeVars, StoreMoves, TokenTyped
<1>3. CASE /\ Granted /\ auth' = [auth EXCEPT ![c] = OAuth(NewSession, 0, 0)] /\ Go(c, task[c], "set")
           /\ Start(c, "set", IF task[c] = "codex-device" THEN "codex" ELSE "copilot", OAuth(NewSession, 0, 0))
  <2> DEFINE p == IF task[c] = "codex-device" THEN "codex" ELSE "copilot"
  <2>1. TokenTyped' /\ OAuth(NewSession, 0, 0) \in Auths
    BY <1>3, GrantedTyped
  <2>2. auth'[c] = OAuth(NewSession, 0, 0) /\ \A d \in Clients \ {c} : auth'[d] = auth[d]
    BY <1>3 DEF UseInv, CancelInv, Shape
  <2>3. p = (IF task[c] = "copilot-device" THEN "copilot" ELSE "codex") /\ task[c] # "idle" /\ p \in Providers
    BY <1>1, CredentialsAssumption DEF DeviceTasks
  <2>4. \A d \in Clients : TaskOf(d)'
    BY <1>3, <2>1, <2>2, <2>3, SetOf
  <2>5. Begun(c, "set", p, OAuth(NewSession, 0, 0))
    BY <1>1, <1>3, <2>1, <2>3 DEF Begun, Ops
  <2> QED BY <2>1, <2>4, <2>5 DEF StoreMoves
<1> QED BY <1>2, <1>3, DeviceCases

LEMMA StepUse ==
  ASSUME UseInv, SerialInv, [Next]_vars
  PROVE  UseInv' /\ SerialInv'
<1>1. CancelInv'
  BY CancelStep DEF UseInv
<1>2. CASE UNCHANGED vars
  <2>1. \A d \in Clients : TaskOf(d)'
    BY <1>2, TaskOthers DEF vars, storeVars, UseInv
  <2>2. TokenTyped' /\ UNCHANGED storeVars
    BY <1>2 DEF vars, UseInv, TokenTyped
  <2>3. StoreTyped' /\ SerialInv'
    BY <2>2 DEF storeVars, UseInv, StoreTyped, OpShape, SerialInv, SerialStore, Sure, Fits, Effect
  <2> QED BY <1>1, <2>1, <2>2, <2>3 DEF UseInv
<1>3. ASSUME NEW c \in Clients, StoreMoves(c), TokenTyped', \A d \in Clients : TaskOf(d)' PROVE UseInv' /\ SerialInv'
  BY <1>1, <1>3, MovesTyped, MovesSerial DEF UseInv
<1>4. ASSUME NEW c \in Clients, Store(c) \/ StoreTaskEnds(c) \/ Crash(c) \/ Resolved(c) \/ StoreTask(c) \/ StartBrowserOAuth(c) \/ StartDeviceOAuth(c)
      PROVE  UseInv' /\ SerialInv'
  <2>1. TokenTyped'
    BY <1>4 DEF Store, StoreTaskEnds, Crash, Resolved, StoreTask, StartBrowserOAuth, StartDeviceOAuth, LoginBegins, Begins, UseInv, TokenTyped
  <2>2. \A d \in Clients : TaskOf(d)'
    BY <1>4, StoreOf, TaskEndsOf, ResolvedOf, StoreTaskOf, LoginBegun
  <2>3. StoreMoves(c)
    <3>1. CASE StoreTask(c)
      BY <3>1, StoreTaskOf
    <3>2. CASE ~StoreTask(c)
      BY <1>4, <3>2 DEF Store, StoreTaskEnds, Crash, Resolved, StartBrowserOAuth, StartDeviceOAuth, StoreMoves
    <3> QED BY <3>1, <3>2
  <2> QED BY <1>3, <2>1, <2>2, <2>3
<1>5. ASSUME NEW c \in Clients, RefreshAnswered(c) \/ RefreshFails(c) \/ LoginTimeout(c) \/ Callback(c) \/ Cancel(c) \/ ExchangeEnds(c) \/ Complete(c) \/ DeviceDecides(c)
      PROVE  UseInv' /\ SerialInv'
  <2>1. TokenTyped' /\ StoreMoves(c) /\ \A d \in Clients : TaskOf(d)'
    BY <1>5, RefreshOf, LoginOf, BrowserOf, CompleteOf, DeviceOf
  <2> QED BY <1>3, <2>1
<1> QED BY <1>2, <1>4, <1>5 DEF Next, Progress

LEMMA InitUse == Init => UseInv /\ SerialInv
<1> SUFFICES ASSUME Init PROVE UseInv /\ SerialInv
  OBVIOUS
<1>1. CancelInv
  BY InitCancel
<1>2. PICK s \in Stored : file = s.own /\ openCode = s.openCode /\ agentSdk = s.agentSdk
  BY DEF Init, StoreInit
<1>3. file \in Files \cup {Missing} /\ openCode \in Files \cup {Missing} /\ agentSdk \in Files \cup {Missing}
  BY <1>2, StoredAssumption
<1>4. serial \in Entries
  BY <1>3, DecodedEntries DEF Init, StoreInit
<1>5. \A c \in Clients : OpShape(c)
  BY NoEntriesFacts DEF Init, StoreInit, OpShape, NoCall, Ops
<1>6. StoreTyped
  BY <1>3, <1>4, <1>5 DEF Init, StoreInit, StoreTyped
<1>7. \A c \in Clients : TaskOf(c)
  BY DEF Init, StoreInit, TaskOf, NoCall
<1>8. TokenTyped
  <2>1. server = <<[access |-> 0, refresh |-> 0]>>
    BY DEF Init
  <2>2. Len(server) = 1 /\ server[1].access = 0 /\ server[1].refresh = 0
    BY <2>1
  <2> QED BY <2>2, CredentialsAssumption DEF TokenTyped
<1>9. SerialInv
  <2>1. file \notin {Empty, Garbled}
    BY <1>3, StoreAssumption DEF Files
  <2>2. SerialStore
    BY <2>1, NoEntriesFacts DEF Init, StoreInit, SerialStore
  <2>3. \A c \in Clients : Fits(c)
    BY DEF Init, StoreInit, Fits
  <2> QED BY <2>2, <2>3 DEF SerialInv
<1> QED BY <1>1, <1>6, <1>7, <1>8, <1>9 DEF UseInv

\* Unless writes overlapped or were cut off, the file holds what the operations would have
\* left had each been made at once, whatever the number of clients and providers.
THEOREM StoreIsSerial == Spec => []SerialStore
<1>1. UseInv /\ SerialInv /\ [Next]_vars => UseInv' /\ SerialInv'
  BY StepUse
<1>2. SerialInv => SerialStore
  BY DEF SerialInv, SerialStore, Sure
<1> QED BY <1>1, <1>2, InitUse, PTL DEF Spec

-----------------------------------------------------------------------------
(* Sessions that nobody has credentials of.                                *)

\* Credentials of the other programs are of session 0, with its first token.
OldToken(a) == IsOAuth(a) => a.session = 0 /\ a.refresh \in {0, None}
OldInv == \A p \in Providers : OldToken(Decoded(openCode)[p]) /\ OldToken(Decoded(agentSdk)[p])

\* No operation has them, nor the file, nor will an import find them.
Absent(s) ==
  /\ ~Shared(s) /\ (file = Missing => s # 0)
  /\ \A c \in Clients : ~SessionIs(call[c].auth, s) /\ \A p \in Providers : ~SessionIs(held[c][p], s)
  /\ \A p \in Providers : ~SessionIs(serial[p], s)

Known == 0..(Len(server) - 1)
SerialKnown == \A p \in Providers : Clean(serial[p], Known)

\* Where the entries come from that a client reads.
LEMMA HeldFrom ==
  ASSUME StoreTyped, SerialInv, Sure, NEW c \in Clients, Ensure(c) \/ Read(c) \/ ReadFallback(c) \/ Reread(c),
         NEW p \in Providers
  PROVE  \/ held'[c][p] \in {None, call[c].auth, held[c][p], serial[p], Decoded(openCode)[p]}
         \/ file = Missing /\ held'[c][p] = Decoded(agentSdk)[p]
<1>1. file \notin {Empty, Garbled} => Decoded(file) = serial /\ serial \in Entries
  BY FileIsSerial DEF StoreTyped
<1>2. CASE Ensure(c)
  BY <1>2, EnsureHolds, NoEntriesFacts
<1>3. CASE Read(c)
  <2>1. file \notin {Empty, Garbled} => Changed(c)[p] \in {call[c].auth, serial[p]}
    BY <1>1 DEF Changed, Entries
  <2> QED BY <1>1, <1>3, <2>1, ReadHolds, NoEntriesFacts
<1>4. CASE ReadFallback(c)
  <2>1. Merged(c)[p] \in {held[c][p], Decoded(openCode)[p]}
    BY DEF Merged
  <2> QED BY <1>4, <2>1, FallbackHolds
<1>5. CASE Reread(c)
  <2> DEFINE imported == [serial EXCEPT ![call[c].provider] = Decoded(openCode)[call[c].provider]]
  <2>1. imported[p] \in {serial[p], Decoded(openCode)[p]}
    BY DEF StoreTyped, Entries
  <2>2. held'[c] = NoEntries \/ held'[c] = imported
    BY <1>1, <1>5, RereadHolds
  <2> QED BY <2>1, <2>2, NoEntriesFacts
<1> QED BY <1>2, <1>3, <1>4, <1>5

LEMMA NoSession == ASSUME NEW s PROVE ~SessionIs(None, s)
BY DEF SessionIs, IsOAuth

LEMMA AbsentReading ==
  ASSUME StoreTyped, SerialInv, Sure, OldInv, NEW c \in Clients, NEW s, Absent(s),
         Ensure(c) \/ Read(c) \/ ReadFallback(c) \/ Reread(c)
  PROVE  Absent(s)'
<1>1. UNCHANGED <<file, openCode, call, serial>> /\ \A d \in Clients \ {c} : held'[d] = held[d]
  BY ReadingFacts
<1>2. \A p \in Providers : ~SessionIs(held'[c][p], s)
  <2> TAKE p \in Providers
  <2>1. ~SessionIs(Decoded(openCode)[p], s)
    <3>1. openCode = Missing => Decoded(openCode)[p] = None
      BY DEF Decoded
    <3> QED BY <3>1, NoSession DEF Absent, Shared
  <2>2. file = Missing => ~SessionIs(Decoded(agentSdk)[p], s)
    BY DEF OldInv, OldToken, Absent, SessionIs
  <2>3. ~SessionIs(call[c].auth, s) /\ ~SessionIs(held[c][p], s) /\ ~SessionIs(serial[p], s) /\ ~SessionIs(None, s)
    BY NoSession DEF Absent
  <2>4. CASE held'[c][p] \in {None, call[c].auth, held[c][p], serial[p], Decoded(openCode)[p]}
    BY <2>1, <2>3, <2>4
  <2> QED BY <2>2, <2>4, HeldFrom
<1>3. Shared(s)' = Shared(s)
  BY <1>1 DEF Shared
<1> QED BY <1>1, <1>2, <1>3 DEF Absent

\* A step in which nobody begins to store them leaves them absent.
LEMMA AbsentKeeps ==
  ASSUME StoreTyped, SerialInv, Sure', OldInv, NEW c \in Clients, NEW s, Absent(s),
         \/ StoreStep(c) \/ Taken(c) \/ StoreCrash(c) \/ UNCHANGED storeVars
         \/ \E op, p, a : Begun(c, op, p, a) /\ ~SessionIs(a, s)
  PROVE  Absent(s)'
<1>1. CASE Ensure(c) \/ Read(c) \/ ReadFallback(c) \/ Reread(c)
  <2>1. Sure
    BY <1>1, ReadingFacts DEF Sure
  <2> QED BY <1>1, <2>1, AbsentReading
<1>2. CASE Truncate(c)
  BY <1>2, StoreAssumption DEF Truncate, Absent, Shared
<1>3. CASE Write(c)
  <2>1. UNCHANGED <<openCode, call, held>> /\ file' # Missing /\ serial' = held[c]
    BY <1>3, WriteFacts
  <2>2. Shared(s)' = Shared(s)
    BY <2>1 DEF Shared
  <2> QED BY <2>1, <2>2 DEF Absent
<1>4. \A p \in Providers : ~SessionIs(NoEntries[p], s)
  BY NoEntriesFacts, NoSession
<1>5. CASE Taken(c) \/ StoreCrash(c)
  <2>1. /\ UNCHANGED <<file, openCode, serial>> /\ call'[c].auth = None /\ held'[c] = NoEntries
        /\ \A d \in Clients \ {c} : call'[d] = call[d] /\ held'[d] = held[d]
    BY <1>5, LeftFacts DEF NoCall
  <2>2. Shared(s)' = Shared(s)
    BY <2>1 DEF Shared
  <2> QED BY <1>4, <2>1, <2>2, NoSession DEF Absent
<1>6. ASSUME NEW op, NEW p, NEW a, Begun(c, op, p, a), ~SessionIs(a, s) PROVE Absent(s)'
  <2>1. /\ UNCHANGED <<file, openCode, serial>> /\ call'[c].auth = a /\ held'[c] = NoEntries
        /\ \A d \in Clients \ {c} : call'[d] = call[d] /\ held'[d] = held[d]
    BY <1>6 DEF Begun, Start, StoreTyped
  <2>2. Shared(s)' = Shared(s)
    BY <2>1 DEF Shared
  <2> QED BY <1>4, <1>6, <2>1, <2>2 DEF Absent
<1>7. CASE UNCHANGED storeVars
  BY <1>7 DEF storeVars, Absent, Shared
<1> QED BY <1>1, <1>2, <1>3, <1>5, <1>6, <1>7 DEF StoreStep

\* Credentials that only clean sessions go into are clean: the serial entries too.
LEMMA SerialSteps ==
  ASSUME UseInv, NEW c \in Clients, StoreMoves(c)
  PROVE  \/ serial' = serial
         \/ Write(c) /\ \A p \in Providers : serial'[p] \in {None, serial[p], call[c].auth, held[c][p]}
<1>1. CASE Ensure(c) \/ Read(c) \/ ReadFallback(c) \/ Reread(c)
  BY <1>1, ReadingFacts DEF UseInv
<1>2. CASE Truncate(c) \/ Taken(c) \/ StoreCrash(c) \/ UNCHANGED storeVars
  BY <1>2 DEF Truncate, Taken, StoreCrash, storeVars
<1>3. CASE \E op, p, a : Begun(c, op, p, a)
  BY <1>3 DEF Begun, Start
<1>4. CASE Write(c)
  <2>1. serial \in Entries /\ serial' = Effect(c, serial)
    BY <1>4 DEF Write, UseInv, StoreTyped
  <2>2. \A p \in Providers : Effect(c, serial)[p] \in {None, serial[p], call[c].auth, held[c][p]}
    <3> TAKE p \in Providers
    <3>1. CASE call[c].op \in {"set", "delete"}
      BY <2>1, <3>1 DEF Effect, Entries
    <3>2. CASE call[c].op = "get"
      BY <2>1, <3>2 DEF Effect, Entries
    <3>3. CASE call[c].op \notin {"set", "delete", "get"}
      BY <3>3 DEF Effect
    <3> QED BY <3>1, <3>2, <3>3
  <2> QED BY <1>4, <2>1, <2>2
<1> QED BY <1>1, <1>2, <1>3, <1>4 DEF StoreMoves, StoreStep

LEMMA KnownHands ==
  ASSUME UseInv
  PROVE  \A c \in Clients : /\ Clean(auth[c], Known) /\ Clean(call[c].auth, Known)
                            /\ \A p \in Providers : Clean(held[c][p], Known)
<1>1. Good \subseteq Known
  BY DEF Good, Known
<1> QED BY <1>1 DEF UseInv, CancelInv, StoreInv, LoginInv, Clean

LEMMA SerialKnownKeeps ==
  ASSUME UseInv, SerialKnown, NEW c \in Clients, StoreMoves(c), Known \subseteq Known'
  PROVE  SerialKnown'
<1>1. \A p \in Providers : Clean(serial'[p], Known)
  <2> TAKE p \in Providers
  <2>1. Clean(serial[p], Known) /\ Clean(call[c].auth, Known) /\ Clean(held[c][p], Known) /\ Clean(None, Known)
    BY KnownHands DEF SerialKnown, Clean, IsOAuth
  <2>2. serial' = serial \/ serial'[p] \in {None, serial[p], call[c].auth, held[c][p]}
    BY SerialSteps
  <2> QED BY <2>1, <2>2
<1> QED BY <1>1 DEF SerialKnown, Clean

-----------------------------------------------------------------------------
(* What a step of client c does, as far as tokens are concerned.           *)

\* It ends its task.  What it was about to store and has not may be lost.
Left(c) ==
  /\ Taken(c) \/ StoreCrash(c) \/ UNCHANGED storeVars
  /\ Ends(c) /\ UNCHANGED <<server, gone>> /\ unsure \subseteq unsure'
  /\ stage[c] = "set" /\ IsOAuth(auth[c]) => at[c] = "done" \/ auth[c].session \in unsure'

\* It begins one, without credentials.
Opened(c) ==
  /\ UNCHANGED storeVars \/ \E op, p : Begun(c, op, p, None)
  /\ UNCHANGED <<auth, server, unsure, gone>> /\ auth[c] = None /\ at[c] = "idle"
  /\ stage'[c] \in {"store", "get", "waiting", "polling"}
  /\ \A d \in Clients \ {c} : task'[d] = task[d] /\ stage'[d] = stage[d]

\* It is about to refresh what it read.
Asked(c) ==
  /\ Taken(c) /\ at[c] = "done" /\ stage[c] = "get" /\ call[c].provider = "codex"
  /\ Go(c, "codex", "refresh") /\ auth' = [auth EXCEPT ![c] = held[c]["codex"]]
  /\ UNCHANGED <<server, unsure, gone>>

\* Its refresh is taken, and the answer is lost or about to be stored.
Took(c, rotates) ==
  /\ Takes(c, rotates) /\ unsure \subseteq unsure' /\ gone' = gone
  /\ \A d \in Clients \ {c} : stage[d] = "set" /\ SessionIs(auth[d], auth[c].session) => auth[c].session \in unsure'
  /\ \/ Ends(c) /\ UNCHANGED storeVars /\ auth[c].session \in unsure'
     \/ /\ Go(c, "codex", "set")
        /\ auth' = [auth EXCEPT ![c] = Refreshed(auth[c], Accepted(auth[c].session, rotates))]
        /\ Start(c, "set", "codex", Refreshed(auth[c], Accepted(auth[c].session, rotates)))

\* Its login is granted: a browser's, if it is not the first, or that of a device.
GrantKept(c) ==
  /\ Granted /\ UNCHANGED <<storeVars, task, stage, unsure, gone>>
  /\ \/ auth' = auth
     \/ auth[c] = None /\ stage[c] = "waiting" /\ auth' = [auth EXCEPT ![c] = OAuth(NewSession, 0, 0)]
GrantStored(c) ==
  /\ Granted /\ UNCHANGED <<unsure, gone>> /\ stage[c] = "polling"
  /\ auth' = [auth EXCEPT ![c] = OAuth(NewSession, 0, 0)] /\ Go(c, task[c], "set")
  /\ Start(c, "set", IF task[c] = "codex-device" THEN "codex" ELSE "copilot", OAuth(NewSession, 0, 0))

\* It is about to store what a browser's login was granted.
Completes(c) ==
  /\ stage[c] = "waiting" /\ auth[c] # None /\ UNCHANGED <<auth, server, unsure, gone>>
  /\ Go(c, "browser", "set") /\ Start(c, "set", "codex", auth[c])

Idles == UNCHANGED <<storeVars, task, stage, auth, server, unsure, gone>>

Kinds(c) ==
  \/ Store(c) \/ Left(c) \/ Opened(c) \/ Asked(c) \/ (\E rotates \in BOOLEAN : Took(c, rotates))
  \/ GrantKept(c) \/ GrantStored(c) \/ Completes(c) \/ Idles

LEMMA LeftKind ==
  ASSUME UseInv, NEW c \in Clients, StoreTaskEnds(c) \/ Crash(c)
  PROVE  Left(c)
<1>1. CASE StoreTaskEnds(c)
  BY <1>1 DEF StoreTaskEnds, Left, Taken
<1>2. CASE Crash(c)
  <2>1. StoreCrash(c) /\ Ends(c) /\ UNCHANGED <<server, gone>>
    BY <1>2 DEF Crash
  <2>2. unsure' = IF stage[c] = "set" THEN unsure \cup {auth[c].session} ELSE unsure
    BY <1>2 DEF Crash
  <2> QED BY <2>1, <2>2 DEF Left
<1> QED BY <1>1, <1>2

LEMMA ResolvedKind ==
  ASSUME UseInv, NEW c \in Clients, Resolved(c)
  PROVE  Left(c) \/ Asked(c)
<1>1. Taken(c) /\ stage[c] = "get" /\ task[c] = "codex" /\ UNCHANGED <<server, unsure, gone>>
  BY DEF Resolved, historyVars
<1>2. call[c].provider = "codex"
  BY <1>1 DEF UseInv, TaskOf
<1> QED BY <1>1, <1>2 DEF Resolved, Left, Asked, Answer

LEMMA OpenedKind ==
  ASSUME UseInv, NEW c \in Clients, StoreTask(c) \/ StartBrowserOAuth(c) \/ StartDeviceOAuth(c)
  PROVE  Opened(c)
<1>1. task[c] = "idle" /\ UNCHANGED <<auth, server, unsure, gone>>
  BY DEF StoreTask, StartBrowserOAuth, StartDeviceOAuth, LoginBegins, Begins, historyVars
<1>2. auth[c] = None /\ at[c] = "idle"
  BY <1>1 DEF UseInv, TaskOf
<1>3. PICK t, g : Go(c, t, g) /\ g \in {"store", "get", "waiting", "polling"}
  BY DEF StoreTask, StartBrowserOAuth, StartDeviceOAuth
<1>4. /\ stage'[c] \in {"store", "get", "waiting", "polling"}
      /\ \A d \in Clients \ {c} : task'[d] = task[d] /\ stage'[d] = stage[d]
  BY <1>3, GoFacts DEF UseInv
<1>5. UNCHANGED storeVars \/ \E op, p : Begun(c, op, p, None)
  <2>1. CASE StoreTask(c)
    <3>1. \A op \in Ops \ {"none"} : \A p : Start(c, op, p, None) /\ (op \in {"get", "delete"} => p \in Providers) /\ op # "set"
                                            => Begun(c, op, p, None)
      BY <1>2 DEF Begun
    <3> QED BY <2>1, <3>1, CredentialsAssumption DEF StoreTask, Ops
  <2>2. CASE StartBrowserOAuth(c) \/ StartDeviceOAuth(c)
    BY <2>2 DEF StartBrowserOAuth, StartDeviceOAuth
  <2> QED BY <2>1, <2>2
<1> QED BY <1>1, <1>2, <1>4, <1>5 DEF Opened

LEMMA StepKinds ==
  ASSUME UseInv, Next
  PROVE  \E c \in Clients : Kinds(c)
<1>2. ASSUME NEW c \in Clients,
             StoreTaskEnds(c) \/ Crash(c) \/ Resolved(c) \/ StoreTask(c) \/ StartBrowserOAuth(c) \/ StartDeviceOAuth(c) \/ Store(c)
      PROVE  Kinds(c)
  BY <1>2, LeftKind, ResolvedKind, OpenedKind DEF Kinds
<1>3. ASSUME NEW c \in Clients, \E l : OnlyLogin(c, l) PROVE Kinds(c)
  BY <1>3 DEF OnlyLogin, historyVars, Kinds, Idles
<1>4. ASSUME NEW c \in Clients, LoginTimeout(c) \/ Callback(c) \/ Cancel(c) \/ ExchangeEnds(c) PROVE Kinds(c)
  <2>1. CASE LoginTimeout(c) \/ Callback(c) \/ Cancel(c)
    BY <1>3, <2>1, BrowserOf
  <2>2. CASE ExchangeEnds(c)
    BY <1>3, <2>2, ExchangeCases DEF Kinds, GrantKept
  <2> QED BY <1>4, <2>1, <2>2
<1>5. ASSUME NEW c \in Clients, Complete(c) PROVE Kinds(c)
  <2>1. stage[c] = "waiting" /\ UNCHANGED <<server, unsure, gone>>
    BY <1>5 DEF Complete, historyVars
  <2>2. CASE /\ login[c].callback = "resolved" /\ Go(c, "browser", "set")
             /\ Start(c, "set", "codex", auth[c]) /\ auth' = auth
    BY <2>1, <2>2 DEF UseInv, CancelInv, LoginInv, Kinds, Completes
  <2>3. CASE Ends(c) /\ UNCHANGED storeVars
    BY <2>1, <2>3 DEF Kinds, Left
  <2> QED BY <1>5, <2>2, <2>3 DEF Complete
<1>6. ASSUME NEW c \in Clients, DeviceDecides(c) PROVE Kinds(c)
  BY <1>6, DeviceCases DEF Kinds, Left, GrantStored
<1>7. ASSUME NEW c \in Clients, RefreshAnswered(c) \/ RefreshFails(c) PROVE Kinds(c)
  <2>1. stage[c] = "refresh" /\ gone' = gone
    BY <1>7, RefreshCases
  <2>2. CASE Ends(c) /\ UNCHANGED <<storeVars, server, unsure>>
    BY <2>1, <2>2 DEF Kinds, Left
  <2>3. CASE ~(Ends(c) /\ UNCHANGED <<storeVars, server, unsure>>)
    <3>1. \E rotates \in BOOLEAN : Took(c, rotates)
      BY <1>7, <2>1, <2>3, RefreshCases DEF Took
    <3> QED BY <3>1 DEF Kinds
  <2> QED BY <2>2, <2>3
<1> QED BY <1>2, <1>4, <1>5, <1>6, <1>7 DEF Next, Progress

\* What the kinds have in common.
LEMMA AuthOthers ==
  ASSUME UseInv, NEW c \in Clients, Kinds(c), NEW d \in Clients \ {c}
  PROVE  UNCHANGED <<task[d], stage[d], auth[d]>>
<1>1. CASE Store(c) \/ Idles
  BY <1>1 DEF Store, Idles
<1>2. CASE Left(c)
  BY <1>2, EndsWith DEF Left, UseInv
<1>3. CASE Opened(c)
  BY <1>3 DEF Opened
<1>4. CASE Asked(c)
  BY <1>4, GoFacts DEF Asked, UseInv, CancelInv, Shape
<1>5. ASSUME NEW rotates \in BOOLEAN, Took(c, rotates) PROVE UNCHANGED <<task[d], stage[d], auth[d]>>
  BY <1>5, GoFacts, EndsWith DEF Took, UseInv, CancelInv, Shape
<1>6. CASE GrantKept(c)
  BY <1>6 DEF GrantKept, UseInv, CancelInv, Shape
<1>7. CASE GrantStored(c)
  BY <1>7, GoFacts DEF GrantStored, UseInv, CancelInv, Shape
<1>8. CASE Completes(c)
  BY <1>8, GoFacts DEF Completes, UseInv
<1> QED BY <1>1, <1>2, <1>3, <1>4, <1>5, <1>6, <1>7, <1>8 DEF Kinds

\* A client comes by credentials of a session by having held some, or by a grant.
LEMMA AuthFrom ==
  ASSUME UseInv, NEW c \in Clients, Kinds(c), NEW s, SessionIs(auth'[c], s)
  PROVE  \/ SessionIs(auth[c], s)
         \/ Granted /\ s = NewSession
         \/ SessionIs(held[c]["codex"], s) /\ stage[c] = "get" /\ call[c].provider = "codex" /\ at[c] = "done"
<1>1. CASE Store(c) \/ Idles \/ Opened(c) \/ Completes(c)
  BY <1>1 DEF Store, Idles, Opened, Completes
<1>2. CASE Left(c)
  BY <1>2, EndsWith, NoSession DEF Left, UseInv
<1>3. CASE Asked(c)
  BY <1>3 DEF Asked, UseInv, CancelInv, Shape
<1>4. ASSUME NEW rotates \in BOOLEAN, Took(c, rotates) PROVE SessionIs(auth[c], s)
  <2>1. CASE Ends(c)
    BY <2>1, EndsWith, NoSession DEF UseInv
  <2>2. CASE auth' = [auth EXCEPT ![c] = Refreshed(auth[c], Accepted(auth[c].session, rotates))]
    BY <1>4, <2>2, TakesFacts DEF Took, SessionIs, UseInv, CancelInv, Shape
  <2> QED BY <1>4, <2>1, <2>2 DEF Took
<1>5. CASE GrantKept(c) \/ GrantStored(c)
  <2>1. OAuth(NewSession, 0, 0).session = NewSession
    BY DEF OAuth
  <2> QED BY <1>5, <2>1 DEF GrantKept, GrantStored, SessionIs, UseInv, CancelInv, Shape
<1> QED BY <1>1, <1>2, <1>3, <1>4, <1>5 DEF Kinds

\* What is begun to be stored is the credentials that the client then has.
LEMMA MovesOf ==
  ASSUME UseInv, NEW c \in Clients, Kinds(c), UseInv'
  PROVE  \/ StoreStep(c) \/ Taken(c) \/ StoreCrash(c) \/ UNCHANGED storeVars
         \/ \E op, p, a : Begun(c, op, p, a) /\ a \in {None, auth'[c]}
<1>1. CASE Store(c) \/ Idles \/ Left(c) \/ Asked(c) \/ GrantKept(c)
  BY <1>1 DEF Store, Idles, Left, Asked, GrantKept
<1>2. CASE Opened(c)
  BY <1>2 DEF Opened
<1>3. ASSUME NEW p, NEW a, Start(c, "set", p, a), auth'[c] = a, stage[c] \in {"refresh", "polling", "waiting"}, stage'[c] = "set"
      PROVE  \E op, q, b : Begun(c, op, q, b) /\ b \in {None, auth'[c]}
  <2>1. at[c] = "idle"
    BY <1>3 DEF UseInv, TaskOf
  <2>2. a \in Auths \cup {None} /\ p \in Providers
    <3>1. TaskOf(c)' /\ stage'[c] = "set" /\ call'[c].provider = p
      BY <1>3 DEF UseInv, Start, StoreTyped
    <3>2. p \in {"codex", "copilot"} /\ auth'[c] \in Auths \cup {None}
      BY <3>1 DEF TaskOf, SetCall
    <3> QED BY <1>3, <3>2, CredentialsAssumption
  <2>3. Begun(c, "set", p, a)
    BY <1>3, <2>1, <2>2 DEF Begun, Ops
  <2> QED BY <1>3, <2>3
<1>4. ASSUME NEW rotates \in BOOLEAN, Took(c, rotates)
      PROVE  UNCHANGED storeVars \/ \E op, p, a : Begun(c, op, p, a) /\ a \in {None, auth'[c]}
  BY <1>3, <1>4, GoFacts DEF Took, Takes, UseInv, CancelInv, Shape
<1>5. CASE GrantStored(c)
  BY <1>3, <1>5, GoFacts DEF GrantStored, UseInv, CancelInv, Shape
<1>6. CASE Completes(c)
  BY <1>3, <1>6, GoFacts DEF Completes, UseInv
<1> QED BY <1>1, <1>2, <1>4, <1>5, <1>6 DEF Kinds

LEMMA KnownGrows ==
  ASSUME UseInv, NEW c \in Clients, Kinds(c)
  PROVE  /\ Known \subseteq Known' /\ NewSession \notin Known
         /\ Granted \/ Known' = Known
<1>1. Len(server) \in Nat /\ NewSession \notin Known
  BY DEF UseInv, CancelInv, Shape, Known, NewSession
<1>2. CASE server' = server
  BY <1>1, <1>2 DEF Known
<1>3. CASE Granted
  <2>1. Len(server') = Len(server) + 1
    BY <1>3, GrantedTyped
  <2> QED BY <1>1, <1>3, <2>1 DEF Known
<1>4. ASSUME NEW rotates \in BOOLEAN, Takes(c, rotates) PROVE Known' = Known
  BY <1>4, TakesFacts DEF Known
<1>5. server' = server \/ Granted \/ \E rotates \in BOOLEAN : Takes(c, rotates)
  BY DEF Kinds, Store, Left, Opened, Asked, Took, GrantKept, GrantStored, Completes, Idles
<1> QED BY <1>1, <1>2, <1>3, <1>4, <1>5

\* What is uncertain stays so.
LEMMA SureBefore ==
  ASSUME StoreTyped, NEW c \in Clients, StoreMoves(c), Sure'
  PROVE  Sure
<1>1. CASE Ensure(c) \/ Read(c) \/ ReadFallback(c) \/ Reread(c)
  BY <1>1, ReadingFacts DEF Sure
<1>2. CASE Truncate(c) \/ Taken(c) \/ UNCHANGED storeVars
  BY <1>2 DEF Truncate, Taken, storeVars, Sure
<1>3. CASE Write(c)
  BY <1>3 DEF Write, Sure
<1>4. CASE StoreCrash(c)
  BY <1>4 DEF StoreCrash, Sure
<1>5. CASE \E op, p, a : Begun(c, op, p, a)
  BY <1>5 DEF Begun, Start, Sure
<1> QED BY <1>1, <1>2, <1>3, <1>4, <1>5 DEF StoreMoves, StoreStep

Nobody(s) == s \in Known /\ Absent(s) /\ \A d \in Clients : ~SessionIs(auth[d], s)

LEMMA NobodyKeeps ==
  ASSUME UseInv, UseInv', SerialInv, Sure', OldInv, NEW c \in Clients, Kinds(c), NEW s, Nobody(s)
  PROVE  Nobody(s)'
<1>1. ~SessionIs(auth'[c], s)
  <2>1. ~SessionIs(held[c]["codex"], s)
    BY CredentialsAssumption DEF Nobody, Absent
  <2> QED BY <2>1, AuthFrom, KnownGrows DEF Nobody
<1>2. \A d \in Clients : ~SessionIs(auth'[d], s)
  BY <1>1, AuthOthers DEF Nobody
<1>3. Absent(s)'
  <2>1. StoreTyped /\ ~SessionIs(None, s)
    BY NoSession DEF UseInv
  <2>2. \/ StoreStep(c) \/ Taken(c) \/ StoreCrash(c) \/ UNCHANGED storeVars
        \/ \E op, p, a : Begun(c, op, p, a) /\ ~SessionIs(a, s)
    BY <1>1, <2>1, MovesOf
  <2> QED BY <2>1, <2>2, AbsentKeeps DEF Nobody
<1> QED BY <1>2, <1>3, KnownGrows DEF Nobody

-----------------------------------------------------------------------------
(* Logouts.                                                                *)

\* Of a session that was logged out of, nobody has credentials.
GoneInv == Sure => \A s \in gone : Nobody(s)

LEMMA LogoutGone ==
  ASSUME UseInv, SerialInv, SerialKnown, Sure', NEW c \in Clients, Store(c), NEW s \in LoggedOut(c),
         ~Shared(s), \A d \in Clients \ {c} : ~InHand(d, s)
  PROVE  Nobody(s)'
<1>1. /\ at[c] = "write" /\ call[c].op = "delete"
      /\ \A p \in Providers : ~SessionIs(Effect(c, serial)[p], s)
  BY DEF LoggedOut, Dropped
<1>2. Write(c) /\ UNCHANGED <<auth, server>>
  BY <1>1 DEF Store, StoreStep, Ensure, Read, ReadFallback, Reread, Truncate
<1>3. /\ UNCHANGED <<openCode, call, held>> /\ file' # Missing
      /\ serial' = held[c] /\ held[c] = Effect(c, serial)
  BY <1>2, WriteFacts DEF UseInv
<1>4. s \in Known'
  <2>1. PICK p \in Providers : SessionIs(serial[p], s)
    BY DEF LoggedOut, Dropped
  <2> QED BY <1>2, <2>1 DEF SerialKnown, Clean, SessionIs, Known
<1>5. auth[c] = None /\ call[c].auth = None
  <2>1. TaskOf(c)
    BY DEF UseInv
  <2>2. stage[c] = "store"
    BY <1>1, <2>1 DEF TaskOf, SetCall
  <2> QED BY <2>1, <2>2 DEF TaskOf
<1>6. \A d \in Clients : /\ ~SessionIs(auth[d], s) /\ ~SessionIs(call[d].auth, s)
                         /\ \A p \in Providers : ~SessionIs(held[d][p], s)
  <2> TAKE d \in Clients
  <2>1. CASE d = c
    BY <1>1, <1>3, <1>5, <2>1, NoSession
  <2>2. CASE d # c
    BY <2>2 DEF InHand
  <2> QED BY <2>1, <2>2
<1>7. Absent(s)'
  <2>1. ~Shared(s)'
    BY <1>3 DEF Shared
  <2> QED BY <1>1, <1>3, <1>6, <2>1 DEF Absent
<1> QED BY <1>2, <1>4, <1>6, <1>7 DEF Nobody

LEMMA GoneKeeps ==
  ASSUME UseInv, UseInv', SerialInv, OldInv, SerialKnown, GoneInv, NEW c \in Clients, Kinds(c)
  PROVE  GoneInv'
<1> SUFFICES ASSUME Sure', NEW s \in gone' PROVE Nobody(s)'
  BY DEF GoneInv
<1>1. CASE s \in gone
  <2>1. Sure
    <3>1. StoreMoves(c)
      BY MovesOf DEF StoreMoves
    <3> QED BY <3>1, SureBefore DEF UseInv
  <2> QED BY <1>1, <2>1, NobodyKeeps DEF GoneInv
<1>2. CASE s \notin gone
  <2>1. Store(c)
    BY <1>2 DEF Kinds, Left, Opened, Asked, Took, GrantKept, GrantStored, Completes, Idles
  <2>2. s \in LoggedOut(c) /\ ~Shared(s) /\ \A d \in Clients \ {c} : ~InHand(d, s)
    BY <1>2, <2>1 DEF Store
  <2> QED BY <2>1, <2>2, LogoutGone
<1> QED BY <1>1, <1>2
LEMMA FilesStay ==
  ASSUME StoreTyped, NEW c \in Clients, StoreMoves(c)
  PROVE  UNCHANGED <<openCode, agentSdk>>
<1>1. CASE Ensure(c) \/ Read(c) \/ ReadFallback(c) \/ Reread(c)
  BY <1>1, ReadingFacts
<1>2. CASE Truncate(c) \/ Write(c) \/ Taken(c) \/ StoreCrash(c) \/ UNCHANGED storeVars
  BY <1>2 DEF Truncate, Write, Taken, StoreCrash, storeVars
<1>3. CASE \E op, p, a : Begun(c, op, p, a)
  BY <1>3 DEF Begun, Start
<1> QED BY <1>1, <1>2, <1>3 DEF StoreMoves, StoreStep

LogoutInv == UseInv /\ SerialInv /\ OldInv /\ SerialKnown /\ GoneInv

LEMMA StepLogout ==
  ASSUME LogoutInv, [Next]_vars
  PROVE  LogoutInv'
<1>1. UseInv' /\ SerialInv'
  BY StepUse DEF LogoutInv
<1>2. CASE UNCHANGED vars
  <2>1. UNCHANGED storeVars /\ UNCHANGED <<auth, server, gone>>
    BY <1>2 DEF vars
  <2> QED BY <1>1, <2>1 DEF storeVars, LogoutInv, OldInv, SerialKnown, Known, GoneInv, Sure, Nobody, Absent, Shared
<1>3. ASSUME NEW c \in Clients, Kinds(c) PROVE LogoutInv'
  <2>1. StoreMoves(c)
    BY <1>1, <1>3, MovesOf DEF StoreMoves, LogoutInv
  <2>2. OldInv'
    BY <2>1, FilesStay DEF OldInv, LogoutInv, UseInv
  <2>3. SerialKnown'
    BY <1>3, <2>1, KnownGrows, SerialKnownKeeps DEF LogoutInv
  <2>4. GoneInv'
    BY <1>1, <1>3, GoneKeeps DEF LogoutInv
  <2> QED BY <1>1, <2>2, <2>3, <2>4 DEF LogoutInv
<1> QED BY <1>2, <1>3, StepKinds DEF LogoutInv

LEMMA InitOld == Init => OldInv /\ SerialKnown /\ Known = {0}
<1> SUFFICES ASSUME Init PROVE OldInv /\ SerialKnown /\ Known = {0}
  OBVIOUS
<1>1. PICK s \in Stored : file = s.own /\ openCode = s.openCode /\ agentSdk = s.agentSdk
  BY DEF Init, StoreInit
<1>2. \A f \in {s.own, s.openCode, s.agentSdk} : \A p \in Providers : OldToken(Decoded(f)[p])
  <2> TAKE f \in {s.own, s.openCode, s.agentSdk}
  <2> TAKE p \in Providers
  <2>1. CASE f = Missing \/ f[p] = Foreign
    BY <2>1 DEF Decoded, OldToken, IsOAuth
  <2>2. CASE f # Missing /\ f[p] # Foreign
    <3>1. IsOAuth(f[p]) => f[p].session = 0 /\ f[p].refresh \in {0, None}
      BY <2>2, CredentialsAssumption
    <3> QED BY <2>2, <3>1 DEF Decoded, OldToken
  <2> QED BY <2>1, <2>2
<1>3. OldInv
  BY <1>1, <1>2 DEF OldInv
<1>4. server = <<[access |-> 0, refresh |-> 0]>>
  BY DEF Init
<1>5. Known = {0}
  BY <1>4 DEF Known
<1>6. serial = Decoded(file)
  BY DEF Init, StoreInit
<1>7. SerialKnown
  BY <1>1, <1>2, <1>5, <1>6 DEF SerialKnown, Clean, OldToken
<1> QED BY <1>3, <1>5, <1>7

LEMMA InitLogout == Init => LogoutInv
BY InitUse, InitOld DEF LogoutInv, GoneInv, Init

\* What a readable file says is what is serial.
LEMMA ReadableSerial ==
  ASSUME StoreTyped, SerialInv, ~raced, ~cut, Readable
  PROVE  Decoded(file) = serial
BY FileIsSerial DEF Readable, Sure

\* Credentials that were deleted do not come back, unless a client had them in hand or
\* OpenCode's file has them, whatever the number of clients, sessions, tasks and crashes.
THEOREM LogoutStays == Spec => []LogoutHolds
<1>1. LogoutInv /\ [Next]_vars => LogoutInv'
  BY StepLogout
<1>2. LogoutInv => LogoutHolds
  <2> SUFFICES ASSUME LogoutInv, ~raced, ~cut, Readable, NEW p \in Providers, NEW s \in gone
               PROVE  ~SessionIs(Decoded(file)[p], s)
    BY DEF LogoutHolds
  <2>1. Decoded(file) = serial
    BY ReadableSerial DEF LogoutInv, UseInv
  <2> QED BY <2>1 DEF LogoutInv, GoneInv, Sure, Nobody, Absent
<1> QED BY <1>1, <1>2, InitLogout, PTL DEF Spec
-----------------------------------------------------------------------------
(* The refresh tokens of Codex.                                            *)

\* A client that is to store a session's tokens for Codex.
Setter(c, s) == stage[c] = "set" /\ task[c] # "copilot-device" /\ SessionIs(auth[c], s)

\* What a browser's login was granted, and nobody else has.
Fresh(c, s) ==
  /\ auth[c] = OAuth(s, 0, 0) /\ Server(s).refresh = 0 /\ Absent(s)
  /\ \A d \in Clients \ {c} : ~SessionIs(auth[d], s)

\* No client is about to refresh session 0, and none has.
Unasked(c) ==
  /\ ~SessionIs(auth[c], 0)
  /\ stage[c] = "get" /\ call[c].provider = "codex" /\ at[c] = "done" => ~SessionIs(held[c]["codex"], 0)
Untouched == Server(0).refresh = 0 /\ \A c \in Clients : Unasked(c)

\* What c imports from another program's file where there were no credentials.
Imports(c) ==
  /\ at[c] \in {"truncate", "write"} /\ call[c].op \in {"get", "getAll", "ensure"}
  /\ serial["codex"] = None /\ IsOAuth(held[c]["codex"])
Imported(c) ==
  Imports(c) => /\ held[c]["codex"].session = 0 /\ held[c]["codex"].refresh \in {0, None}
                /\ call[c].op # "ensure" => IsOAuth(Decoded(openCode)["codex"])

\* The token that the serial entries hold, when nobody is about to store one.
Settles(s) ==
  /\ s \notin unsure /\ SessionIs(serial["codex"], s) /\ serial["codex"].refresh # None
  /\ \A c \in Clients : Setter(c, s) => at[c] = "done"

EmptyInv == \A c \in Clients : at[c] = "fallback" /\ call[c].op = "get" => held[c][call[c].provider] = None
FreshInv == Sure => \A c \in Clients : stage[c] = "waiting" /\ auth[c] # None => \E s \in Known : Fresh(c, s)
SetterInv == Sure => \A c \in Clients, s \in Known \ unsure : Setter(c, s) => auth[c].refresh = Server(s).refresh
ImportInv == Sure => \A c \in Clients \ stale : Imported(c)
OldTokenInv ==
  Sure => /\ 0 \notin unsure /\ IsOAuth(Decoded(openCode)["codex"]) => SessionIs(serial["codex"], 0) \/ Untouched
          /\ file = Missing => Untouched
          /\ \A c \in Clients \ stale : at[c] \in {"truncate", "write"} /\ call[c].op = "ensure" => Untouched
SerialTokenInv == Sure => \A s \in Known : Settles(s) => serial["codex"].refresh = Server(s).refresh

TokenInv == LogoutInv /\ EmptyInv /\ FreshInv /\ SetterInv /\ ImportInv /\ OldTokenInv /\ SerialTokenInv

\* The server's tokens of a session change only when a client has a refresh taken.
LEMMA ServerSame ==
  ASSUME UseInv, NEW c \in Clients, Kinds(c), NEW s \in Known
  PROVE  Server(s)' = Server(s) \/ \E rotates \in BOOLEAN : Took(c, rotates) /\ s = auth[c].session
<1>1. CASE server' = server
  BY <1>1 DEF Server
<1>2. CASE Granted
  BY <1>2, GrantedTyped DEF Known
<1>3. ASSUME NEW rotates \in BOOLEAN, Took(c, rotates), s # auth[c].session PROVE Server(s)' = Server(s)
  BY <1>3, TakesFacts DEF Took, Known
<1> QED BY <1>1, <1>2, <1>3 DEF Kinds, Store, Left, Opened, Asked, GrantKept, GrantStored, Completes, Idles

\* Where a refresh is taken: the client's credentials, and what the server then has.
LEMMA TookFacts ==
  ASSUME UseInv, NEW c \in Clients, NEW rotates \in BOOLEAN, Took(c, rotates)
  PROVE  /\ SessionIs(auth[c], auth[c].session) /\ auth[c].session \in Known
         /\ stage[c] = "refresh" /\ unsure \subseteq unsure'
         /\ \/ stage'[c] = "idle" /\ auth[c].session \in unsure'
            \/ /\ stage'[c] = "set" /\ task'[c] = "codex" /\ at'[c] = "read"
               /\ SessionIs(auth'[c], auth[c].session)
               /\ auth'[c].refresh = server'[auth[c].session + 1].refresh
<1> DEFINE s == auth[c].session
           fresh == Accepted(s, rotates)
           updated == Refreshed(auth[c], fresh)
<1>1. /\ s \in Known /\ IsOAuth(auth[c]) /\ server'[s + 1] = fresh
      /\ updated \in Auths \ {ApiKey} /\ updated.session = s /\ updated.refresh = fresh.refresh
  BY TakesFacts DEF Took, Known
<1>2. SessionIs(auth[c], s) /\ stage[c] = "refresh" /\ unsure \subseteq unsure'
  BY <1>1 DEF SessionIs, Took, Takes
<1>3. CASE Ends(c) /\ s \in unsure'
  BY <1>1, <1>2, <1>3, EndsWith DEF UseInv
<1>4. CASE /\ Go(c, "codex", "set") /\ auth' = [auth EXCEPT ![c] = updated]
           /\ Start(c, "set", "codex", updated)
  <2>1. auth'[c] = updated
    BY <1>4 DEF UseInv, CancelInv, Shape
  <2>2. SessionIs(auth'[c], s)
    BY <1>1, <2>1, StoreAssumption DEF SessionIs, IsOAuth
  <2>3. stage'[c] = "set" /\ task'[c] = "codex"
    BY <1>4, GoFacts DEF UseInv
  <2>4. at'[c] = "read"
    BY <1>4 DEF Start, UseInv, StoreTyped
  <2> QED BY <1>1, <1>2, <2>1, <2>2, <2>3, <2>4
<1> QED BY <1>3, <1>4 DEF Took

LEMMA UnsureGrows == ASSUME NEW c \in Clients, Kinds(c) PROVE unsure \subseteq unsure'
BY DEF Kinds, Store, Left, Opened, Asked, Took, GrantKept, GrantStored, Completes, Idles

\* A session that is granted: nobody has it yet.
LEMMA GrantedAbsent ==
  ASSUME UseInv, OldInv, SerialKnown, Granted
  PROVE  /\ Absent(NewSession) /\ \A d \in Clients : ~SessionIs(auth[d], NewSession)
         /\ NewSession \in Known' /\ server'[NewSession + 1].refresh = 0
<1>1. NewSession \notin Known /\ NewSession # 0 /\ NewSession = Len(server) /\ Len(server) \in Nat
  BY GrantedTyped DEF Known, UseInv, CancelInv, Shape
<1>2. \A a : Clean(a, Known) => ~SessionIs(a, NewSession)
  BY <1>1 DEF Clean, SessionIs
<1>3. ~Shared(NewSession)
  BY <1>1 DEF Shared, OldInv, OldToken, SessionIs
<1>4. Absent(NewSession)
  BY <1>1, <1>2, <1>3, KnownHands DEF Absent, SerialKnown
<1>5. NewSession \in Known'
  BY <1>1, GrantedTyped DEF Known
<1>6. server'[NewSession + 1].refresh = 0
  BY GrantedTyped
<1> QED BY <1>2, <1>4, <1>5, <1>6, KnownHands

LEMMA FreshKeeps ==
  ASSUME LogoutInv, LogoutInv', FreshInv, NEW c \in Clients, Kinds(c)
  PROVE  FreshInv'
<1> SUFFICES ASSUME Sure', NEW d \in Clients, stage'[d] = "waiting", auth'[d] # None
             PROVE  \E s \in Known' : Fresh(d, s)'
  BY DEF FreshInv
<1>1. UseInv /\ SerialInv /\ OldInv /\ SerialKnown /\ UseInv' /\ StoreTyped /\ TaskOf(c)
  BY DEF LogoutInv, UseInv
<1>2. StoreMoves(c) /\ Sure
  <2>1. StoreMoves(c)
    BY <1>1, MovesOf DEF StoreMoves
  <2> QED BY <1>1, <2>1, SureBefore
<1>3. Known \subseteq Known'
  BY <1>1, KnownGrows
<1>4. CASE d # c
  <2>1. stage[d] = "waiting" /\ auth[d] # None /\ auth'[d] = auth[d]
    BY <1>1, <1>4, AuthOthers
  <2>2. PICK s \in Known : Fresh(d, s)
    BY <1>2, <2>1 DEF FreshInv
  <2>3. ~SessionIs(auth[c], s)
    BY <1>4, <2>2 DEF Fresh
  <2>4. ~SessionIs(auth'[c], s)
    <3>1. ~SessionIs(held[c]["codex"], s)
      BY <2>2, CredentialsAssumption DEF Fresh, Absent
    <3> QED BY <1>1, <2>3, <3>1, AuthFrom, KnownGrows
  <2>5. \A e \in Clients \ {d} : ~SessionIs(auth'[e], s)
    BY <1>1, <2>2, <2>4, AuthOthers DEF Fresh
  <2>6. Absent(s)'
    <3>1. \/ StoreStep(c) \/ Taken(c) \/ StoreCrash(c) \/ UNCHANGED storeVars
          \/ \E op, p, a : Begun(c, op, p, a) /\ ~SessionIs(a, s)
      BY <1>1, <2>4, MovesOf, NoSession
    <3> QED BY <1>1, <2>2, <3>1, AbsentKeeps DEF Fresh
  <2>7. Server(s)' = Server(s)
    <3>1. \A rotates \in BOOLEAN : Took(c, rotates) => s # auth[c].session
      BY <1>1, <2>3, TookFacts
    <3> QED BY <1>1, <3>1, ServerSame
  <2>8. Fresh(d, s)'
    BY <2>1, <2>2, <2>5, <2>6, <2>7 DEF Fresh
  <2> QED BY <1>3, <2>2, <2>8
<1>5. CASE d = c
  <2>1. CASE Store(c)
    <3>1. stage[c] = "waiting"
      BY <1>5, <2>1 DEF Store
    <3>2. at[c] = "idle"
      BY <1>1, <3>1 DEF TaskOf
    <3> QED BY <2>1, <3>2 DEF Store, StoreStep, Ensure, Read, ReadFallback, Reread, Truncate, Write
  <2>2. CASE Left(c)
    BY <1>1, <1>5, <2>2, EndsWith DEF Left, UseInv
  <2>3. CASE Opened(c)
    BY <1>5, <2>3 DEF Opened
  <2>4. CASE Asked(c)
    BY <1>1, <1>5, <2>4, GoFacts DEF Asked, UseInv
  <2>5. CASE \E rotates \in BOOLEAN : Took(c, rotates)
    BY <1>1, <1>5, <2>5, TookFacts
  <2>6. CASE GrantStored(c) \/ Completes(c)
    BY <1>1, <1>5, <2>6, GoFacts DEF GrantStored, Completes, UseInv
  <2>7. CASE Idles \/ (GrantKept(c) /\ auth' = auth)
    <3>1. UNCHANGED storeVars /\ UNCHANGED <<stage, auth>>
      BY <2>7 DEF Idles, GrantKept
    <3>2. PICK s \in Known : Fresh(c, s)
      BY <1>2, <1>5, <3>1 DEF FreshInv
    <3>3. Server(s)' = Server(s)
      <4>1. CASE Idles
        BY <4>1 DEF Idles, Server
      <4>2. CASE Granted
        BY <1>1, <3>2, <4>2, GrantedTyped DEF Known
      <4> QED BY <2>7, <4>1, <4>2 DEF GrantKept
    <3>4. Absent(s)'
      BY <3>1, <3>2 DEF storeVars, Fresh, Absent, Shared
    <3>5. Fresh(c, s)'
      BY <3>1, <3>2, <3>3, <3>4 DEF Fresh
    <3> QED BY <1>3, <1>5, <3>2, <3>5
  <2>8. CASE GrantKept(c) /\ auth' = [auth EXCEPT ![c] = OAuth(NewSession, 0, 0)]
    <3>1. PICK n : n = NewSession /\ Granted /\ UNCHANGED storeVars
      BY <2>8 DEF GrantKept
    <3>2. /\ Absent(n) /\ \A e \in Clients : ~SessionIs(auth[e], n)
          /\ n \in Known' /\ server'[n + 1].refresh = 0
      BY <1>1, <3>1, GrantedAbsent
    <3>3. /\ auth'[c] = OAuth(n, 0, 0)
          /\ \A e \in Clients \ {c} : ~SessionIs(auth'[e], n)
      BY <1>1, <2>8, <3>1, <3>2 DEF UseInv, CancelInv, Shape
    <3>4. Absent(n)'
      BY <3>1, <3>2 DEF storeVars, Absent, Shared
    <3> QED BY <1>5, <3>2, <3>3, <3>4 DEF Fresh, Server
  <2> QED BY <2>1, <2>2, <2>3, <2>4, <2>5, <2>6, <2>7, <2>8 DEF Kinds, GrantKept
<1> QED BY <1>4, <1>5

LEMMA SetterKeeps ==
  ASSUME LogoutInv, LogoutInv', FreshInv, SetterInv, NEW c \in Clients, Kinds(c)
  PROVE  SetterInv'
<1> SUFFICES ASSUME Sure', NEW d \in Clients, NEW s \in Known', s \notin unsure', Setter(d, s)'
             PROVE  auth'[d].refresh = Server(s)'.refresh
  BY DEF SetterInv
<1>1. UseInv /\ SerialInv /\ OldInv /\ SerialKnown /\ UseInv' /\ StoreTyped
  BY DEF LogoutInv, UseInv
<1>2. Sure
  <2>1. StoreMoves(c)
    BY <1>1, MovesOf DEF StoreMoves
  <2> QED BY <1>1, <2>1, SureBefore
<1>3. s \notin unsure
  BY UnsureGrows
<1>4. /\ SessionIs(auth'[d], s) /\ stage'[d] = "set"
      /\ SessionIs(auth[d], s) => s \in Known
  BY <1>1, KnownHands DEF Setter, SessionIs, Clean
<1>5. ASSUME Setter(d, s), auth'[d] = auth[d], \A rotates \in BOOLEAN : ~(Took(c, rotates) /\ s = auth[c].session)
      PROVE  auth'[d].refresh = Server(s)'.refresh
  <2>1. s \in Known
    BY <1>1, <1>5, KnownHands DEF Setter, SessionIs, Clean
  <2>2. auth[d].refresh = Server(s).refresh
    BY <1>2, <1>3, <1>5, <2>1 DEF SetterInv
  <2>3. Server(s)' = Server(s)
    BY <1>1, <1>5, <2>1, ServerSame
  <2> QED BY <1>5, <2>2, <2>3
<1>6. CASE d # c
  <2>1. Setter(d, s) /\ auth'[d] = auth[d]
    <3>1. UNCHANGED <<task[d], stage[d], auth[d]>>
      BY <1>1, <1>6, AuthOthers
    <3> QED BY <3>1 DEF Setter
  <2>2. \A rotates \in BOOLEAN : ~(Took(c, rotates) /\ s = auth[c].session)
    BY <1>4, <1>6, <2>1 DEF Took, Setter
  <2> QED BY <1>5, <2>1, <2>2
<1>7. CASE d = c
  <2>1. CASE Store(c) \/ Idles
    <3>1. UNCHANGED <<task, stage, auth, server>>
      BY <2>1 DEF Store, Idles
    <3>2. Setter(c, s) /\ stage[c] = "set"
      BY <1>7, <3>1 DEF Setter
    <3>3. \A rotates \in BOOLEAN : ~Took(c, rotates)
      BY <3>2 DEF Took, Takes
    <3> QED BY <1>5, <1>7, <3>1, <3>2, <3>3
  <2>2. CASE Left(c)
    BY <1>1, <1>4, <1>7, <2>2, EndsWith DEF Left, UseInv
  <2>3. CASE Opened(c)
    BY <1>4, <1>7, <2>3 DEF Opened
  <2>4. CASE Asked(c)
    BY <1>1, <1>4, <1>7, <2>4, GoFacts DEF Asked, UseInv
  <2>5. ASSUME NEW rotates \in BOOLEAN, Took(c, rotates) PROVE auth'[d].refresh = Server(s)'.refresh
    <3>1. /\ SessionIs(auth'[c], auth[c].session)
          /\ auth'[c].refresh = server'[auth[c].session + 1].refresh
      BY <1>1, <1>4, <1>7, <2>5, TookFacts
    <3>2. s = auth[c].session
      BY <1>4, <1>7, <3>1 DEF SessionIs
    <3> QED BY <1>7, <3>1, <3>2 DEF Server
  <2>6. CASE GrantStored(c)
    <3>1. auth'[c] = OAuth(NewSession, 0, 0)
      BY <1>1, <2>6 DEF GrantStored, UseInv, CancelInv, Shape
    <3>2. server'[NewSession + 1].refresh = 0 /\ OAuth(NewSession, 0, 0).session = NewSession
          /\ OAuth(NewSession, 0, 0).refresh = 0
      BY <1>1, <2>6, GrantedTyped DEF GrantStored, OAuth
    <3>3. s = NewSession
      BY <1>4, <1>7, <3>1, <3>2 DEF SessionIs
    <3> QED BY <1>7, <3>1, <3>2, <3>3 DEF Server
  <2>7. CASE GrantKept(c)
    <3>1. UNCHANGED <<task, stage>> /\ stage[c] = "set" /\ auth' = auth
      BY <1>4, <1>7, <2>7 DEF GrantKept
    <3>2. Setter(c, s)
      BY <1>7, <3>1 DEF Setter
    <3>3. \A rotates \in BOOLEAN : ~Took(c, rotates)
      BY <3>1 DEF Took, Takes
    <3> QED BY <1>5, <1>7, <3>1, <3>2, <3>3
  <2>8. CASE Completes(c)
    <3>1. stage[c] = "waiting" /\ auth[c] # None /\ UNCHANGED <<auth, server>>
      BY <2>8 DEF Completes
    <3>2. PICK u \in Known : Fresh(c, u)
      BY <1>2, <3>1 DEF FreshInv
    <3>3. auth[c].session = u /\ auth[c].refresh = 0 /\ Server(u).refresh = 0
      BY <3>2 DEF Fresh, OAuth
    <3>4. s = u
      BY <1>4, <1>7, <3>1, <3>3 DEF SessionIs
    <3> QED BY <1>7, <3>1, <3>3, <3>4 DEF Server
  <2> QED BY <2>1, <2>2, <2>3, <2>4, <2>5, <2>6, <2>7, <2>8 DEF Kinds
<1> QED BY <1>6, <1>7

\* Where the operation of c and of the others stands after a step of c.
LEMMA OthersHold ==
  ASSUME UseInv, UseInv', NEW c \in Clients, Kinds(c), NEW d \in Clients \ {c}
  PROVE  UNCHANGED <<at[d], held[d], call[d]>>
<1>1. StoreTyped
  BY DEF UseInv
<1>2. CASE Ensure(c) \/ Read(c) \/ ReadFallback(c) \/ Reread(c)
  BY <1>1, <1>2, ReadingFacts
<1>3. CASE Truncate(c)
  BY <1>1, <1>3 DEF Truncate, StoreTyped
<1>4. CASE Write(c)
  BY <1>1, <1>4 DEF Write, StoreTyped
<1>5. CASE Taken(c) \/ StoreCrash(c)
  BY <1>1, <1>5, LeftFacts
<1>6. ASSUME NEW op, NEW p, NEW a, Begun(c, op, p, a) PROVE UNCHANGED <<at[d], held[d], call[d]>>
  BY <1>1, <1>6 DEF Begun, Start, StoreTyped
<1>7. CASE UNCHANGED storeVars
  BY <1>7 DEF storeVars
<1> QED BY <1>2, <1>3, <1>4, <1>5, <1>6, <1>7, MovesOf DEF StoreStep

\* Only operations of the store have it at work.
LEMMA AtWork ==
  ASSUME UseInv, UseInv', NEW c \in Clients, Kinds(c), ~StoreStep(c)
  PROVE  UNCHANGED <<file, openCode, agentSdk, serial>> /\ (UNCHANGED storeVars \/ at'[c] \in {"idle", "ensure", "read"})
<1>1. StoreTyped
  BY DEF UseInv
<1>2. CASE Taken(c) \/ StoreCrash(c)
  BY <1>1, <1>2, LeftFacts
<1>3. ASSUME NEW op, NEW p, NEW a, Begun(c, op, p, a)
      PROVE  UNCHANGED <<file, openCode, agentSdk, serial>> /\ at'[c] \in {"idle", "ensure", "read"}
  BY <1>1, <1>3 DEF Begun, Start, StoreTyped
<1>4. CASE UNCHANGED storeVars
  BY <1>4 DEF storeVars
<1> QED BY <1>2, <1>3, <1>4, MovesOf

LEMMA EmptyKeeps ==
  ASSUME UseInv, UseInv', EmptyInv, NEW c \in Clients, Kinds(c)
  PROVE  EmptyInv'
<1> SUFFICES ASSUME NEW d \in Clients, at'[d] = "fallback", call'[d].op = "get"
             PROVE  held'[d][call'[d].provider] = None
  BY DEF EmptyInv
<1>1. CASE d # c
  BY <1>1, OthersHold DEF EmptyInv
<1>2. CASE d = c /\ ~StoreStep(c)
  BY <1>2, AtWork DEF EmptyInv, storeVars
<1>3. CASE d = c /\ StoreStep(c)
  <2>1. StoreTyped
    BY DEF UseInv
  <2>2. CASE Ensure(c)
    BY <1>3, <2>1, <2>2, EnsureHolds
  <2>3. CASE Read(c)
    BY <1>3, <2>1, <2>3, ReadHolds, ReadingFacts
  <2>4. CASE ReadFallback(c)
    BY <1>3, <2>1, <2>4, FallbackHolds
  <2>5. CASE Reread(c)
    BY <1>3, <2>1, <2>5, RereadHolds
  <2>6. CASE Truncate(c) \/ Write(c)
    BY <1>3, <2>1, <2>6 DEF Truncate, Write, StoreTyped
  <2> QED BY <1>3, <2>2, <2>3, <2>4, <2>5, <2>6 DEF StoreStep
<1> QED BY <1>1, <1>2, <1>3

\* A client that reads credentials of session 0 has them from the entries.
LEMMA AnswersFrom ==
  ASSUME UseInv, UseInv', SerialInv, Sure, Sure', EmptyInv, NEW c \in Clients, Kinds(c), Unasked(c),
         stage'[c] = "get", call'[c].provider = "codex", at'[c] = "done", SessionIs(held'[c]["codex"], 0)
  PROVE  SessionIs(serial'["codex"], 0)
<1>1. StoreTyped /\ TaskOf(c)'
  BY DEF UseInv
<1>2. call'[c].op = "get"
  BY <1>1 DEF TaskOf
<1>3. CASE ~StoreStep(c)
  <2>1. UNCHANGED storeVars
    BY <1>3, AtWork
  <2>2. stage[c] = "get"
    <3>1. CASE Store(c) \/ Idles \/ GrantKept(c)
      BY <3>1 DEF Store, Idles, GrantKept
    <3>2. CASE Left(c)
      BY <3>2, EndsWith DEF Left, UseInv
    <3>3. CASE Opened(c)
      BY <2>1, <3>3 DEF Opened, storeVars
    <3>4. CASE Asked(c) \/ GrantStored(c) \/ Completes(c)
      BY <3>4, GoFacts DEF Asked, GrantStored, Completes, UseInv
    <3>5. CASE \E rotates \in BOOLEAN : Took(c, rotates)
      BY <3>5, TookFacts
    <3> QED BY <3>1, <3>2, <3>3, <3>4, <3>5 DEF Kinds
  <2> QED BY <2>1, <2>2 DEF Unasked, storeVars
<1>4. CASE StoreStep(c)
  <2>1. CASE Ensure(c)
    BY <1>1, <1>2, <2>1, EnsureHolds, ReadingFacts
  <2>2. CASE Read(c)
    <3>1. file \notin {Empty, Garbled} /\ held'[c] = Decoded(file)
      BY <1>1, <2>2, ReadHolds
    <3>2. held'[c] = serial /\ serial' = serial
      BY <1>1, <2>2, <3>1, FileIsSerial, ReadingFacts
    <3> QED BY <3>2
  <2>3. CASE ReadFallback(c)
    <3>1. at[c] = "fallback" /\ call' = call /\ held'[c] = held[c]
      BY <1>1, <1>2, <2>3, FallbackHolds, ReadingFacts
    <3>2. held[c]["codex"] = None
      BY <1>2, <3>1 DEF EmptyInv
    <3> QED BY <3>1, <3>2, NoSession
  <2>4. CASE Reread(c)
    BY <1>1, <2>4, RereadHolds
  <2>5. CASE Truncate(c)
    BY <1>1, <2>5 DEF Truncate, StoreTyped
  <2>6. CASE Write(c)
    BY <1>1, <2>6, WriteFacts
  <2> QED BY <1>4, <2>1, <2>2, <2>3, <2>4, <2>5, <2>6 DEF StoreStep
<1> QED BY <1>3, <1>4

LEMMA UntouchedKeeps ==
  ASSUME UseInv, UseInv', SerialInv, Sure, Sure', EmptyInv, NEW c \in Clients, Kinds(c), Untouched,
         ~SessionIs(serial'["codex"], 0)
  PROVE  Untouched'
<1>1. 0 \in Known
  BY DEF Known, UseInv, TokenTyped, CancelInv, Shape
<1>2. Server(0)' = Server(0)
  <2>1. \A rotates \in BOOLEAN : Took(c, rotates) => auth[c].session # 0
    BY TookFacts DEF Untouched, Unasked
  <2> QED BY <1>1, <2>1, ServerSame
<1>3. ~SessionIs(auth'[c], 0)
  BY <1>1, AuthFrom, KnownGrows DEF Untouched, Unasked
<1>4. Unasked(c)'
  BY <1>3, AnswersFrom DEF Untouched, Unasked
<1>5. \A d \in Clients \ {c} : Unasked(d)'
  BY AuthOthers, OthersHold DEF Untouched, Unasked
<1> QED BY <1>2, <1>4, <1>5 DEF Untouched

\* Which clients are fresh after a step, and at work.
LEMMA StaleSteps ==
  ASSUME UseInv, UseInv', NEW c \in Clients, Kinds(c), ~Write(c)
  PROVE  serial' = serial /\ stale \subseteq stale' \cup {c}
<1>1. StoreTyped
  BY DEF UseInv
<1>2. CASE Ensure(c) \/ Read(c) \/ ReadFallback(c) \/ Reread(c)
  BY <1>1, <1>2, ReadingFacts
<1>3. CASE Truncate(c)
  BY <1>3 DEF Truncate
<1>4. CASE Taken(c) \/ StoreCrash(c)
  BY <1>1, <1>4, LeftFacts
<1>5. ASSUME NEW op, NEW p, NEW a, Begun(c, op, p, a) PROVE serial' = serial /\ stale \subseteq stale' \cup {c}
  BY <1>5 DEF Begun, Start
<1>6. CASE UNCHANGED storeVars
  BY <1>6 DEF storeVars
<1> QED BY <1>2, <1>3, <1>4, <1>5, <1>6, MovesOf DEF StoreStep

\* A write takes session 0 out of the entries where OpenCode's file has it: that is noted.
LEMMA OldDropped ==
  ASSUME UseInv, SerialInv, OldInv, Sure', NEW c \in Clients, Store(c), Write(c), IsOAuth(Decoded(openCode)["codex"]),
         SessionIs(serial["codex"], 0), ~SessionIs(serial'["codex"], 0)
  PROVE  0 \in unsure'
<1>1. at[c] = "write" /\ serial' = Effect(c, serial)
  BY DEF Write
<1>2. 0 \in Sessions
  BY CredentialsAssumption DEF Sessions
<1>3. 0 \in Dropped(c)
  BY <1>1, <1>2, CredentialsAssumption DEF Dropped
<1>4. Shared(0)
  <2>1. openCode # Missing
    BY CredentialsAssumption DEF Decoded, IsOAuth
  <2>2. SessionIs(Decoded(openCode)["codex"], 0)
    BY CredentialsAssumption DEF OldInv, OldToken, SessionIs
  <2> QED BY <2>1, <2>2, CredentialsAssumption DEF Shared
<1> QED BY <1>3, <1>4 DEF Store

\* A kind of step that writes is the store's.
LEMMA WritesStore ==
  ASSUME UseInv, NEW c \in Clients, Kinds(c), Write(c)
  PROVE  Store(c)
<1>1. at[c] = "write" /\ at'[c] = "done"
  BY DEF Write, UseInv, StoreTyped
<1>2. ~UNCHANGED storeVars
  BY <1>1 DEF storeVars
<1>3. ~Taken(c) /\ ~StoreCrash(c) /\ \A op, p, a : ~Start(c, op, p, a)
  BY <1>1, LeftFacts DEF Start, UseInv, StoreTyped
<1> QED BY <1>2, <1>3 DEF Kinds, Left, Opened, Begun, Asked, Took, GrantKept, GrantStored, Completes, Idles

LEMMA OldTokenKeeps ==
  ASSUME LogoutInv, LogoutInv', EmptyInv, OldTokenInv, NEW c \in Clients, Kinds(c)
  PROVE  OldTokenInv'
<1> SUFFICES ASSUME Sure' 
             PROVE  /\ 0 \notin unsure' /\ IsOAuth(Decoded(openCode)["codex"])' => SessionIs(serial'["codex"], 0) \/ Untouched'
                    /\ file' = Missing => Untouched'
                    /\ \A d \in Clients \ stale' : at'[d] \in {"truncate", "write"} /\ call'[d].op = "ensure" => Untouched'
  BY DEF OldTokenInv
<1>1. UseInv /\ SerialInv /\ OldInv /\ UseInv' /\ SerialInv' /\ StoreTyped /\ StoreTyped'
  BY DEF LogoutInv, UseInv
<1>2. StoreMoves(c) /\ Sure /\ openCode' = openCode
  <2>1. StoreMoves(c)
    BY <1>1, MovesOf DEF StoreMoves
  <2> QED BY <1>1, <2>1, SureBefore, FilesStay
<1>3. Untouched => SessionIs(serial'["codex"], 0) \/ Untouched'
  BY <1>1, <1>2, UntouchedKeeps
<1>4. 0 \notin unsure' /\ IsOAuth(Decoded(openCode)["codex"])' => SessionIs(serial'["codex"], 0) \/ Untouched'
  <2> SUFFICES ASSUME 0 \notin unsure', IsOAuth(Decoded(openCode)["codex"]), ~SessionIs(serial'["codex"], 0)
               PROVE  Untouched'
    BY <1>2 DEF Decoded
  <2>1. 0 \notin unsure
    BY UnsureGrows
  <2>2. CASE SessionIs(serial["codex"], 0)
    <3>1. Write(c)
      BY <1>1, <2>2, StaleSteps
    <3> QED BY <1>1, <2>2, <3>1, WritesStore, OldDropped
  <2>3. CASE Untouched
    BY <1>3, <2>3
  <2> QED BY <1>2, <2>1, <2>2, <2>3 DEF OldTokenInv
<1>5. serial' = NoEntries => ~SessionIs(serial'["codex"], 0)
  BY NoEntriesFacts, NoSession, CredentialsAssumption
<1>6. ASSUME file' = Missing PROVE Untouched'
  <2>1. file = Missing
    <3>1. CASE StoreStep(c)
      <4>1. CASE Write(c)
        BY <1>1, <1>6, <4>1, WriteFacts
      <4>2. CASE Truncate(c)
        BY <1>6, <4>2, StoreAssumption DEF Truncate
      <4>3. CASE Ensure(c) \/ Read(c) \/ ReadFallback(c) \/ Reread(c)
        BY <1>1, <1>6, <4>3, ReadingFacts
      <4> QED BY <3>1, <4>1, <4>2, <4>3 DEF StoreStep
    <3>2. CASE ~StoreStep(c)
      BY <1>1, <1>6, <3>2, AtWork
    <3> QED BY <3>1, <3>2
  <2>2. Untouched
    BY <1>2, <2>1 DEF OldTokenInv
  <2>3. serial' = NoEntries
    BY <1>6, StoreAssumption DEF LogoutInv, SerialInv, SerialStore, Sure
  <2> QED BY <1>3, <1>5, <2>2, <2>3
<1>7. ASSUME NEW d \in Clients \ stale', at'[d] \in {"truncate", "write"}, call'[d].op = "ensure" PROVE Untouched'
  <2>1. serial' = NoEntries
    BY <1>1, <1>7 DEF SerialInv, Fits
  <2>2. ~Write(c)
    BY <1>1, <1>7, WriteFacts
  <2>3. CASE d # c
    <3>1. d \notin stale /\ at[d] \in {"truncate", "write"} /\ call[d].op = "ensure"
      BY <1>1, <1>7, <2>2, <2>3, StaleSteps, OthersHold
    <3>2. Untouched
      BY <1>2, <3>1 DEF OldTokenInv
    <3> QED BY <1>3, <1>5, <2>1, <3>2
  <2>4. CASE d = c /\ ~StoreStep(c)
    <3>1. UNCHANGED storeVars
      BY <1>1, <1>7, <2>4, AtWork
    <3>2. Untouched
      BY <1>2, <1>7, <3>1 DEF OldTokenInv, storeVars
    <3> QED BY <1>3, <1>5, <2>1, <3>2
  <2>5. CASE d = c /\ Truncate(c)
    <3>1. c \notin stale /\ at[c] = "truncate" /\ call[c].op = "ensure"
      BY <1>7, <2>5 DEF Truncate
    <3>2. Untouched
      BY <1>2, <3>1 DEF OldTokenInv
    <3> QED BY <1>3, <1>5, <2>1, <3>2
  <2>6. CASE d = c /\ (Ensure(c) \/ Read(c) \/ ReadFallback(c) \/ Reread(c))
    <3>1. call[c].op = "ensure" /\ at'[c] = "truncate"
      BY <1>1, <1>7, <2>6, ReadingFacts
    <3>2. file = Missing
      BY <1>1, <2>6, <3>1, EnsureHolds, ReadHolds, FallbackHolds, RereadHolds
    <3>3. Untouched
      BY <1>2, <3>2 DEF OldTokenInv
    <3> QED BY <1>3, <1>5, <2>1, <3>3
  <2> QED BY <2>2, <2>3, <2>4, <2>5, <2>6 DEF StoreStep
<1> QED BY <1>4, <1>6, <1>7

LEMMA ImportReading ==
  ASSUME StoreTyped, SerialInv, OldInv, Sure, NEW c \in Clients \ stale',
         Ensure(c) \/ Read(c) \/ ReadFallback(c) \/ Reread(c), Imports(c)'
  PROVE  /\ held'[c]["codex"].session = 0 /\ held'[c]["codex"].refresh \in {0, None}
         /\ call'[c].op # "ensure" => IsOAuth(Decoded(openCode)["codex"])'
<1>1. /\ UNCHANGED <<file, openCode, call, serial>> /\ at'[c] = "truncate" /\ serial["codex"] = None
      /\ call[c].op \in {"get", "getAll", "ensure"} /\ IsOAuth(held'[c]["codex"])
  BY ReadingFacts DEF Imports
<1>2. "codex" \in Providers
  BY CredentialsAssumption
<1>3. Decoded(openCode)' = Decoded(openCode)
  BY <1>1 DEF Decoded
<1>4. ASSUME held'[c]["codex"] = Decoded(openCode)["codex"]
      PROVE  /\ held'[c]["codex"].session = 0 /\ held'[c]["codex"].refresh \in {0, None}
             /\ IsOAuth(Decoded(openCode)["codex"])'
  BY <1>1, <1>2, <1>3, <1>4 DEF OldInv, OldToken
<1>5. CASE Ensure(c)
  <2>1. held'[c] = Decoded(agentSdk) /\ call[c].op = "ensure"
    BY <1>1, <1>5, EnsureHolds
  <2> QED BY <1>1, <1>2, <2>1 DEF OldInv, OldToken
<1>6. CASE Read(c)
  BY <1>1, <1>6, ReadHolds
<1>7. CASE ReadFallback(c)
  <2>1. at[c] = "fallback" /\ stale' = stale /\ held'[c] = Merged(c)
    BY <1>1, <1>7, FallbackHolds
  <2>2. held[c] = serial
    BY <2>1 DEF SerialInv, Fits
  <2>3. held'[c]["codex"] = Decoded(openCode)["codex"]
    BY <1>1, <1>2, <2>1, <2>2 DEF Merged
  <2> QED BY <1>4, <2>3
<1>8. CASE Reread(c)
  <2>1. /\ file \notin {Empty, Garbled}
        /\ held'[c] = [Decoded(file) EXCEPT ![call[c].provider] = Decoded(openCode)[call[c].provider]]
    BY <1>1, <1>8, RereadHolds
  <2>2. held'[c] = [serial EXCEPT ![call[c].provider] = Decoded(openCode)[call[c].provider]] /\ serial \in Entries
    BY <2>1, FileIsSerial DEF StoreTyped
  <2>3. held'[c]["codex"] \in {serial["codex"], Decoded(openCode)["codex"]}
    BY <1>2, <2>2 DEF Entries
  <2>4. held'[c]["codex"] # None
    BY <1>1 DEF IsOAuth
  <2> QED BY <1>1, <1>4, <2>3, <2>4
<1> QED BY <1>5, <1>6, <1>7, <1>8

LEMMA ImportKeeps ==
  ASSUME LogoutInv, LogoutInv', ImportInv, NEW c \in Clients, Kinds(c)
  PROVE  ImportInv'
<1> SUFFICES ASSUME Sure', NEW d \in Clients \ stale', Imports(d)'
             PROVE  /\ held'[d]["codex"].session = 0 /\ held'[d]["codex"].refresh \in {0, None}
                    /\ call'[d].op # "ensure" => IsOAuth(Decoded(openCode)["codex"])'
  BY DEF ImportInv, Imported
<1>1. UseInv /\ SerialInv /\ OldInv /\ UseInv' /\ StoreTyped
  BY DEF LogoutInv, UseInv
<1>2. StoreMoves(c) /\ Sure /\ openCode' = openCode
  <2>1. StoreMoves(c)
    BY <1>1, MovesOf DEF StoreMoves
  <2> QED BY <1>1, <2>1, SureBefore, FilesStay
<1>3. at'[d] \in {"truncate", "write"} /\ ~Write(c)
  BY <1>1, WriteFacts DEF Imports
<1>4. ASSUME d \notin stale, UNCHANGED <<held[d], call[d], serial>>, at[d] \in {"truncate", "write"}
      PROVE  /\ held'[d]["codex"].session = 0 /\ held'[d]["codex"].refresh \in {0, None}
             /\ call'[d].op # "ensure" => IsOAuth(Decoded(openCode)["codex"])'
  <2>1. Imports(d)
    BY <1>4 DEF Imports
  <2>2. Imported(d)
    BY <1>2, <1>4 DEF ImportInv
  <2>3. Decoded(openCode)' = Decoded(openCode)
    BY <1>2 DEF Decoded
  <2> QED BY <1>4, <2>1, <2>2, <2>3 DEF Imported, IsOAuth
<1>5. CASE d # c
  BY <1>1, <1>3, <1>4, <1>5, StaleSteps, OthersHold
<1>6. CASE d = c /\ ~StoreStep(c)
  <2>1. UNCHANGED storeVars
    BY <1>1, <1>3, <1>6, AtWork
  <2> QED BY <1>3, <1>4, <2>1 DEF storeVars
<1>7. CASE d = c /\ Truncate(c)
  BY <1>4, <1>7 DEF Truncate
<1>8. CASE d = c /\ (Ensure(c) \/ Read(c) \/ ReadFallback(c) \/ Reread(c))
  BY <1>1, <1>2, <1>8, ImportReading
<1> QED BY <1>3, <1>5, <1>6, <1>7, <1>8 DEF StoreStep

\* Where nothing is written, what is stored is as good as before.
LEMMA SettlesBefore ==
  ASSUME UseInv, UseInv', NEW c \in Clients, Kinds(c), ~Write(c), NEW s, Settles(s)'
  PROVE  Settles(s) /\ \A rotates \in BOOLEAN : Took(c, rotates) => s # auth[c].session
<1>1. /\ s \notin unsure' /\ SessionIs(serial'["codex"], s) /\ serial'["codex"].refresh # None
      /\ \A d \in Clients : Setter(d, s)' => at'[d] = "done"
  BY DEF Settles
<1>2. s \notin unsure /\ serial' = serial
  BY <1>1, UnsureGrows, StaleSteps
<1>3. \A rotates \in BOOLEAN : Took(c, rotates) => s # auth[c].session
  <2> SUFFICES ASSUME NEW rotates \in BOOLEAN, Took(c, rotates), s = auth[c].session PROVE FALSE
    OBVIOUS
  <2>1. stage'[c] = "set" /\ task'[c] = "codex" /\ at'[c] = "read" /\ SessionIs(auth'[c], s)
    BY <1>1, TookFacts
  <2>2. Setter(c, s)'
    BY <2>1 DEF Setter
  <2> QED BY <1>1, <2>1, <2>2
<1>4. ASSUME NEW d \in Clients, Setter(d, s) PROVE at[d] = "done"
  <2>1. stage[d] = "set" /\ SessionIs(auth[d], s) /\ TaskOf(d)
    BY <1>4 DEF Setter, UseInv
  <2>2. ASSUME UNCHANGED <<task[d], stage[d], auth[d], at[d]>> PROVE at[d] = "done"
    <3>1. Setter(d, s)'
      BY <1>4, <2>2 DEF Setter
    <3> QED BY <1>1, <2>2, <3>1
  <2>3. CASE d # c
    BY <2>2, <2>3, AuthOthers, OthersHold
  <2>4. CASE d = c
    <3>1. CASE Store(c)
      <4>1. call[c].op = "set" /\ at[c] \in {"read", "truncate", "write", "done", "threw"}
        BY <2>1, <2>4 DEF TaskOf, SetCall
      <4>2. at'[c] # "done"
        <5>1. CASE Read(c)
          BY <4>1, <5>1, ReadHolds DEF UseInv
        <5>2. CASE Truncate(c)
          BY <5>2 DEF Truncate, UseInv, StoreTyped
        <5> QED BY <3>1, <4>1, <5>1, <5>2 DEF Store, StoreStep, Ensure, ReadFallback, Reread
      <4>3. Setter(c, s)'
        BY <1>4, <2>4, <3>1 DEF Store, Setter
      <4> QED BY <1>1, <4>2, <4>3
    <3>2. CASE Left(c)
      BY <1>1, <2>1, <2>4, <3>2 DEF Left, SessionIs
    <3>3. CASE Opened(c) \/ Asked(c) \/ GrantStored(c) \/ Completes(c)
      BY <2>1, <2>4, <3>3, NoSession DEF Opened, Asked, GrantStored, Completes
    <3>4. CASE \E rotates \in BOOLEAN : Took(c, rotates)
      BY <2>1, <2>4, <3>4, TookFacts
    <3>5. CASE GrantKept(c) \/ Idles
      BY <2>1, <2>2, <2>4, <3>5 DEF GrantKept, Idles, storeVars
    <3> QED BY <3>1, <3>2, <3>3, <3>4, <3>5 DEF Kinds
  <2> QED BY <2>3, <2>4
<1> QED BY <1>1, <1>2, <1>3, <1>4 DEF Settles

\* The token of Codex that a write leaves: set, imported, or as it was.
LEMMA WriteSettles ==
  ASSUME LogoutInv, LogoutInv', SetterInv, ImportInv, OldTokenInv, SerialTokenInv, Sure, Sure',
         NEW c \in Clients, Kinds(c), Write(c), NEW s \in Known, Settles(s)'
  PROVE  serial'["codex"].refresh = Server(s).refresh
<1>1. UseInv /\ SerialInv /\ UseInv' /\ StoreTyped /\ TaskOf(c) /\ OpShape(c) /\ "codex" \in Providers
  BY CredentialsAssumption DEF LogoutInv, UseInv, StoreTyped
<1>2. /\ c \notin stale /\ at[c] = "write" /\ held[c] = Effect(c, serial) /\ serial' = held[c] /\ serial \in Entries
      /\ Fits(c)
  BY <1>1, WriteFacts DEF SerialInv, StoreTyped
<1>3. /\ s \notin unsure' /\ SessionIs(serial'["codex"], s) /\ serial'["codex"].refresh # None
      /\ \A d \in Clients : Setter(d, s)' => at'[d] = "done"
  BY DEF Settles
<1>4. s \notin unsure /\ UNCHANGED <<task, stage, auth>>
  BY <1>1, <1>3, UnsureGrows, WritesStore DEF Store
<1>5. serial'["codex"] # None
  BY <1>3, NoSession
<1>6. ASSUME serial'["codex"] = serial["codex"], ~Setter(c, s) PROVE serial'["codex"].refresh = Server(s).refresh
  <2>1. ASSUME NEW d \in Clients, Setter(d, s) PROVE at[d] = "done"
    <3>1. d # c /\ Setter(d, s)'
      BY <1>4, <1>6, <2>1 DEF Setter
    <3> QED BY <1>1, <1>3, <3>1, OthersHold
  <2>2. Settles(s)
    BY <1>3, <1>4, <1>6, <2>1 DEF Settles
  <2> QED BY <1>6, <2>2 DEF SerialTokenInv
<1>7. stage[c] = "set" => call[c].op = "set" /\ call[c].auth = auth[c] /\ (call[c].provider = "codex" <=> task[c] # "copilot-device")
  BY <1>1 DEF TaskOf, SetCall
<1>8. stage[c] # "set" => call[c].op # "set"
  BY <1>1, <1>2 DEF TaskOf, NoCall
<1>9. CASE call[c].op \in {"set", "delete"} /\ call[c].provider = "codex"
  <2>1. serial' = [serial EXCEPT !["codex"] = call[c].auth]
    BY <1>2, <1>9 DEF Effect
  <2>2. serial'["codex"] = call[c].auth
    BY <1>1, <1>2, <2>1 DEF Entries
  <2>3. stage[c] = "set"
    BY <1>1, <1>5, <2>2 DEF TaskOf
  <2>4. Setter(c, s) /\ serial'["codex"] = auth[c]
    BY <1>3, <1>7, <1>9, <2>2, <2>3 DEF Setter
  <2> QED BY <1>4, <2>4 DEF SetterInv
<1>10. CASE call[c].op \in {"set", "delete"} /\ call[c].provider # "codex"
  <2>1. serial' = [serial EXCEPT ![call[c].provider] = call[c].auth]
    BY <1>2, <1>10 DEF Effect
  <2>2. serial'["codex"] = serial["codex"]
    BY <1>1, <1>2, <1>10, <2>1 DEF Entries
  <2>3. ~Setter(c, s)
    BY <1>7, <1>10 DEF Setter
  <2> QED BY <1>6, <2>2, <2>3
<1>11. ASSUME call[c].op \in {"get", "getAll", "ensure"}, serial["codex"] = None
       PROVE  serial'["codex"].refresh = Server(s).refresh
  <2>1. Imports(c)
    BY <1>2, <1>3, <1>11 DEF Imports, SessionIs
  <2>2. /\ held[c]["codex"].session = 0 /\ held[c]["codex"].refresh \in {0, None}
        /\ call[c].op # "ensure" => IsOAuth(Decoded(openCode)["codex"])
    BY <1>2, <2>1 DEF ImportInv, Imported
  <2>3. s = 0 /\ serial'["codex"].refresh = 0
    BY <1>2, <1>3, <2>2 DEF SessionIs
  <2>4. Untouched
    <3>1. CASE call[c].op = "ensure"
      BY <1>2, <3>1 DEF OldTokenInv
    <3>2. CASE call[c].op # "ensure"
      BY <1>4, <1>11, <2>2, <2>3, <3>2, NoSession DEF OldTokenInv
    <3> QED BY <3>1, <3>2
  <2> QED BY <2>3, <2>4 DEF Untouched
<1>12. CASE call[c].op \in {"get", "getAll", "ensure"}
  <2>1. ~Setter(c, s)
    BY <1>7, <1>12 DEF Setter
  <2>2. CASE serial["codex"] # None
    <3>1. serial'["codex"] = serial["codex"]
      <4>1. CASE call[c].op = "get"
        <5>1. call[c].provider # "codex"
          BY <1>2, <2>2, <4>1 DEF Fits
        <5>2. serial' = [serial EXCEPT ![call[c].provider] = held[c][call[c].provider]]
          BY <1>2, <4>1 DEF Effect
        <5> QED BY <1>1, <1>2, <5>1, <5>2 DEF Entries
      <4>2. CASE call[c].op # "get"
        <5>1. serial' = [p \in Providers |-> IF serial[p] = None THEN held[c][p] ELSE serial[p]]
          BY <1>2, <1>12, <4>2 DEF Effect
        <5> QED BY <1>1, <2>2, <5>1
      <4> QED BY <4>1, <4>2
    <3> QED BY <1>6, <2>1, <3>1
  <2>3. CASE serial["codex"] = None
    BY <1>11, <1>12, <2>3
  <2> QED BY <2>2, <2>3
<1>13. call[c].op \in {"set", "delete", "get", "getAll", "ensure"}
  BY <1>1, <1>2 DEF OpShape, Ops
<1> QED BY <1>9, <1>10, <1>12, <1>13

LEMMA SerialTokenKeeps ==
  ASSUME LogoutInv, LogoutInv', SetterInv, ImportInv, OldTokenInv, SerialTokenInv, NEW c \in Clients, Kinds(c)
  PROVE  SerialTokenInv'
<1> SUFFICES ASSUME Sure', NEW s \in Known', Settles(s)' PROVE serial'["codex"].refresh = Server(s)'.refresh
  BY DEF SerialTokenInv
<1>1. UseInv /\ UseInv' /\ StoreTyped /\ SerialKnown
  BY DEF LogoutInv, UseInv
<1>2. Sure
  <2>1. StoreMoves(c)
    BY <1>1, MovesOf DEF StoreMoves
  <2> QED BY <1>1, <2>1, SureBefore
<1>3. CASE Write(c)
  <2>1. server' = server
    BY <1>1, <1>3, WritesStore DEF Store
  <2>2. s \in Known /\ Server(s)' = Server(s)
    BY <2>1 DEF Known, Server
  <2> QED BY <1>2, <1>3, <2>2, WriteSettles
<1>4. CASE ~Write(c)
  <2>1. Settles(s) /\ \A rotates \in BOOLEAN : Took(c, rotates) => s # auth[c].session
    BY <1>1, <1>4, SettlesBefore
  <2>2. s \in Known
    BY <1>1, <2>1, CredentialsAssumption DEF Settles, SerialKnown, Clean, SessionIs
  <2>3. Server(s)' = Server(s) /\ serial' = serial
    BY <1>1, <1>4, <2>1, <2>2, ServerSame, StaleSteps
  <2> QED BY <1>2, <2>1, <2>2, <2>3 DEF SerialTokenInv
<1> QED BY <1>3, <1>4

LEMMA StepToken ==
  ASSUME TokenInv, [Next]_vars
  PROVE  TokenInv'
<1>1. LogoutInv /\ LogoutInv'
  BY StepLogout DEF TokenInv
<1>2. CASE UNCHANGED vars
  <2>1. UNCHANGED storeVars /\ UNCHANGED <<task, stage, auth, server, unsure>>
    BY <1>2 DEF vars
  <2>2. EmptyInv' /\ FreshInv'
    BY <2>1 DEF storeVars, TokenInv, EmptyInv, FreshInv, Sure, Known, Fresh, Server, Absent, Shared
  <2>3. SetterInv' /\ ImportInv'
    BY <2>1 DEF storeVars, TokenInv, SetterInv, ImportInv, Sure, Known, Setter, Server, Imported, Imports, Decoded
  <2>4. OldTokenInv' /\ SerialTokenInv'
    BY <2>1 DEF storeVars, TokenInv, OldTokenInv, SerialTokenInv, Sure, Known, Setter, Server, Untouched, Unasked, Settles, Decoded
  <2> QED BY <1>1, <2>2, <2>3, <2>4 DEF TokenInv
<1>3. ASSUME NEW c \in Clients, Kinds(c) PROVE TokenInv'
  <2>1. EmptyInv'
    BY <1>1, <1>3, EmptyKeeps DEF TokenInv, LogoutInv
  <2>2. FreshInv' /\ SetterInv'
    BY <1>1, <1>3, FreshKeeps, SetterKeeps DEF TokenInv
  <2>3. ImportInv' /\ OldTokenInv' /\ SerialTokenInv'
    BY <1>1, <1>3, ImportKeeps, OldTokenKeeps, SerialTokenKeeps DEF TokenInv
  <2> QED BY <1>1, <2>1, <2>2, <2>3 DEF TokenInv
<1>4. UseInv
  BY <1>1 DEF LogoutInv
<1> QED BY <1>2, <1>3, <1>4, StepKinds

LEMMA InitToken == Init => TokenInv
<1> SUFFICES ASSUME Init PROVE TokenInv
  OBVIOUS
<1>1. LogoutInv /\ Known = {0}
  BY InitLogout, InitOld
<1>2. \A c \in Clients : at[c] = "idle" /\ stage[c] = "idle" /\ auth[c] = None
  BY DEF Init, StoreInit
<1>3. server = <<[access |-> 0, refresh |-> 0]>>
  BY DEF Init
<1>4. Server(0).refresh = 0
  BY <1>3 DEF Server
<1>5. Untouched
  BY <1>2, <1>4, NoSession DEF Untouched, Unasked
<1>6. SerialTokenInv
  <2> SUFFICES ASSUME NEW s \in Known, Settles(s) PROVE serial["codex"].refresh = Server(s).refresh
    BY DEF SerialTokenInv
  <2>1. s = 0 /\ SessionIs(serial["codex"], 0) /\ serial["codex"].refresh # None
    BY <1>1 DEF Settles
  <2>2. serial["codex"].refresh = 0
    <3>1. PICK t \in Stored : file = t.own
      BY DEF Init, StoreInit
    <3>2. serial = Decoded(file)
      BY DEF Init, StoreInit
    <3>3. file # Missing /\ file["codex"] # Foreign /\ serial["codex"] = file["codex"]
      BY <2>1, <3>2, CredentialsAssumption DEF Decoded, SessionIs, IsOAuth
    <3>4. IsOAuth(file["codex"]) => file["codex"].refresh \in {0, None}
      BY <3>1, <3>3, CredentialsAssumption
    <3> QED BY <2>1, <3>3, <3>4 DEF SessionIs
  <2> QED BY <1>4, <2>1, <2>2
<1> QED BY <1>1, <1>2, <1>5, <1>6 DEF TokenInv, EmptyInv, FreshInv, SetterInv, Setter, ImportInv, Imported, Imports, OldTokenInv

\* Between refreshes the store holds the refresh token of Codex that the server takes, with the
\* exceptions the property names, whatever the number of clients, sessions, refreshes and crashes.
THEOREM TokenKept == Spec => []StoredTokenWorks
<1>1. TokenInv /\ [Next]_vars => TokenInv'
  BY StepToken
<1>2. TokenInv => StoredTokenWorks
  <2> DEFINE a == Decoded(file)["codex"]
  <2> SUFFICES ASSUME TokenInv, ~raced, ~cut, Readable, IsOAuth(a), a.refresh # None, a.session \notin unsure,
                      \A c \in Clients : stage[c] = "set" => ~SessionIs(auth[c], a.session)
               PROVE  a.refresh = Server(a.session).refresh
    BY DEF StoredTokenWorks
  <2>1. a = serial["codex"]
    BY ReadableSerial DEF TokenInv, LogoutInv, UseInv
  <2>2. a.session \in Known
    BY <2>1, CredentialsAssumption DEF TokenInv, LogoutInv, SerialKnown, Clean
  <2>3. Settles(a.session)
    BY <2>1 DEF Settles, SessionIs, Setter
  <2> QED BY <2>1, <2>2, <2>3 DEF TokenInv, SerialTokenInv, Sure
<1> QED BY <1>1, <1>2, InitToken, PTL DEF Spec
=============================================================================
