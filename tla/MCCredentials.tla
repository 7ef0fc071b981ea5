---------------------------- MODULE MCCredentials ----------------------------
(* Two clients; credentials of session 0 may be in one of the files.     *)
EXTENDS Credentials

MCAuths ==
  [session : Sessions, access : 0..MaxTokens, refresh : 0..MaxTokens \cup {None}] \cup {ApiKey}

Holding(codex, copilot) == [p \in Providers |-> IF p = "codex" THEN codex ELSE copilot]
First == OAuth(0, 0, 0)

MCStored ==
  {[own |-> Holding(First, ApiKey), openCode |-> Missing, agentSdk |-> Missing],
   [own |-> Missing, openCode |-> Holding(First, Foreign), agentSdk |-> Holding(None, ApiKey)]}
=============================================================================
