---------------------------- MODULE MounterClient ----------------------------
(***************************************************************************)
(* The Go SDK (mounter/client.go) as the mounter command uses it           *)
(* (cmd/mounter/main.go): one Client, several calls at a time, the token   *)
(* and key files it reads again for every call, and the wrapper at the     *)
(* other end of the socket.  The kubelet rotates the token; an old one is  *)
(* good until the next rotation.  The wrapper can be absent, hang, carry   *)
(* out a call whose caller has given up, or answer what cannot be decoded. *)
(***************************************************************************)
EXTENDS Naturals, Integers

CONSTANTS
    Calls,        \* goroutines that use the client
    Methods,      \* what they call: "mount", "unmount", "health"
    Configs,      \* ways to make a client: [by, timeout, disable]
    MaxTokens,    \* tokens issued in the end
    KeyFiles,     \* states of the key file: "unset", "missing", "key"
    None

ASSUME ClientAssumption ==
    /\ Methods \subseteq {"mount", "unmount", "health"}
    /\ MaxTokens \in Nat \ {0}
    /\ KeyFiles \subseteq {"unset", "missing", "key"}
    /\ None \notin {"ok", "error", "rejected", "local"}

VARIABLES
    config,       \* how the client was made
    client,       \* None: NewClient failed; else its timeout, 0 for none
    token,        \* the newest token; the file holds it, or is absent
    tokenPresent, \* the token file can be read and is not empty
    keyFile,
    calls         \* goroutine -> its call

clientVars == <<config, client, token, tokenPresent, keyFile, calls>>

-----------------------------------------------------------------------------
(* NewClient.  The command turns its one number into the two settings.      *)

defaultHTTPTimeout == 15

ZeroIsNoTimeout(cfg) ==
    IF cfg.timeout < 0 THEN None ELSE IF cfg.disable THEN 0 ELSE cfg.timeout

NewClient(cfg) ==
    IF cfg.timeout < 0 THEN None
    ELSE IF cfg.disable THEN 0
    ELSE IF cfg.timeout = 0 THEN defaultHTTPTimeout ELSE cfg.timeout

CLIConfig(t) == [timeout |-> IF t < 0 THEN 0 ELSE t, disable |-> t <= 0]

ClientFor(cfg) ==
    NewClient(IF cfg.by = "command" THEN CLIConfig(cfg.timeout)
              ELSE [timeout |-> cfg.timeout, disable |-> cfg.disable])

-----------------------------------------------------------------------------
(* A call: its step, what it sends, what the wrapper makes of it, and what  *)
(* the caller is told.  since is the newest token when the call began.      *)

Idle == [step |-> "idle", op |-> None, since |-> 0, token |-> 0, key |-> FALSE,
         server |-> "unreached", result |-> None]

Returned(c, result) == [calls EXCEPT ![c].step = "returned", ![c].result = result]

ClientInit ==
    /\ config \in Configs
    /\ client = ClientFor(config)
    /\ token = 1
    /\ tokenPresent \in BOOLEAN
    /\ keyFile \in KeyFiles
    /\ calls = [c \in Calls |-> Idle]

\* Mount, Unmount and Health up to validateRequest.
Begin(c, op) ==
    /\ calls[c].step = "idle"
    /\ client # None
    /\ \/ calls' = [calls EXCEPT ![c] =
                      [Idle EXCEPT !.step = IF op = "health" THEN "send" ELSE "token",
                                   !.op = op, !.since = token]]
       \/ /\ op # "health"
          /\ calls' = [calls EXCEPT ![c] = [Idle EXCEPT !.step = "returned", !.op = op,
                                                        !.since = token, !.result = "local"]]
    /\ UNCHANGED <<config, client, token, tokenPresent, keyFile>>

ReadTokenOnce(c) ==
    /\ calls[c].step = "token"
    /\ calls' = [calls EXCEPT ![c].token = 1,
                              ![c].step = IF calls[c].op = "mount" THEN "key"
                                          ELSE "send"]
    /\ UNCHANGED <<config, client, token, tokenPresent, keyFile>>

ReadToken(c) ==
    /\ calls[c].step = "token"
    /\ calls' = IF ~tokenPresent THEN Returned(c, "local")
                ELSE [calls EXCEPT ![c].token = token,
                                   ![c].step = IF calls[c].op = "mount" THEN "key"
                                               ELSE "send"]
    /\ UNCHANGED <<config, client, token, tokenPresent, keyFile>>

ReadExportRootKey(c) ==
    /\ calls[c].step = "key"
    /\ calls' = IF keyFile = "missing" THEN Returned(c, "local")
                ELSE [calls EXCEPT ![c].key = (keyFile = "key"), ![c].step = "send"]
    /\ UNCHANGED <<config, client, token, tokenPresent, keyFile>>

\* httpClient.Do: nobody listens on the socket, or the request is on its way.
Send(c) ==
    /\ calls[c].step = "send"
    /\ calls' \in {Returned(c, "error"),
                   [calls EXCEPT ![c].step = "sent", ![c].server = "received"]}
    /\ UNCHANGED <<config, client, token, tokenPresent, keyFile>>

\* The wrapper (external), whether or not the caller still waits.
Valid(t) == t + 1 >= token
Serve(c) ==
    /\ calls[c].server = "received"
    /\ calls' \in IF calls[c].op # "health" /\ ~Valid(calls[c].token)
                  THEN {[calls EXCEPT ![c].server = "expired"]}
                  ELSE {[calls EXCEPT ![c].server = "done"],
                        [calls EXCEPT ![c].server = "refused"]}
    /\ UNCHANGED <<config, client, token, tokenPresent, keyFile>>

ErrorStatusIgnored(c) ==
    /\ calls[c].step = "sent"
    /\ calls[c].server \in {"done", "refused", "expired"}
    /\ calls' = Returned(c, "ok")
    /\ UNCHANGED <<config, client, token, tokenPresent, keyFile>>

\* The answer: a status outside 2xx makes a ResponseError whatever its body; a
\* body that is cut off, has no data or does not decode is an error too.
Receive(c) ==
    /\ calls[c].step = "sent"
    /\ calls[c].server \in {"done", "refused", "expired"}
    /\ calls' \in IF calls[c].server = "done"
                  THEN {Returned(c, "ok"), Returned(c, "error")}
                  ELSE {Returned(c, "rejected"), Returned(c, "error")}
    /\ UNCHANGED <<config, client, token, tokenPresent, keyFile>>

Timeout(c) ==
    /\ calls[c].step = "sent"
    /\ client # 0
    /\ calls' = Returned(c, "error")
    /\ UNCHANGED <<config, client, token, tokenPresent, keyFile>>

\* The goroutine calls again.  What the wrapper still does for the old call does
\* not concern it: every call has its own connection or its turn on one.
Again(c) ==
    /\ calls[c].step = "returned"
    /\ calls' = [calls EXCEPT ![c] = Idle]
    /\ UNCHANGED <<config, client, token, tokenPresent, keyFile>>

\* The kubelet writes a new token; the volume appears; the key file is changed.
RotateToken ==
    /\ token < MaxTokens
    /\ token' = token + 1
    /\ tokenPresent' = TRUE
    /\ UNCHANGED <<config, client, keyFile, calls>>

ChangeKeyFile ==
    /\ keyFile # "unset"
    /\ keyFile' \in (KeyFiles \ {"unset"}) \ {keyFile}
    /\ UNCHANGED <<config, client, token, tokenPresent, calls>>

ClientNext ==
    \/ \E c \in Calls :
          \/ \E op \in Methods : Begin(c, op)
          \/ ReadToken(c) \/ ReadExportRootKey(c) \/ Send(c)
          \/ Serve(c) \/ Receive(c) \/ Timeout(c) \/ Again(c)
    \/ RotateToken
    \/ ChangeKeyFile

ClientSpec == ClientInit /\ [][ClientNext]_clientVars

\* A goroutine runs on, and the HTTP client's timer fires.  The wrapper owes
\* nothing: it may never serve the call.
ClientFairness ==
    \A c \in Calls :
        /\ WF_clientVars(ReadToken(c)) /\ WF_clientVars(ReadExportRootKey(c))
        /\ WF_clientVars(Send(c)) /\ WF_clientVars(Timeout(c))

FairClientSpec == ClientSpec /\ ClientFairness

-----------------------------------------------------------------------------
(* A caller is told of success only when the wrapper carried this call out, *)
(* and a failure before the request was sent means that it did nothing      *)
(* (Client.call).                                                           *)
ReportsAreTrue ==
    \A c \in Calls :
        /\ calls[c].result = "ok" => calls[c].server = "done"
        /\ calls[c].result = "local" => calls[c].server = "unreached"

(* A long-lived client is not turned down for an old token: that takes two  *)
(* rotations between the start of the call and its arrival at the wrapper   *)
(* (Config.TokenFile: read for every request).                              *)
ExpiredOnlyIfOvertaken ==
    \A c \in Calls : calls[c].server = "expired" => token >= calls[c].since + 2

TimeoutWanted ==
    IF config.by = "command" THEN config.timeout > 0
    ELSE config.timeout >= 0 /\ ~config.disable

(* Unless its owner has switched the timeout off, a call returns even when  *)
(* the wrapper never answers (NewClient, HTTPTimeout).                      *)
CallsReturn ==
    TimeoutWanted => \A c \in Calls : calls[c].step # "idle" ~> calls[c].step = "returned"
=============================================================================
