---------------------------- MODULE RequestProofs ----------------------------
(***************************************************************************)
(* Proofs about what a caller sends: the calls of the SDK, with any number *)
(* of goroutines and rotations of the token; the request that the mounter  *)
(* command makes, from any flags, environment and --config; and the rules  *)
(* for the paths in it, for paths of any length and any denied trees.      *)
(***************************************************************************)
EXTENDS MounterClient, MounterRequest, PathPolicy, SequenceTheorems, WellFoundedInduction, TLAPS

-----------------------------------------------------------------------------
(* The SDK.                                                                *)

Steps == {"idle", "token", "key", "send", "sent", "returned"}
Answers == {"unreached", "received", "done", "refused", "expired"}
Results == {None, "ok", "error", "rejected", "local"}
CallRecords == [step : Steps, op : Methods \cup {None}, since : Nat, token : Nat,
                key : BOOLEAN, server : Answers, result : Results]

\* One call: the wrapper is reached by a call that was sent, the token of one
\* that has read it is no older than the call, and what the caller is told fits.
CallOK(call) ==
    /\ call.step \in {"idle", "token", "key", "send"} =>
          call.server = "unreached" /\ call.result = None
    /\ call.step = "sent" => call.server # "unreached" /\ call.result = None
    /\ call.since <= token
    /\ call.op # "health" /\ (call.step \in {"key", "send"} \/ call.server # "unreached")
          => call.token >= call.since
    /\ call.result = "ok" => call.server = "done"
    /\ call.result = "local" => call.server = "unreached"
    /\ call.server = "expired" => token >= call.since + 2

ClientInv ==
    /\ token \in Nat
    /\ calls \in [Calls -> CallRecords]
    /\ \A c \in Calls : CallOK(calls[c])

\* A step of one call.
LEMMA OneCall ==
    ASSUME ClientInv, NEW c \in Calls, NEW d \in CallRecords, CallOK(d),
           calls' = [calls EXCEPT ![c] = d], token' = token
    PROVE  ClientInv'
  BY DEF ClientInv, CallOK

LEMMA ClientStep == ClientInv /\ [ClientNext]_clientVars => ClientInv'
  <1> SUFFICES ASSUME ClientInv, [ClientNext]_clientVars PROVE ClientInv'
    OBVIOUS
  <1>0. calls \in [Calls -> CallRecords] /\ token \in Nat /\ \A c \in Calls : CallOK(calls[c])
    BY DEF ClientInv
  <1>1. ASSUME NEW c \in Calls, NEW op \in Methods, Begin(c, op) PROVE ClientInv'
    <2>1. /\ calls[c].step = "idle" /\ token' = token
          /\ \/ calls' = [calls EXCEPT ![c] =
                             [Idle EXCEPT !.step = IF op = "health" THEN "send" ELSE "token",
                                          !.op = op, !.since = token]]
             \/ calls' = [calls EXCEPT ![c] = [Idle EXCEPT !.step = "returned", !.op = op,
                                                           !.since = token, !.result = "local"]]
      BY <1>1 DEF Begin
    <2>2. PICK d : /\ calls' = [calls EXCEPT ![c] = d]
                   /\ \/ op # "health"
                         /\ d = [Idle EXCEPT !.step = "token", !.op = op, !.since = token]
                      \/ op = "health"
                         /\ d = [Idle EXCEPT !.step = "send", !.op = op, !.since = token]
                      \/ d = [Idle EXCEPT !.step = "returned", !.op = op,
                                          !.since = token, !.result = "local"]
      BY <2>1
    <2>0. /\ Idle \in CallRecords /\ Idle.server = "unreached" /\ Idle.result = None
      BY DEF Idle, CallRecords, Steps, Answers, Results
    <2>3. /\ d \in CallRecords /\ d.since = token /\ d.server = "unreached" /\ d.op = op
          /\ \/ d.step = "token" /\ d.result = None
             \/ d.step = "send" /\ d.result = None /\ d.op = "health"
             \/ d.step = "returned" /\ d.result = "local"
      BY <1>0, <2>2, <2>0 DEF CallRecords, Steps, Answers, Results
    <2>4. CallOK(d)
      BY <1>0, <2>3, ClientAssumption DEF CallOK
    <2> QED  BY <2>1, <2>2, <2>3, <2>4, OneCall
  <1>2. ASSUME NEW c \in Calls, NEW r \in Results, calls[c].step # "returned",
               \/ r = "error" \/ r = "rejected"
               \/ r = "local" /\ calls[c].server = "unreached"
               \/ r = "ok" /\ calls[c].server = "done",
               calls' = Returned(c, r), token' = token
        PROVE  ClientInv'
    <2>1. PICK d : d = [calls[c] EXCEPT !.step = "returned", !.result = r]
      OBVIOUS
    <2>2. calls' = [calls EXCEPT ![c] = d]
      BY <1>0, <1>2, <2>1 DEF Returned, CallRecords
    <2>3. /\ d \in CallRecords /\ d.step = "returned" /\ d.result = r
          /\ d.server = calls[c].server /\ d.op = calls[c].op
          /\ d.token = calls[c].token /\ d.since = calls[c].since
      BY <1>0, <2>1 DEF CallRecords, Steps
    <2>4. CallOK(d)
      BY <1>0, <1>2, <2>3, ClientAssumption DEF CallOK
    <2> QED  BY <1>2, <2>2, <2>3, <2>4, OneCall
  <1>3. ASSUME NEW c \in Calls, ReadToken(c) PROVE ClientInv'
    <2>1. calls[c].step = "token" /\ token' = token /\ CallOK(calls[c])
      BY <1>0, <1>3 DEF ReadToken
    <2>2. CASE ~tokenPresent
      BY <1>2, <1>3, <2>1, <2>2 DEF ReadToken, CallOK, Results
    <2>3. CASE tokenPresent
      <3>1. PICK d : d = [calls[c] EXCEPT !.token = token,
                             !.step = IF calls[c].op = "mount" THEN "key" ELSE "send"]
        OBVIOUS
      <3>2. calls' = [calls EXCEPT ![c] = d]
        BY <1>0, <1>3, <2>3, <3>1 DEF ReadToken, CallRecords
      <3>3. /\ d \in CallRecords /\ d.step \in {"key", "send"} /\ d.result = calls[c].result
            /\ d.server = calls[c].server /\ d.op = calls[c].op
            /\ d.token = token /\ d.since = calls[c].since
        BY <1>0, <3>1 DEF CallRecords, Steps
      <3>4. CallOK(d)
        BY <1>0, <2>1, <3>3, ClientAssumption DEF CallOK, CallRecords
      <3> QED  BY <2>1, <3>2, <3>3, <3>4, OneCall
    <2> QED  BY <2>2, <2>3
  <1>4. ASSUME NEW c \in Calls, ReadExportRootKey(c) PROVE ClientInv'
    <2>1. calls[c].step = "key" /\ token' = token /\ CallOK(calls[c])
      BY <1>0, <1>4 DEF ReadExportRootKey
    <2>2. CASE keyFile = "missing"
      BY <1>2, <1>4, <2>1, <2>2 DEF ReadExportRootKey, CallOK, Results
    <2>3. CASE keyFile # "missing"
      <3>1. PICK d : d = [calls[c] EXCEPT !.key = (keyFile = "key"), !.step = "send"]
        OBVIOUS
      <3>2. calls' = [calls EXCEPT ![c] = d]
        BY <1>0, <1>4, <2>3, <3>1 DEF ReadExportRootKey, CallRecords
      <3>3. /\ d \in CallRecords /\ d.step = "send" /\ d.result = calls[c].result
            /\ d.server = calls[c].server /\ d.op = calls[c].op
            /\ d.token = calls[c].token /\ d.since = calls[c].since
        BY <1>0, <3>1 DEF CallRecords, Steps
      <3>4. CallOK(d)
        BY <1>0, <2>1, <3>3, ClientAssumption DEF CallOK, CallRecords
      <3> QED  BY <2>1, <3>2, <3>3, <3>4, OneCall
    <2> QED  BY <2>2, <2>3
  <1>5. ASSUME NEW c \in Calls, Send(c) PROVE ClientInv'
    <2>1. calls[c].step = "send" /\ token' = token /\ CallOK(calls[c])
      BY <1>0, <1>5 DEF Send
    <2>2. CASE calls' = Returned(c, "error")
      BY <1>2, <2>1, <2>2 DEF Results
    <2>3. CASE calls' = [calls EXCEPT ![c].step = "sent", ![c].server = "received"]
      <3>1. PICK d : d = [calls[c] EXCEPT !.step = "sent", !.server = "received"]
        OBVIOUS
      <3>2. calls' = [calls EXCEPT ![c] = d]
        BY <1>0, <2>3, <3>1 DEF CallRecords
      <3>3. /\ d \in CallRecords /\ d.step = "sent" /\ d.result = calls[c].result
            /\ d.server = "received" /\ d.op = calls[c].op
            /\ d.token = calls[c].token /\ d.since = calls[c].since
        BY <1>0, <3>1 DEF CallRecords, Steps, Answers
      <3>4. CallOK(d)
        BY <1>0, <2>1, <3>3, ClientAssumption DEF CallOK, CallRecords
      <3> QED  BY <2>1, <3>2, <3>3, <3>4, OneCall
    <2> QED  BY <1>5, <2>2, <2>3 DEF Send
  <1>6. ASSUME NEW c \in Calls, Serve(c) PROVE ClientInv'
    <2>1. calls[c].server = "received" /\ token' = token /\ CallOK(calls[c])
      BY <1>0, <1>6 DEF Serve
    <2>2. PICK v \in {"done", "refused", "expired"} :
             /\ calls' = [calls EXCEPT ![c].server = v]
             /\ v = "expired" => calls[c].op # "health" /\ ~(calls[c].token + 1 >= token)
      BY <1>6 DEF Serve, Valid
    <2>3. PICK d : d = [calls[c] EXCEPT !.server = v]
      OBVIOUS
    <2>4. calls' = [calls EXCEPT ![c] = d]
      BY <1>0, <2>2, <2>3 DEF CallRecords
    <2>5. /\ d \in CallRecords /\ d.step = calls[c].step /\ d.result = calls[c].result
          /\ d.server = v /\ d.op = calls[c].op
          /\ d.token = calls[c].token /\ d.since = calls[c].since
      BY <1>0, <2>2, <2>3 DEF CallRecords, Answers
    <2>6. calls[c].token \in Nat /\ calls[c].since \in Nat
      BY <1>0 DEF CallRecords
    <2>7. v = "expired" => token >= d.since + 2
      BY <1>0, <2>1, <2>2, <2>5, <2>6 DEF CallOK
    <2>8. CallOK(d)
      BY <1>0, <2>1, <2>2, <2>5, <2>6, <2>7, ClientAssumption DEF CallOK
    <2> QED  BY <2>1, <2>4, <2>5, <2>8, OneCall
  <1>7. ASSUME NEW c \in Calls, Receive(c) PROVE ClientInv'
    <2>1. calls[c].step = "sent" /\ token' = token
      BY <1>7 DEF Receive
    <2>2. PICK r \in Results :
             /\ calls' = Returned(c, r)
             /\ \/ r = "error" \/ r = "rejected"
                \/ r = "ok" /\ calls[c].server = "done"
      BY <1>7 DEF Receive, Results
    <2> QED  BY <1>2, <2>1, <2>2
  <1>8. ASSUME NEW c \in Calls, Timeout(c) PROVE ClientInv'
    BY <1>2, <1>8 DEF Timeout, Results
  <1>9. ASSUME NEW c \in Calls, Again(c) PROVE ClientInv'
    <2>1. /\ Idle \in CallRecords /\ Idle.step = "idle" /\ Idle.server = "unreached"
          /\ Idle.result = None /\ Idle.since = 0
      BY DEF Idle, CallRecords, Steps, Answers, Results
    <2>2. CallOK(Idle)
      BY <1>0, <2>1, ClientAssumption DEF CallOK
    <2> QED  BY <1>9, <2>1, <2>2, OneCall DEF Again
  <1>10. ASSUME RotateToken PROVE ClientInv'
    <2>1. token' = token + 1 /\ calls' = calls
      BY <1>10 DEF RotateToken
    <2>2. \A c \in Calls : calls[c].since \in Nat
      BY <1>0 DEF CallRecords
    <2> QED  BY <1>0, <2>1, <2>2 DEF ClientInv, CallOK
  <1>11. ASSUME ChangeKeyFile \/ UNCHANGED clientVars PROVE ClientInv'
    BY <1>11 DEF ChangeKeyFile, clientVars, ClientInv, CallOK
  <1> QED  BY <1>1, <1>3, <1>4, <1>5, <1>6, <1>7, <1>8, <1>9, <1>10, <1>11 DEF ClientNext

(* For any number of goroutines, rotations and restarts of the wrapper: a   *)
(* call of the SDK that reports success was carried out, one that failed    *)
(* before it was sent had no effect, and a token is refused as too old only *)
(* after two rotations since the call began.                                *)
THEOREM CallsKeepTheirWord == ClientSpec => []ClientInv
  <1>1. ClientInit => ClientInv
    <2> SUFFICES ASSUME ClientInit PROVE ClientInv
      OBVIOUS
    <2>1. token = 1 /\ calls = [c \in Calls |-> Idle]
      BY DEF ClientInit
    <2>2. /\ Idle \in CallRecords /\ Idle.step = "idle" /\ Idle.server = "unreached"
          /\ Idle.result = None /\ Idle.since = 0
      BY DEF Idle, CallRecords, Steps, Answers, Results
    <2>3. CallOK(Idle)
      BY <2>1, <2>2, ClientAssumption DEF CallOK
    <2> QED  BY <2>1, <2>2, <2>3 DEF ClientInv
  <1> QED  BY <1>1, ClientStep, PTL DEF ClientSpec

(* Success is reported only for a call that the wrapper carried out, and a  *)
(* failure before the request was sent means that nothing was done.         *)
THEOREM ReportsTrue == ClientSpec => []ReportsAreTrue
  <1>1. ClientInv => ReportsAreTrue
    BY DEF ClientInv, CallOK, ReportsAreTrue
  <1> QED  BY <1>1, CallsKeepTheirWord, PTL

(* A client may live on through any number of token rotations: it is turned *)
(* down for an old token only if two of them overtook the call itself.      *)
THEOREM TokensAreFresh == ClientSpec => []ExpiredOnlyIfOvertaken
  <1>1. ClientInv => ExpiredOnlyIfOvertaken
    BY DEF ClientInv, CallOK, ExpiredOnlyIfOvertaken
  <1> QED  BY <1>1, CallsKeepTheirWord, PTL

-----------------------------------------------------------------------------
(* The mounter command.                                                    *)

CommandInv ==
    /\ input \in Inputs
    /\ done \in [Commands -> {Unset} \cup {Request(c, input) : c \in Commands}]
    /\ \A c \in Commands : done[c] \in {Unset, Request(c, input)}

LEMMA CommandsMakeRequests == CommandSpec => []CommandInv
  <1>1. CommandInit => CommandInv
    BY DEF CommandInit, CommandInv
  <1>2. CommandInv /\ [CommandNext]_commandVars => CommandInv'
    <2> SUFFICES ASSUME CommandInv, [CommandNext]_commandVars PROVE CommandInv'
      OBVIOUS
    <2>1. ASSUME NEW c \in Commands, Run(c) PROVE CommandInv'
      <3>1. done' = [done EXCEPT ![c] = Request(c, input)] /\ input' = input
        BY <2>1 DEF Run
      <3> QED  BY <3>1 DEF CommandInv
    <2>2. ASSUME UNCHANGED commandVars PROVE CommandInv'
      BY <2>2 DEF commandVars, CommandInv
    <2> QED  BY <2>1, <2>2 DEF CommandNext
  <1> QED  BY <1>1, <1>2, PTL DEF CommandSpec

\* Where the fields of a request come from, whatever the command.
PVOf(in) ==
    IF in.config # Unset THEN pvNameFromNodePublishRequest(in.config)
    ELSE IF in.pv \in {Unset, NoValue} THEN NoValue ELSE <<in.pv>>
TargetOf(in) ==
    IF in.config # Unset THEN in.config.target ELSE FlagOr(in.target, NoValue)

LEMMA FieldsOfRequest ==
    ASSUME NEW command, NEW in
    PROVE  LET r == Made(command, in)
           IN  /\ r.namespace = Resolved(in.namespace) /\ r.podName = Resolved(in.podName)
               /\ r.podUID = Resolved(in.podUID)
               /\ r.container = FlagOr(in.container[1], in.container[2])
               /\ r.pv = PVOf(in) /\ r.target = TargetOf(in)
  <1>1. CASE in.config = Unset
    BY <1>1 DEF Made, Configured, FromFlags, PVOf, TargetOf
  <1>2. CASE in.config # Unset
    BY <1>2 DEF Made, Configured, FromFlags, applyNodePublishConfig, PVOf, TargetOf
  <1> QED  BY <1>1, <1>2

(* From any flags, environment, files and --config: whatever a command line *)
(* mounted, the same line with unmount for mount addresses.                 *)
THEOREM UnmountFindsMount == CommandSpec => []UnmountAddressesMount
  <1>1. CommandInv => UnmountAddressesMount
    <2> SUFFICES ASSUME CommandInv, done["mount"] \notin {NoValue, Unset}
                 PROVE  LET removed == Request("unmount", [input EXCEPT !.subPath = Unset])
                        IN  /\ removed # NoValue
                            /\ \A f \in Fields : removed[f] = done["mount"][f]
      BY DEF UnmountAddressesMount
    <2>1. PICK in : in = [input EXCEPT !.subPath = Unset]
      OBVIOUS
    <2>2. done["mount"] = Request("mount", input) /\ input \in Inputs
      BY DEF CommandInv, Commands
    <2>3. /\ done["mount"] = Made("mount", input)
          /\ Parses("mount", input) /\ validateCLIRequest(Made("mount", input))
      BY <2>2 DEF Request
    <2>4. /\ in \in Inputs /\ in.namespace = input.namespace /\ in.podName = input.podName
          /\ in.podUID = input.podUID /\ in.container = input.container
          /\ in.pv = input.pv /\ in.target = input.target /\ in.config = input.config
          /\ in.subPath = Unset
      BY <2>1, <2>2, RequestAssumption DEF Inputs
    <2>5. Parses("unmount", in)
      BY <2>3, <2>4 DEF Parses
    <2>6. PICK m : m = Made("mount", input)
      OBVIOUS
    <2>7. PICK r : r = Made("unmount", in)
      OBVIOUS
    <2>8. /\ r.namespace = m.namespace /\ r.podName = m.podName /\ r.podUID = m.podUID
          /\ r.container = m.container /\ r.pv = m.pv /\ r.target = m.target
      <3>1. PVOf(in) = PVOf(input) /\ TargetOf(in) = TargetOf(input)
        BY <2>4 DEF PVOf, TargetOf
      <3>2. /\ r.namespace = Resolved(in.namespace) /\ r.podName = Resolved(in.podName)
            /\ r.podUID = Resolved(in.podUID) /\ r.pv = PVOf(in) /\ r.target = TargetOf(in)
            /\ r.container = FlagOr(in.container[1], in.container[2])
        BY <2>7, FieldsOfRequest
      <3>3. /\ m.namespace = Resolved(input.namespace) /\ m.podName = Resolved(input.podName)
            /\ m.podUID = Resolved(input.podUID) /\ m.pv = PVOf(input)
            /\ m.target = TargetOf(input)
            /\ m.container = FlagOr(input.container[1], input.container[2])
        BY <2>6, FieldsOfRequest
      <3> QED  BY <2>4, <3>1, <3>2, <3>3
    <2>9. validateCLIRequest(r)
      BY <2>3, <2>6, <2>8 DEF validateCLIRequest
    <2>10. Request("unmount", in) = r /\ r # NoValue
      BY <2>4, <2>5, <2>7, <2>9, ErrorAssumption DEF Request, Commands
    <2>11. \A f \in Fields : r[f] = m[f]
      BY <2>8 DEF Fields
    <2> QED  BY <2>1, <2>3, <2>6, <2>10, <2>11
  <1> QED  BY <1>1, CommandsMakeRequests, PTL

(* And a request takes PV and target from one place, and is complete.       *)
THEOREM RequestsWhole == CommandSpec => []RequestsAreWhole
  <1>1. CommandInv => RequestsAreWhole
    <2> SUFFICES ASSUME CommandInv, NEW c \in Commands, done[c] \notin {NoValue, Unset}
                 PROVE  OneOrigin(c) /\ SDKAccepts(done[c])
      BY DEF RequestsAreWhole
    <2>1. PICK r : r = Made(c, input)
      OBVIOUS
    <2>2. done[c] = r /\ validateCLIRequest(r)
      BY <2>1 DEF CommandInv, Request
    <2>3. r.pv = PVOf(input) /\ r.target = TargetOf(input)
      BY <2>1, FieldsOfRequest
    <2>4. /\ r.namespace # NoValue /\ r.podName # NoValue /\ r.podUID # NoValue
          /\ r.pv # NoValue /\ r.target # NoValue
      BY <2>2 DEF validateCLIRequest
    <2>5. SDKAccepts(r)
      BY <2>4 DEF SDKAccepts, Fields
    <2>6. CASE input.config = Unset
      <3>1. r.pv = <<input.pv>> /\ r.target = input.target
        BY <2>3, <2>4, <2>6 DEF PVOf, TargetOf, FlagOr
      <3> QED  BY <2>2, <2>5, <2>6, <3>1 DEF OneOrigin
    <2>7. CASE input.config # Unset
      <3>1. r.pv = pvNameFromNodePublishRequest(input.config) /\ r.target = input.config.target
        BY <2>3, <2>7 DEF PVOf, TargetOf
      <3> QED  BY <2>2, <2>5, <2>7, <3>1 DEF OneOrigin
    <2> QED  BY <2>6, <2>7
  <1> QED  BY <1>1, CommandsMakeRequests, PTL

-----------------------------------------------------------------------------
(* Paths: the walk as a function of the number of steps.                   *)

LEMMA LeastNat ==
    ASSUME NEW T, T \subseteq Nat, T # {}
    PROVE  \E x \in T : \A y \in T : x <= y
  <1>1. PICK x \in T : \A y \in T : ~(<<y, x>> \in OpToRel(<, Nat))
    BY NatLessThanWellFounded, WFMin
  <1>2. ASSUME NEW y \in T PROVE x <= y
    <2>1. x \in Nat /\ y \in Nat
      OBVIOUS
    <2>2. ~(y < x)
      BY <1>1, <2>1 DEF OpToRel
    <2> QED  BY <2>1, <2>2
  <1> QED  BY <1>2

\* w is where the walk along s is after the first n of its segments.
WalksTo(w, s, n) == w = [k \in 0..n |-> IF k = 0 THEN <<>> ELSE Step(w[k - 1], s[k])]

LEMMA WalkExists ==
    ASSUME NEW s, Len(s) \in Nat
    PROVE  \E w : WalksTo(w, s, Len(s))
  <1> DEFINE T == {n \in 0..Len(s) : ~ \E w : WalksTo(w, s, n)}
  <1> SUFFICES ASSUME T # {} PROVE FALSE
    OBVIOUS
  <1>1. PICK n \in T : \A k \in T : n <= k
    <2>1. T \subseteq Nat
      OBVIOUS
    <2> QED  BY <2>1, LeastNat
  <1>2. CASE n = 0
    <2>1. WalksTo([k \in 0..0 |-> <<>>], s, 0)
      BY DEF WalksTo
    <2> QED  BY <1>1, <1>2, <2>1
  <1>3. CASE n # 0
    <2>1. n - 1 \in 0..Len(s) /\ n - 1 \notin T /\ n \in Nat
      BY <1>1, <1>3
    <2>2. PICK w : WalksTo(w, s, n - 1)
      BY <2>1
    <2>3. PICK v : v = [k \in 0..n |-> IF k = n THEN Step(w[n - 1], s[n]) ELSE w[k]]
      OBVIOUS
    <2>4. \A k \in 0..(n - 1) : v[k] = w[k]
      BY <2>1, <2>3
    <2>5. ASSUME NEW k \in 0..n
          PROVE  v[k] = IF k = 0 THEN <<>> ELSE Step(v[k - 1], s[k])
      <3>1. CASE k = n
        <4>1. v[k] = Step(w[n - 1], s[n]) /\ n - 1 \in 0..(n - 1)
          BY <2>1, <2>3, <3>1
        <4> QED  BY <1>3, <2>4, <3>1, <4>1
      <3>2. CASE k # n
        <4>1. k \in 0..(n - 1) /\ (k # 0 => k - 1 \in 0..(n - 1))
          BY <2>1, <3>2
        <4>2. w[k] = IF k = 0 THEN <<>> ELSE Step(w[k - 1], s[k])
          BY <2>2, <4>1 DEF WalksTo
        <4> QED  BY <2>4, <4>1, <4>2
      <3> QED  BY <3>1, <3>2
    <2>6. v = [k \in 0..n |-> v[k]]
      BY <2>3
    <2>7. WalksTo(v, s, n)
      BY <2>5, <2>6 DEF WalksTo
    <2> QED  BY <1>1, <2>7
  <1> QED  BY <1>2, <1>3

\* A walk along s: a function on the numbers of steps.
IsWalk(w, s) ==
    /\ w = [k \in 0..Len(s) |-> w[k]]
    /\ w[0] = <<>>
    /\ \A k \in 1..Len(s) : w[k] = Step(w[k - 1], s[k])

LEMMA WalkIsWalk ==
    ASSUME NEW s, Len(s) \in Nat
    PROVE  \E w : IsWalk(w, s) /\ Walk(s) = w[Len(s)]
  <1> DEFINE at == CHOOSE w : WalksTo(w, s, Len(s))
  <1>1. Walk(s) = at[Len(s)]
    BY DEF Walk, WalksTo
  <1>2. WalksTo(at, s, Len(s))
    BY WalkExists
  <1> HIDE DEF at
  <1>3. at = [k \in 0..Len(s) |-> IF k = 0 THEN <<>> ELSE Step(at[k - 1], s[k])]
    BY <1>2 DEF WalksTo
  <1>4. \A k \in 0..Len(s) : at[k] = IF k = 0 THEN <<>> ELSE Step(at[k - 1], s[k])
    BY <1>3
  <1>5. at = [k \in 0..Len(s) |-> at[k]]
    BY <1>3
  <1>6. IsWalk(at, s)
    BY <1>4, <1>5 DEF IsWalk
  <1> QED  BY <1>1, <1>6

\* There is one walk along a path.
LEMMA OneWalk ==
    ASSUME NEW s, Len(s) \in Nat, NEW v, NEW w, IsWalk(v, s), IsWalk(w, s)
    PROVE  \A n \in 0..Len(s) : v[n] = w[n]
  <1> DEFINE T == {n \in 0..Len(s) : v[n] # w[n]}
  <1> SUFFICES ASSUME T # {} PROVE FALSE
    OBVIOUS
  <1>1. PICK n \in T : \A k \in T : n <= k
    <2>1. T \subseteq Nat
      OBVIOUS
    <2> QED  BY <2>1, LeastNat
  <1>2. n # 0
    BY <1>1 DEF IsWalk
  <1>3. n - 1 \in 0..Len(s) /\ n - 1 \notin T /\ n \in 1..Len(s)
    BY <1>1, <1>2
  <1>4. v[n - 1] = w[n - 1]
    BY <1>3
  <1> QED  BY <1>1, <1>3, <1>4 DEF IsWalk

LEMMA WalkAlong ==
    ASSUME NEW s, Len(s) \in Nat, NEW w, IsWalk(w, s)
    PROVE  Walk(s) = w[Len(s)]
  <1>1. PICK v : IsWalk(v, s) /\ Walk(s) = v[Len(s)]
    BY WalkIsWalk
  <1>2. v[Len(s)] = w[Len(s)]
    BY <1>1, OneWalk
  <1> QED  BY <1>1, <1>2

\* The names in a path: what is neither empty nor a dot.
Dots == {Nothing, Dot, DotDot}
LEMMA DotsDiffer == Nothing # Dot /\ Nothing # DotDot /\ Dot # DotDot
  BY DEF Nothing, Dot, DotDot

NamesIn(s) == {x \in Range(s) : x \notin Dots}

LEMMA SegmentSeq ==
    ASSUME NEW S, NEW s \in Seq(S)
    PROVE  /\ Len(s) \in Nat /\ DOMAIN s = 1..Len(s) /\ Range(s) \subseteq S
           /\ \A i \in 1..Len(s) : s[i] \in S /\ s[i] \in Range(s)
           /\ s = <<>> <=> Len(s) = 0
  BY LenProperties, ElementOfSeq, EmptySeq DEF Range

LEMMA FrontSeq ==
    ASSUME NEW S, NEW s \in Seq(S), s # <<>>
    PROVE  SubSeq(s, 1, Len(s) - 1) \in Seq(S)
  <1>1. Len(s) \in Nat /\ \A i \in 1..(Len(s) - 1) : s[i] \in S
    BY SegmentSeq
  <1> QED  BY <1>1, SubSeqProperties

\* The place that a walk leads to is described by names alone.
LEMMA WalkNames ==
    ASSUME NEW S, NEW s \in Seq(S), NEW w, IsWalk(w, s)
    PROVE  \A n \in 0..Len(s) : w[n] \in Seq(NamesIn(s))
  <1> DEFINE T == {n \in 0..Len(s) : w[n] \notin Seq(NamesIn(s))}
  <1> SUFFICES ASSUME T # {} PROVE FALSE
    OBVIOUS
  <1>0. Len(s) \in Nat /\ \A i \in 1..Len(s) : s[i] \in Range(s)
    BY SegmentSeq
  <1>1. PICK n \in T : \A k \in T : n <= k
    <2>1. T \subseteq Nat
      BY <1>0
    <2> QED  BY <2>1, LeastNat
  <1>2. n # 0
    <2>1. w[0] = <<>> /\ <<>> \in Seq(NamesIn(s))
      BY DEF IsWalk
    <2> QED  BY <1>1, <2>1
  <1>3. n - 1 \in 0..Len(s) /\ n - 1 \notin T /\ n \in 1..Len(s)
    BY <1>0, <1>1, <1>2
  <1>4. PICK here : here = w[n - 1]
    OBVIOUS
  <1>5. PICK x : x = s[n]
    OBVIOUS
  <1>6. here \in Seq(NamesIn(s)) /\ x \in Range(s) /\ w[n] = Step(here, x)
    BY <1>0, <1>3, <1>4, <1>5 DEF IsWalk
  <1>7. CASE x \in {Nothing, Dot} \/ (here = <<>> /\ x = DotDot)
    BY <1>1, <1>6, <1>7 DEF Step
  <1>8. CASE x \notin Dots
    <2>1. x \in NamesIn(s) /\ Step(here, x) = Append(here, x)
      BY <1>6, <1>8 DEF Step, NamesIn, Dots
    <2>2. Append(here, x) \in Seq(NamesIn(s))
      BY <1>6, <2>1, AppendProperties
    <2> QED  BY <1>1, <1>6, <2>1, <2>2
  <1>9. CASE x = DotDot /\ here # <<>>
    <2>1. Step(here, x) = SubSeq(here, 1, Len(here) - 1)
      BY <1>9, DotsDiffer DEF Step
    <2>2. SubSeq(here, 1, Len(here) - 1) \in Seq(NamesIn(s))
      BY <1>6, <1>9, FrontSeq
    <2> QED  BY <1>1, <1>6, <2>1, <2>2
  <1> QED  BY <1>7, <1>8, <1>9 DEF Dots

LEMMA PlaceNames ==
    ASSUME NEW S, NEW s \in Seq(S)
    PROVE  Walk(s) \in Seq(NamesIn(s)) /\ Walk(s) \in Seq(S)
  <1>1. Len(s) \in Nat /\ NamesIn(s) \subseteq S
    BY SegmentSeq DEF NamesIn
  <1>2. PICK w : IsWalk(w, s) /\ Walk(s) = w[Len(s)]
    BY <1>1, WalkIsWalk
  <1>3. Walk(s) \in Seq(NamesIn(s))
    BY <1>1, <1>2, WalkNames
  <1> QED  BY <1>1, <1>3, SeqMonotonic

-----------------------------------------------------------------------------
(* What path.Clean and the loop of sourceSubPathSegments compute.          *)

\* One step of path.Clean is a step of the walk: below the root always, and
\* elsewhere unless a path goes up.
LEMMA CleanStepIsStep ==
    ASSUME NEW S, NEW out \in Seq(S), S \cap Dots = {}, NEW x, NEW rooted \in BOOLEAN,
           rooted \/ x # DotDot
    PROVE  CleanStep(rooted, out, x) = Step(out, x)
  <1>1. CASE x # DotDot
    BY <1>1 DEF CleanStep, Step
  <1>2. CASE x = DotDot /\ out = <<>>
    BY <1>2 DEF CleanStep, Step
  <1>3. CASE x = DotDot /\ out # <<>>
    <2>1. Last(out) # DotDot
      <3>1. Len(out) \in 1..Len(out)
        BY <1>3, SegmentSeq
      <3>2. out[Len(out)] \in S
        BY <3>1, SegmentSeq
      <3> QED  BY <3>2 DEF Last, Dots
    <2>2. CleanStep(rooted, out, x) = Front(out)
      BY <1>3, <2>1 DEF CleanStep
    <2>3. Step(out, x) = SubSeq(out, 1, Len(out) - 1)
      BY <1>3, DotsDiffer DEF Step
    <2> QED  BY <2>2, <2>3 DEF Front
  <1> QED  BY <1>1, <1>2, <1>3

\* The value of path.Clean is a walk: both are the one solution of a recursion.
LEMMA CleanIsWalk ==
    ASSUME NEW S, NEW s \in Seq(S), IsAbs(s) \/ DotDot \notin Range(s)
    PROVE  CleanSegments(s) = Walk(s)
  <1> DEFINE Solves(f) ==
                f = [n \in 0..Len(s) |->
                       IF n = 0 THEN <<>> ELSE CleanStep(IsAbs(s), f[n - 1], s[n])]
             after == CHOOSE f : Solves(f)
  <1>0. Len(s) \in Nat /\ (\A i \in 1..Len(s) : s[i] \in Range(s)) /\ IsAbs(s) \in BOOLEAN
    BY SegmentSeq DEF IsAbs
  <1>1. CleanSegments(s) = after[Len(s)]
    BY DEF CleanSegments
  <1>2. PICK w : IsWalk(w, s) /\ Walk(s) = w[Len(s)]
    BY <1>0, WalkIsWalk
  <1>3. \A n \in 0..Len(s) : w[n] \in Seq(NamesIn(s))
    BY <1>2, WalkNames
  <1>4. NamesIn(s) \cap Dots = {}
    BY DEF NamesIn
  <1>5. ASSUME NEW n \in 1..Len(s)
        PROVE  CleanStep(IsAbs(s), w[n - 1], s[n]) = Step(w[n - 1], s[n])
    <2>1. n - 1 \in 0..Len(s) /\ (IsAbs(s) \/ s[n] # DotDot)
      BY <1>0
    <2>2. w[n - 1] \in Seq(NamesIn(s))
      BY <1>3, <2>1
    <2> QED  BY <1>0, <1>4, <2>1, <2>2, CleanStepIsStep
  <1>6. Solves(w)
    <2>1. ASSUME NEW n \in 0..Len(s)
          PROVE  w[n] = IF n = 0 THEN <<>> ELSE CleanStep(IsAbs(s), w[n - 1], s[n])
      <3>1. CASE n = 0
        BY <1>2, <3>1 DEF IsWalk
      <3>2. CASE n # 0
        <4>1. n \in 1..Len(s)
          BY <1>0, <3>2
        <4> QED  BY <1>2, <1>5, <3>2, <4>1 DEF IsWalk
      <3> QED  BY <3>1, <3>2
    <2> QED  BY <1>2, <2>1 DEF IsWalk
  <1>7. Solves(after)
    BY <1>6
  <1> HIDE DEF after
  <1>8. ASSUME NEW n \in 0..Len(s), n # 0
        PROVE  n - 1 \in 0..Len(s) /\ after[n] = CleanStep(IsAbs(s), after[n - 1], s[n])
               /\ w[n] = CleanStep(IsAbs(s), w[n - 1], s[n])
    <2>1. n - 1 \in 0..Len(s)
      BY <1>0, <1>8
    <2> QED  BY <1>6, <1>7, <1>8, <2>1
  <1>9. after[0] = w[0]
    BY <1>0, <1>6, <1>7
  <1> HIDE DEF Solves
  <1>10. \A n \in 0..Len(s) : after[n] = w[n]
    <2> DEFINE T == {n \in 0..Len(s) : after[n] # w[n]}
    <2> SUFFICES ASSUME T # {} PROVE FALSE
      OBVIOUS
    <2>1. PICK n \in T : \A k \in T : n <= k
      <3>1. T \subseteq Nat
        BY <1>0
      <3> QED  BY <3>1, LeastNat
    <2>2. n # 0
      BY <1>9, <2>1
    <2>3. n - 1 \notin T
      BY <1>0, <2>1, <2>2
    <2> QED  BY <1>8, <2>1, <2>2, <2>3
  <1> QED  BY <1>0, <1>1, <1>2, <1>10

\* The segments that the mounter opens are the walk, too.
LEMMA OpenedIsWalk ==
    ASSUME NEW S, NEW s \in Seq(S), ~IsAbs(s), DotDot \notin Range(s), Nul \notin Range(s)
    PROVE  SourceSubPathSegments(s) = Walk(s)
  <1> DEFINE Solves(f) ==
                f = [n \in 0..Len(s) |->
                       IF n = 0 THEN <<>>
                       ELSE IF s[n] \in {Nothing, Dot} THEN f[n - 1] ELSE Append(f[n - 1], s[n])]
             opened == CHOOSE f : Solves(f)
  <1>0. Len(s) \in Nat /\ \A i \in 1..Len(s) : s[i] \in Range(s)
    BY SegmentSeq
  <1>1. SourceSubPathSegments(s) = opened[Len(s)]
    BY DEF SourceSubPathSegments, HasSegment
  <1>2. PICK w : IsWalk(w, s) /\ Walk(s) = w[Len(s)]
    BY <1>0, WalkIsWalk
  <1>3. ASSUME NEW n \in 1..Len(s)
        PROVE  w[n] = IF s[n] \in {Nothing, Dot} THEN w[n - 1] ELSE Append(w[n - 1], s[n])
    <2>1. s[n] # DotDot /\ w[n] = Step(w[n - 1], s[n])
      BY <1>0, <1>2 DEF IsWalk
    <2> QED  BY <2>1 DEF Step
  <1>4. Solves(w)
    <2>1. ASSUME NEW n \in 0..Len(s)
          PROVE  w[n] = IF n = 0 THEN <<>>
                        ELSE IF s[n] \in {Nothing, Dot} THEN w[n - 1] ELSE Append(w[n - 1], s[n])
      <3>1. CASE n = 0
        BY <1>2, <3>1 DEF IsWalk
      <3>2. CASE n # 0
        <4>1. n \in 1..Len(s)
          BY <1>0, <3>2
        <4> QED  BY <1>3, <3>2, <4>1
      <3> QED  BY <3>1, <3>2
    <2> QED  BY <1>2, <2>1 DEF IsWalk
  <1>5. Solves(opened)
    BY <1>4
  <1> HIDE DEF opened
  <1>6. ASSUME NEW n \in 0..Len(s)
        PROVE  opened[n] = IF n = 0 THEN <<>>
                           ELSE IF s[n] \in {Nothing, Dot} THEN opened[n - 1]
                           ELSE Append(opened[n - 1], s[n])
    BY <1>5
  <1>7. opened = [n \in 0..Len(s) |-> opened[n]]
    BY <1>5
  <1> HIDE DEF Solves
  <1>8. IsWalk(opened, s)
    <2>1. opened[0] = <<>>
      BY <1>0, <1>6
    <2>2. ASSUME NEW n \in 1..Len(s) PROVE opened[n] = Step(opened[n - 1], s[n])
      <3>1. s[n] # DotDot /\ n \in 0..Len(s) /\ n # 0
        BY <1>0
      <3> QED  BY <1>6, <3>1 DEF Step
    <2> QED  BY <1>7, <2>1, <2>2 DEF IsWalk
  <1> QED  BY <1>0, <1>1, <1>8, WalkAlong

-----------------------------------------------------------------------------
(* Normal forms: walking along names leads where they say.                 *)

LEMMA GrowsByOne ==
    ASSUME NEW S, NEW s \in Seq(S), NEW n \in 1..Len(s)
    PROVE  SubSeq(s, 1, n) = Append(SubSeq(s, 1, n - 1), s[n])
  <1>1. Len(s) \in Nat /\ \A i \in 1..Len(s) : s[i] \in S
    BY SegmentSeq
  <1>2. 1 \in 1..Len(s) /\ n \in 1..Len(s) /\ s[n] \in S
    BY <1>1
  <1>3. SubSeq(s, 1, n) = SubSeq(s, 1, n - 1) \o <<s[n]>>
    BY <1>2, SubSeqRecursiveSecond
  <1>4. n - 1 \in Int /\ \A i \in 1..(n - 1) : s[i] \in S
    BY <1>1
  <1>5. SubSeq(s, 1, n - 1) \in Seq(S)
    BY <1>4, SubSeqProperties
  <1> QED  BY <1>2, <1>3, <1>5, AppendIsConcat

LEMMA NamesLeadThere ==
    ASSUME NEW S, NEW s \in Seq(S), S \cap Dots = {}
    PROVE  Walk(s) = s
  <1>0. Len(s) \in Nat /\ \A i \in 1..Len(s) : s[i] \in S
    BY SegmentSeq
  <1>1. PICK w : w = [n \in 0..Len(s) |-> SubSeq(s, 1, n)]
    OBVIOUS
  <1>2. w[0] = <<>>
    BY <1>0, <1>1, SubSeqEmpty
  <1>3. ASSUME NEW n \in 1..Len(s) PROVE w[n] = Step(w[n - 1], s[n])
    <2>0. n \in 0..Len(s) /\ n - 1 \in 0..Len(s)
      BY <1>0
    <2>1. w[n] = SubSeq(s, 1, n) /\ w[n - 1] = SubSeq(s, 1, n - 1)
      BY <1>1, <2>0
    <2>2. s[n] \notin Dots
      BY <1>0
    <2> QED  BY <2>1, <2>2, GrowsByOne DEF Step, Dots
  <1>4. IsWalk(w, s)
    BY <1>1, <1>2, <1>3 DEF IsWalk
  <1>5. w[Len(s)] = s
    BY <1>0, <1>1, SubSeqFull
  <1> QED  BY <1>0, <1>4, <1>5, WalkAlong

\* The normal form of an absolute path to a place.
Rooted(out) == <<Nothing>> \o (IF out = <<>> THEN <<Nothing>> ELSE out)

LEMMA RootedSegments ==
    ASSUME NEW S, Nothing \in S, NEW out \in Seq(S)
    PROVE  /\ Rooted(out) \in Seq(S) /\ IsAbs(Rooted(out))
           /\ Rooted(out)[1] = Nothing /\ Range(Rooted(out)) \subseteq {Nothing} \cup Range(out)
           /\ out = <<>> => Rooted(out) = <<Nothing, Nothing>>
           /\ out # <<>> => /\ Len(Rooted(out)) = Len(out) + 1
                            /\ \A i \in 1..Len(out) : Rooted(out)[i + 1] = out[i]
  <1>0. Len(out) \in Nat /\ DOMAIN out = 1..Len(out) /\ (out = <<>> <=> Len(out) = 0)
    BY SegmentSeq
  <1>1. CASE out = <<>>
    <2>1. Rooted(out) = <<Nothing, Nothing>>
      <3>1. PICK p : p = <<Nothing>> \o <<Nothing>>
        OBVIOUS
      <3>2. PICK q : q = <<Nothing, Nothing>>
        OBVIOUS
      <3>3. <<Nothing>> \in Seq({Nothing}) /\ Len(<<Nothing>>) = 1 /\ Nothing \in {Nothing}
        OBVIOUS
      <3>4. p \in Seq({Nothing}) /\ Len(p) = 2
        <4>1. p \in Seq({Nothing}) /\ Len(p) = Len(<<Nothing>>) + Len(<<Nothing>>)
          BY <3>1, <3>3, ConcatProperties
        <4> QED  BY <3>3, <4>1
      <3>5. q \in Seq({Nothing}) /\ Len(q) = 2
        BY <3>2
      <3>6. \A i \in 1..Len(p) : p[i] = q[i]
        BY <3>4, <3>5, SegmentSeq
      <3>7. p = q
        BY <3>4, <3>5, <3>6, SeqEqual
      <3> QED  BY <1>1, <3>1, <3>2, <3>7 DEF Rooted
    <2>2. Len(<<Nothing, Nothing>>) = 2 /\ <<Nothing, Nothing>>[1] = Nothing /\ <<Nothing, Nothing>>[2] = Nothing
          /\ DOMAIN <<Nothing, Nothing>> = 1..2 /\ <<Nothing, Nothing>> \in Seq(S)
      OBVIOUS
    <2>3. \A i \in 1..2 : <<Nothing, Nothing>>[i] = Nothing
      BY <2>2
    <2>4. Range(<<Nothing, Nothing>>) \subseteq {Nothing}
      BY <2>2, <2>3 DEF Range
    <2>5. IsAbs(<<Nothing, Nothing>>)
      BY <2>2 DEF IsAbs
    <2> QED  BY <1>1, <2>1, <2>2, <2>4, <2>5
  <1>2. CASE out # <<>>
    <2>1. PICK t : t = <<Nothing>> \o out
      OBVIOUS
    <2>2. <<Nothing>> \in Seq(S) /\ Len(<<Nothing>>) = 1 /\ <<Nothing>>[1] = Nothing
      OBVIOUS
    <2>3. /\ t \in Seq(S) /\ Len(t) = 1 + Len(out)
          /\ \A i \in 1..1 + Len(out) : t[i] = IF i <= 1 THEN Nothing ELSE out[i - 1]
      <3>1. /\ t \in Seq(S) /\ Len(t) = Len(<<Nothing>>) + Len(out)
            /\ \A i \in 1..Len(<<Nothing>>) + Len(out) :
                  t[i] = IF i <= Len(<<Nothing>>) THEN <<Nothing>>[i] ELSE out[i - Len(<<Nothing>>)]
        BY <2>1, <2>2, ConcatProperties
      <3> QED  BY <1>0, <2>2, <3>1
    <2>4. Rooted(out) = t
      BY <1>2, <2>1 DEF Rooted
    <2>5. t[1] = Nothing /\ DOMAIN t = 1..(1 + Len(out)) /\ Len(t) >= 2
      BY <1>0, <1>2, <2>3, SegmentSeq
    <2>6. \A i \in 1..(1 + Len(out)) : t[i] = Nothing \/ \E j \in 1..Len(out) : t[i] = out[j]
      <3> SUFFICES ASSUME NEW i \in 1..(1 + Len(out)), i # 1
                   PROVE  i - 1 \in 1..Len(out) /\ t[i] = out[i - 1]
        BY <2>5
      <3> QED  BY <1>0, <2>3
    <2>7. Range(t) \subseteq {Nothing} \cup Range(out)
      BY <1>0, <2>5, <2>6 DEF Range
    <2>8. \A i \in 1..Len(out) : t[i + 1] = out[i]
      BY <1>0, <2>3
    <2> QED  BY <1>0, <1>2, <2>3, <2>4, <2>5, <2>7, <2>8 DEF IsAbs
  <1> QED  BY <1>1, <1>2

LEMMA RootedLeadsThere ==
    ASSUME NEW S, NEW out \in Seq(S), S \cap Dots = {}
    PROVE  Walk(Rooted(out)) = out
  <1>0. Len(out) \in Nat /\ (out = <<>> <=> Len(out) = 0) /\ out \in Seq(S \cup {Nothing})
        /\ \A i \in 1..Len(out) : out[i] \in S
    BY SegmentSeq, SeqMonotonic
  <1>1. PICK t : t = Rooted(out)
    OBVIOUS
  <1>2. /\ t[1] = Nothing /\ (out = <<>> => t = <<Nothing, Nothing>>)
        /\ out # <<>> => Len(t) = Len(out) + 1 /\ \A i \in 1..Len(out) : t[i + 1] = out[i]
    BY <1>0, <1>1, RootedSegments
  <1>3. CASE out = <<>>
    <2>1. Len(t) = 2 /\ t[1] = Nothing /\ t[2] = Nothing
      BY <1>2, <1>3
    <2>2. IsWalk([n \in 0..2 |-> <<>>], t)
      <3>1. \A n \in 1..2 : t[n] = Nothing /\ n - 1 \in 0..2 /\ n \in 0..2
        BY <2>1
      <3> QED  BY <2>1, <3>1 DEF IsWalk, Step
    <2>3. Walk(t) = [n \in 0..2 |-> <<>>][2]
      BY <2>1, <2>2, WalkAlong
    <2> QED  BY <1>1, <1>3, <2>3
  <1>4. CASE out # <<>>
    <2>1. PICK w : w = [n \in 0..Len(t) |-> IF n = 0 THEN <<>> ELSE SubSeq(out, 1, n - 1)]
      OBVIOUS
    <2>2. Len(t) = Len(out) + 1 /\ Len(t) \in Nat
      BY <1>0, <1>2, <1>4
    <2>3. w[0] = <<>>
      BY <2>1, <2>2
    <2>4. ASSUME NEW n \in 1..Len(t) PROVE w[n] = Step(w[n - 1], t[n])
      <3>1. CASE n = 1
        <4>1. w[1] = SubSeq(out, 1, 0) /\ w[0] = <<>>
          BY <2>1, <2>2, <2>3, <3>1
        <4>2. w[1] = <<>>
          BY <4>1, SubSeqEmpty
        <4> QED  BY <1>2, <3>1, <4>1, <4>2 DEF Step
      <3>2. CASE n # 1
        <4>1. n - 1 \in 1..Len(out) /\ (n - 1) + 1 = n
          BY <2>2, <3>2
        <4>2. t[n] = out[n - 1] /\ out[n - 1] \notin Dots
          BY <1>0, <1>2, <1>4, <4>1
        <4>3. w[n] = SubSeq(out, 1, n - 1) /\ w[n - 1] = SubSeq(out, 1, (n - 1) - 1)
          BY <2>1, <2>2, <4>1
        <4>4. SubSeq(out, 1, n - 1) = Append(SubSeq(out, 1, (n - 1) - 1), out[n - 1])
          BY <4>1, GrowsByOne
        <4> QED  BY <4>2, <4>3, <4>4 DEF Step, Dots
      <3> QED  BY <3>1, <3>2
    <2>5. IsWalk(w, t)
      BY <2>1, <2>3, <2>4 DEF IsWalk
    <2>6. w[Len(t)] = SubSeq(out, 1, Len(out))
      BY <1>0, <2>1, <2>2
    <2>7. SubSeq(out, 1, Len(out)) = out
      BY SubSeqFull
    <2> QED  BY <1>1, <2>2, <2>5, <2>6, <2>7, WalkAlong
  <1> QED  BY <1>3, <1>4

-----------------------------------------------------------------------------
(* What the functions of the repository return.                            *)

\* A sequence of names is no absolute path, and is not the empty string.
LEMMA NamesOnly ==
    ASSUME NEW S, NEW out \in Seq(S), S \cap Dots = {}
    PROVE  /\ ~IsAbs(out) /\ out # Empty /\ out # <<Dot>> /\ Range(out) \subseteq S
           /\ Nothing \notin Range(out) /\ DotDot \notin Range(out)
           /\ \A i \in 1..Len(out) : out[i] # Nothing
  <1>1. Len(out) \in Nat /\ Range(out) \subseteq S /\ \A i \in 1..Len(out) : out[i] \in S
    BY SegmentSeq
  <1>2. \A i \in 1..Len(out) : out[i] # Nothing /\ out[i] # Dot
    BY <1>1 DEF Dots
  <1>3. ~IsAbs(out)
    BY <1>1, <1>2 DEF IsAbs
  <1>4. out # Empty /\ out # <<Dot>>
    <2>1. Len(<<Nothing>>) = 1 /\ <<Nothing>>[1] = Nothing /\ Len(<<Dot>>) = 1 /\ <<Dot>>[1] = Dot
      OBVIOUS
    <2>2. ASSUME Len(out) = 1 PROVE out[1] # Nothing /\ out[1] # Dot
      BY <1>2, <2>2
    <2> QED  BY <2>1, <2>2 DEF Empty
  <1> QED  BY <1>1, <1>2, <1>3, <1>4 DEF Dots

LEMMA NamesInPath ==
    ASSUME NEW s
    PROVE  NamesIn(s) \cap Dots = {} /\ NamesIn(s) \subseteq Range(s)
  BY DEF NamesIn

LEMMA TargetOutcome ==
    ASSUME NEW s \in Seq(Segments)
    PROVE  /\ ValidateTargetPath(s) =
                 IF Nul \in Range(s) \/ ~IsAbs(s) \/ Denied(Walk(s)) THEN Refused
                 ELSE Rooted(Walk(s))
           /\ Rooted(Walk(s)) # Refused
  <1>1. Rooted(Walk(s)) # Refused
    <2>1. Walk(s) \in Seq(Segments)
      BY PlaceNames
    <2>2. Rooted(Walk(s)) \in Seq(Segments)
      BY <2>1, PolicyAssumption, RootedSegments
    <2> QED  BY <2>2, PolicyAssumption
  <1>2. CASE ~IsAbs(s)
    BY <1>1, <1>2 DEF ValidateTargetPath
  <1>3. CASE IsAbs(s)
    <2>1. CleanSegments(s) = Walk(s)
      BY <1>3, CleanIsWalk
    <2>2. Clean(s) = Rooted(Walk(s))
      BY <1>3, <2>1 DEF Clean, Rooted
    <2> QED  BY <1>1, <1>3, <2>1, <2>2 DEF ValidateTargetPath, HasSegment
  <1> QED  BY <1>2, <1>3

LEMMA EmptyPath ==
    /\ Empty \in Seq(Segments) /\ ~IsAbs(Empty) /\ Walk(Empty) = <<>>
    /\ DotDot \notin Range(Empty) /\ Nul \notin Range(Empty)
  <1>1. /\ Empty \in Seq(Segments) /\ Len(Empty) = 1 /\ Empty[1] = Nothing /\ DOMAIN Empty = 1..1
    BY PolicyAssumption DEF Empty
  <1>2. Range(Empty) = {Nothing}
    BY <1>1 DEF Range
  <1>3. PICK w : w = [n \in 0..1 |-> <<>>]
    OBVIOUS
  <1>4. IsWalk(w, Empty)
    <2>1. w[0] = <<>> /\ w[1] = <<>> /\ w = [n \in 0..1 |-> w[n]]
      BY <1>3
    <2>2. \A n \in 1..1 : n = 1 /\ n - 1 = 0
      OBVIOUS
    <2>3. Step(<<>>, Nothing) = <<>>
      BY DEF Step
    <2> QED  BY <1>1, <2>1, <2>2, <2>3 DEF IsWalk
  <1>5. Walk(Empty) = w[1]
    BY <1>1, <1>4, WalkAlong
  <1>6. ~IsAbs(Empty)
    BY <1>1 DEF IsAbs
  <1> QED  BY <1>1, <1>2, <1>3, <1>5, <1>6, DotsDiffer, PolicyAssumption

LEMMA SubPathOutcome ==
    ASSUME NEW s \in Seq(Segments)
    PROVE  ValidateSourceSubPath(s) =
              IF IsAbs(s) \/ Nul \in Range(s) \/ DotDot \in Range(s) THEN Refused
              ELSE IF Walk(s) = <<>> THEN Empty ELSE Walk(s)
  <1>1. CASE s = Empty
    BY <1>1, EmptyPath DEF ValidateSourceSubPath
  <1>2. CASE s # Empty /\ (IsAbs(s) \/ Nul \in Range(s) \/ DotDot \in Range(s))
    BY <1>2 DEF ValidateSourceSubPath, HasSegment
  <1>3. CASE s # Empty /\ ~(IsAbs(s) \/ Nul \in Range(s) \/ DotDot \in Range(s))
    <2>1. CleanSegments(s) = Walk(s)
      BY <1>3, CleanIsWalk
    <2>2. Clean(s) = IF Walk(s) = <<>> THEN <<Dot>> ELSE Walk(s)
      BY <1>3, <2>1 DEF Clean
    <2>3. Walk(s) # <<Dot>>
      BY PlaceNames, NamesInPath, NamesOnly
    <2>4. ValidateSourceSubPath(s) = IF Clean(s) = <<Dot>> THEN Empty ELSE Clean(s)
      BY <1>3 DEF ValidateSourceSubPath, HasSegment
    <2> QED  BY <1>3, <2>2, <2>3, <2>4
  <1> QED  BY <1>1, <1>2, <1>3

\* The segments that are opened for an admitted sub-path.
LEMMA OpenedForAdmitted ==
    ASSUME NEW s \in Seq(Segments), ValidateSourceSubPath(s) # Refused
    PROVE  SourceSubPathSegments(ValidateSourceSubPath(s)) = Walk(s)
  <1>1. /\ ~(IsAbs(s) \/ Nul \in Range(s) \/ DotDot \in Range(s))
        /\ ValidateSourceSubPath(s) = IF Walk(s) = <<>> THEN Empty ELSE Walk(s)
    BY SubPathOutcome
  <1>2. CASE Walk(s) = <<>>
    BY <1>1, <1>2, EmptyPath, OpenedIsWalk
  <1>3. CASE Walk(s) # <<>>
    <2>1. PICK out : out = Walk(s)
      OBVIOUS
    <2>2. PICK N : N = NamesIn(s)
      OBVIOUS
    <2>3. out \in Seq(N) /\ N \cap Dots = {} /\ N \subseteq Range(s)
      BY <2>1, <2>2, PlaceNames, NamesInPath
    <2>4. ~IsAbs(out) /\ DotDot \notin Range(out) /\ Nul \notin Range(out)
      BY <1>1, <2>3, NamesOnly
    <2>5. SourceSubPathSegments(out) = Walk(out)
      BY <2>3, <2>4, OpenedIsWalk
    <2>6. Walk(out) = out
      BY <2>3, NamesLeadThere
    <2> QED  BY <1>1, <1>3, <2>1, <2>5, <2>6
  <1> QED  BY <1>2, <1>3

\* The subDir of a PV is empty or a sequence of names, and the server is asked
\* for what it says.
LEMMA SubDirOutcome ==
    ASSUME NEW s \in Seq(Segments), NormalizeNFSSubDir(s) # Refused
    PROVE  \E out, N : /\ out \in Seq(N) /\ N \cap Dots = {}
                       /\ NormalizeNFSSubDir(s) = IF out = <<>> THEN Empty ELSE out
                       /\ RemoteSegments(NormalizeNFSSubDir(s)) = out
  <1>1. PICK value : value = TrimSpace(s)
    OBVIOUS
  <1>2. value \in Seq(Segments)
    <2>1. Len(s) \in Nat /\ DOMAIN s = 1..Len(s) /\ \A i \in 1..Len(s) : s[i] \in Segments
      BY SegmentSeq
    <2>2. value \in [1..Len(s) -> Segments]
      BY <1>1, <2>1, PolicyAssumption DEF TrimSpace
    <2> QED  BY <2>1, <2>2, SeqDef
  <1>3. PICK left : left = TrimLeftSlash(value)
    OBVIOUS
  <1>4. left \in Seq(Segments) /\ left # <<>>
    <2> DEFINE full == {i \in DOMAIN value : value[i] # Nothing}
    <2>1. Len(value) \in Nat /\ DOMAIN value = 1..Len(value)
          /\ \A i \in 1..Len(value) : value[i] \in Segments
      BY <1>2, SegmentSeq
    <2>2. CASE full = {}
      <3>1. left = Empty
        BY <1>3, <2>2 DEF TrimLeftSlash
      <3>2. Empty # <<>>
        BY DEF Empty
      <3> QED  BY <3>1, <3>2, EmptyPath
    <2>3. CASE full # {}
      <3>1. \E i \in full : \A j \in full : i <= j
        <4>1. full \subseteq Nat
          BY <2>1
        <4> QED  BY <2>3, <4>1, LeastNat
      <3>2. PICK i : i = CHOOSE k \in full : \A j \in full : k <= j
        OBVIOUS
      <3>3. i \in full
        BY <3>1, <3>2
      <3>4. i \in 1..Len(value)
        BY <2>1, <3>3
      <3>5. left = SubSeq(value, i, Len(value))
        BY <1>3, <2>3, <3>2 DEF TrimLeftSlash
      <3>6. i \in Int /\ Len(value) \in Int /\ i <= Len(value)
            /\ \A j \in i..Len(value) : value[j] \in Segments
        BY <2>1, <3>4
      <3>7. left \in Seq(Segments) /\ Len(left) = Len(value) - i + 1
        BY <3>5, <3>6, SubSeqProperties
      <3>8. Len(left) # 0
        BY <3>6, <3>7
      <3> QED  BY <3>7, <3>8, SegmentSeq
    <2> QED  BY <2>2, <2>3
  <1>5. PICK t : t = <<Nothing>> \o left
    OBVIOUS
  <1>6. t \in Seq(Segments) /\ IsAbs(t)
    <2>1. t = Rooted(left)
      BY <1>4, <1>5 DEF Rooted
    <2> QED  BY <1>4, <2>1, PolicyAssumption, RootedSegments
  <1>7. PICK out : out = Walk(t)
    OBVIOUS
  <1>8. PICK N : N = NamesIn(t)
    OBVIOUS
  <1>9. out \in Seq(N) /\ N \cap Dots = {} /\ CleanSegments(t) = out
    BY <1>6, <1>7, <1>8, PlaceNames, NamesInPath, CleanIsWalk
  <1>10. NormalizeNFSSubDir(s) = IF out = <<>> THEN Empty ELSE out
    BY <1>1, <1>3, <1>5, <1>9 DEF NormalizeNFSSubDir
  <1>11. CASE out = <<>>
    BY <1>9, <1>10, <1>11 DEF RemoteSegments
  <1>12. CASE out # <<>>
    <2>1. out # Empty /\ \A i \in 1..Len(out) : out[i] # Nothing
      BY <1>9, NamesOnly
    <2>2. Len(out) \in Nat \ {0} /\ DOMAIN out = 1..Len(out)
      BY <1>9, <1>12, SegmentSeq
    <2>3. out # <<Nothing, Nothing>>
      <3>1. <<Nothing, Nothing>>[1] = Nothing /\ 1 \in 1..Len(out)
        BY <2>2
      <3> QED  BY <2>1, <3>1
    <2>4. PICK F : F = {i \in DOMAIN out : out[i] # Nothing}
      OBVIOUS
    <2>5. F = 1..Len(out)
      BY <2>1, <2>2, <2>4
    <2>6. TrimLeftSlash(out) = SubSeq(out, 1, Len(out))
      <3>1. PICK c : c = CHOOSE i \in F : \A j \in F : i <= j
        OBVIOUS
      <3>2. TrimLeftSlash(out) = IF F = {} THEN Empty ELSE SubSeq(out, c, Len(out))
        BY <2>4, <3>1 DEF TrimLeftSlash
      <3>3. \E i \in F : \A j \in F : i <= j
        BY <2>2, <2>5
      <3>4. c \in F /\ \A j \in F : c <= j
        BY <3>1, <3>3
      <3>5. c = 1 /\ F # {}
        BY <2>2, <2>5, <3>4
      <3> QED  BY <3>2, <3>5
    <2>7. TrimLeftSlash(out) = out
      BY <1>9, <2>6, SubSeqFull
    <2>8. RemoteSegments(out) = out
      BY <2>1, <2>3, <2>7 DEF RemoteSegments
    <2> QED  BY <1>9, <1>10, <1>12, <2>8
  <1> QED  BY <1>11, <1>12

-----------------------------------------------------------------------------
(* The properties.                                                         *)

PathInv == path \in Seq(Segments) /\ other \in Seq(Segments)

LEMMA PathsAreSegments == PathSpec => []PathInv
  <1>1. PathInit => PathInv
    <2>1. [1..1 -> Segments] \in {[1..n -> Segments] : n \in Nat}
      OBVIOUS
    <2>2. [1..1 -> Segments] \subseteq Seq(Segments)
      BY <2>1, SeqDef
    <2> QED  BY <2>2 DEF PathInit, PathInv
  <1>2. PathInv /\ [PathNext]_pathVars => PathInv'
    <2> SUFFICES ASSUME PathInv, [PathNext]_pathVars PROVE PathInv'
      OBVIOUS
    <2>1. ASSUME NEW x \in Seq(Segments), NEW y, Grow(x, y) PROVE y \in Seq(Segments)
      BY <2>1, AppendProperties DEF Grow
    <2> QED  BY <2>1 DEF PathInv, PathNext, pathVars
  <1> QED  BY <1>1, <1>2, PTL DEF PathSpec

\* A place in a denied tree has the tree's path as its beginning.
LEMMA PrefixIsStart ==
    ASSUME NEW t \in Seq(Segments), NEW out \in Seq(Segments)
    PROVE  IsPrefix(t, out) <=> \E n \in 0..Len(out) : SubSeq(out, 1, n) = t
  <1>0. /\ Len(t) \in Nat /\ Len(out) \in Nat
        /\ \A i \in 1..Len(out) : out[i] \in Segments
    BY SegmentSeq
  <1>1. SubSeq(t, 1, Len(t)) = t
    BY SubSeqFull
  <1>2. ASSUME IsPrefix(t, out) PROVE \E n \in 0..Len(out) : SubSeq(out, 1, n) = t
    <2>1. Len(t) \in 0..Len(out) /\ SubSeq(out, 1, Len(t)) = t
      BY <1>0, <1>1, <1>2 DEF IsPrefix
    <2> QED  BY <2>1
  <1>3. ASSUME NEW n \in 0..Len(out), SubSeq(out, 1, n) = t PROVE IsPrefix(t, out)
    <2>1. n \in Int /\ \A i \in 1..n : out[i] \in Segments
      BY <1>0
    <2>2. Len(SubSeq(out, 1, n)) = IF 1 <= n THEN n - 1 + 1 ELSE 0
      BY <2>1, SubSeqProperties
    <2>3. Len(t) = n
      BY <1>3, <2>1, <2>2
    <2> QED  BY <1>0, <1>1, <1>3, <2>3 DEF IsPrefix
  <1> QED  BY <1>2, <1>3

(* For paths of any length, and whatever places and trees are denied: an    *)
(* absolute path is refused exactly if walking along it, step by step, ends *)
(* at a denied place or in a denied tree.  No spelling gets around          *)
(* ValidateTargetPath, and none is refused for its spelling.                *)
THEOREM PolicyJudgesPlaces == PathSpec => []PolicyIsAboutPlaces
  <1>1. PathInv => PolicyIsAboutPlaces
    <2> SUFFICES ASSUME PathInv, IsAbs(path), Nul \notin Range(path)
                 PROVE  ValidateTargetPath(path) = Refused
                        <=> \/ Walk(path) \in DeniedPlaces
                            \/ \E t \in DeniedTrees, n \in 0..Len(Walk(path)) :
                                  SubSeq(Walk(path), 1, n) = t
      BY DEF PolicyIsAboutPlaces, HasSegment
    <2>1. path \in Seq(Segments) /\ Walk(path) \in Seq(Segments)
      BY PlaceNames DEF PathInv
    <2>2. ValidateTargetPath(path) = Refused <=> Denied(Walk(path))
      BY <2>1, TargetOutcome
    <2>3. \A t \in DeniedTrees :
             IsPrefix(t, Walk(path)) <=> \E n \in 0..Len(Walk(path)) : SubSeq(Walk(path), 1, n) = t
      BY <2>1, PrefixIsStart, PolicyAssumption
    <2> QED  BY <2>2, <2>3 DEF Denied
  <1> QED  BY <1>1, PathsAreSegments, PTL

\* A normal form tells where it leads.
LEMMA RootedDiffer ==
    ASSUME NEW p \in Seq(Segments), NEW q \in Seq(Segments), Rooted(Walk(p)) = Rooted(Walk(q))
    PROVE  Walk(p) = Walk(q)
  <1>1. Walk(p) \in Seq(NamesIn(p)) /\ Walk(q) \in Seq(NamesIn(q))
    BY PlaceNames
  <1>2. Walk(Rooted(Walk(p))) = Walk(p) /\ Walk(Rooted(Walk(q))) = Walk(q)
    BY <1>1, NamesInPath, RootedLeadsThere
  <1> QED  BY <1>2

\* Normalising a normal form changes nothing.
LEMMA TargetFormStable ==
    ASSUME NEW s \in Seq(Segments), ValidateTargetPath(s) # Refused
    PROVE  ValidateTargetPath(ValidateTargetPath(s)) = ValidateTargetPath(s)
  <1>1. /\ Nul \notin Range(s) /\ ~Denied(Walk(s)) /\ ValidateTargetPath(s) = Rooted(Walk(s))
    BY TargetOutcome
  <1>2. PICK out : out = Walk(s)
    OBVIOUS
  <1>3. PICK t : t = Rooted(out)
    OBVIOUS
  <1>4. PICK N : N = NamesIn(s)
    OBVIOUS
  <1>5. /\ out \in Seq(N) /\ out \in Seq(Segments) /\ N \cap Dots = {} /\ N \subseteq Range(s)
    BY <1>2, <1>4, PlaceNames, NamesInPath
  <1>6. t \in Seq(Segments) /\ IsAbs(t) /\ Range(t) \subseteq {Nothing} \cup Range(out)
    BY <1>3, <1>5, PolicyAssumption, RootedSegments
  <1>7. Nul \notin Range(t)
    <2>1. Range(out) \subseteq N
      BY <1>5, NamesOnly
    <2> QED  BY <1>1, <1>5, <1>6, <2>1, PolicyAssumption
  <1>8. Walk(t) = out
    BY <1>3, <1>5, RootedLeadsThere
  <1>9. ValidateTargetPath(t) = IF Nul \in Range(t) \/ ~IsAbs(t) \/ Denied(Walk(t)) THEN Refused
                                ELSE Rooted(Walk(t))
    BY <1>6, TargetOutcome
  <1>10. ValidateTargetPath(t) = t
    BY <1>1, <1>2, <1>3, <1>6, <1>7, <1>8, <1>9
  <1> QED  BY <1>1, <1>2, <1>3, <1>10

LEMMA SubPathFormStable ==
    ASSUME NEW s \in Seq(Segments), ValidateSourceSubPath(s) # Refused
    PROVE  ValidateSourceSubPath(ValidateSourceSubPath(s)) = ValidateSourceSubPath(s)
  <1>1. /\ Nul \notin Range(s)
        /\ ValidateSourceSubPath(s) = IF Walk(s) = <<>> THEN Empty ELSE Walk(s)
    BY SubPathOutcome
  <1>2. CASE Walk(s) = <<>>
    BY <1>1, <1>2 DEF ValidateSourceSubPath
  <1>3. CASE Walk(s) # <<>>
    <2>1. PICK out : out = Walk(s)
      OBVIOUS
    <2>2. PICK N : N = NamesIn(s)
      OBVIOUS
    <2>3. /\ out \in Seq(N) /\ out \in Seq(Segments) /\ N \cap Dots = {} /\ N \subseteq Range(s)
      BY <2>1, <2>2, PlaceNames, NamesInPath
    <2>4. ~IsAbs(out) /\ DotDot \notin Range(out) /\ Nul \notin Range(out)
      BY <1>1, <2>3, NamesOnly
    <2>5. Walk(out) = out
      BY <2>3, NamesLeadThere
    <2>6. ValidateSourceSubPath(out) = out
      BY <1>3, <2>1, <2>3, <2>4, <2>5, SubPathOutcome
    <2> QED  BY <1>1, <1>3, <2>1, <2>6
  <1> QED  BY <1>2, <1>3

(* For paths of any length: two spellings of one target have one key in the *)
(* store and two targets have two, and normalising a persisted request      *)
(* again changes neither.                                                   *)
THEOREM KeysNameTargets == PathSpec => []OneKeyPerTarget
  <1>1. PathInv => OneKeyPerTarget
    <2> SUFFICES ASSUME PathInv PROVE OneKeyPerTarget
      OBVIOUS
    <2>1. path \in Seq(Segments) /\ other \in Seq(Segments)
      BY DEF PathInv
    <2>2. /\ ValidateTargetPath(path) # Refused => ValidateTargetPath(path) = Rooted(Walk(path))
          /\ ValidateTargetPath(other) # Refused => ValidateTargetPath(other) = Rooted(Walk(other))
      BY <2>1, TargetOutcome
    <2>3. SameTarget => ValidateTargetPath(path) = ValidateTargetPath(other)
      BY <2>2 DEF SameTarget
    <2>4. ASSUME ValidateTargetPath(path) = ValidateTargetPath(other),
                 ValidateTargetPath(path) # Refused
          PROVE  Walk(path) = Walk(other)
      <3>1. Rooted(Walk(path)) = Rooted(Walk(other))
        BY <2>2, <2>4
      <3> QED  BY <2>1, <3>1, RootedDiffer
    <2>5. NormalFormsAreStable
      BY <2>1, TargetFormStable, SubPathFormStable DEF NormalFormsAreStable
    <2> QED  BY <2>3, <2>4, <2>5 DEF OneKeyPerTarget
  <1> QED  BY <1>1, PathsAreSegments, PTL

(* For sub-paths of any length: what ValidateSourceSubPath admits,          *)
(* sourceSubPathSegments takes apart into the names of the directory that   *)
(* the request means.                                                       *)
THEOREM AdmittedMeansOpened == PathSpec => []AdmittedSubPathsOpen
  <1>1. PathInv => AdmittedSubPathsOpen
    BY OpenedForAdmitted DEF PathInv, AdmittedSubPathsOpen
  <1> QED  BY <1>1, PathsAreSegments, PTL

(* For any subDir and sub-path: IsNFSExportRoot says yes exactly if the     *)
(* directory that is mounted in the end is the root of the share, so the    *)
(* key for export roots is asked for when it has to be, and only then.      *)
THEOREM RootDecision == PathSpec => []RootDecisionIsExact
  <1>1. PathInv => RootDecisionIsExact
    <2> SUFFICES ASSUME PathInv, NormalizeNFSSubDir(path) # Refused,
                        ValidateSourceSubPath(other) # Refused
                 PROVE  IsNFSExportRoot(NormalizeNFSSubDir(path), ValidateSourceSubPath(other))
                        <=> Walk(RemoteSegments(NormalizeNFSSubDir(path))
                                 \o SourceSubPathSegments(ValidateSourceSubPath(other))) = <<>>
      BY DEF RootDecisionIsExact
    <2>1. path \in Seq(Segments) /\ other \in Seq(Segments)
      BY DEF PathInv
    <2>2. PICK out, N : /\ out \in Seq(N) /\ N \cap Dots = {}
                        /\ NormalizeNFSSubDir(path) = IF out = <<>> THEN Empty ELSE out
                        /\ RemoteSegments(NormalizeNFSSubDir(path)) = out
      BY <2>1, SubDirOutcome
    <2>3. PICK sub : sub = Walk(other)
      OBVIOUS
    <2>4. PICK M : M = NamesIn(other)
      OBVIOUS
    <2>5. sub \in Seq(M) /\ M \cap Dots = {}
      BY <2>1, <2>3, <2>4, PlaceNames, NamesInPath
    <2>6. /\ ValidateSourceSubPath(other) = IF sub = <<>> THEN Empty ELSE sub
          /\ SourceSubPathSegments(ValidateSourceSubPath(other)) = sub
      BY <2>1, <2>3, SubPathOutcome, OpenedForAdmitted
    <2>7. out # Empty /\ sub # Empty
      BY <2>2, <2>5, NamesOnly
    <2>8. out \in Seq(N \cup M) /\ sub \in Seq(N \cup M) /\ (N \cup M) \cap Dots = {}
      BY <2>2, <2>5, SeqMonotonic
    <2>9. out \o sub \in Seq(N \cup M)
      BY <2>8, ConcatProperties
    <2>10. Walk(out \o sub) = out \o sub
      BY <2>8, <2>9, NamesLeadThere
    <2>11. out \o sub = <<>> <=> out = <<>> /\ sub = <<>>
      BY <2>8, ConcatEqualIffEmpty
    <2> QED  BY <2>2, <2>6, <2>7, <2>10, <2>11 DEF IsNFSExportRoot
  <1> QED  BY <1>1, PathsAreSegments, PTL
=============================================================================
