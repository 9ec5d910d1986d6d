------------------------------ MODULE SolConfig ------------------------------
(***************************************************************************)
(* The Set/Get SOL Configuration Parameters handlers of                   *)
(* transporthandler.cpp (setSOLConfParams, getSOLConfParams) over the SOL *)
(* service that owns the object /xyz/openbmc_project/ipmi/sol/<eth> of    *)
(* each channel, and the console service that owns the baud rate.         *)
(*                                                                         *)
(* ipmid runs one handler at a time, so a request is one atomic step.     *)
(* Each property access goes through getSOLService, which resolves the    *)
(* owning service with the object mapper once and keeps the answer in a   *)
(* function-local static for the life of the process, for every channel. *)
(* A property access fails when the service ipmid addresses is not        *)
(* running or does not own the channel's object, or by a D-Bus error.     *)
(***************************************************************************)
EXTENDS Integers, Sequences, SequencesExt

CONSTANTS
    SolChannels,     \* LAN channels with a SOL object (sol/<eth>)
    Services,        \* D-Bus services that can own SOL objects
    Owner,           \* the service owning each channel's SOL object
    InitSol,         \* the SOL service's initial property values
    ProgressInputs,  \* data1 of Set In Progress
    EnableInputs,    \* data1 of SOL Enable
    PrivInputs,      \* data1 of SOL Authentication
    AccInputs,       \* <<data1, data2>> of Accumulate Interval/Threshold
    RetryInputs,     \* <<data1, data2>> of SOL Retry
    BaudValues,      \* values the console service may hold for baudrate
    MaxFailures      \* bound on failed D-Bus calls in one behaviour

NoService == "none"  \* the empty std::string solService starts as

ASSUME Owner \in [SolChannels -> Services] /\ NoService \notin Services
ASSUME MaxFailures \in Nat

VARIABLES
    sol,             \* the SOL objects' properties, per channel (external)
    up,              \* which SOL services are running (external)
    solService,      \* the static cache of getSOLService (volatile)
    reply,           \* the last request: operation, channel, outcome
    failures         \* number of injected D-Bus failures so far

vars == <<sol, up, solService, reply, failures>>

-----------------------------------------------------------------------------
(***************************************************************************)
(* Constants of the code.                                                 *)
(***************************************************************************)
progressMask == 3
enableMask == 1
privilegeMask == 15
retryMask == 7
userPriv == 2
oemPriv == 5
Props == {"Progress", "Enable", "Privilege", "AccumulateIntervalMS",
          "Threshold", "RetryCount", "RetryIntervalMS"}

\* x & m for a mask m = 2^k - 1
Masked(x, m) == x % (m + 1)

(***************************************************************************)
(* getSOLService: the cached name if there is one; otherwise the mapper   *)
(* lookup of the channel's object, which throws (and leaves the cache     *)
(* empty) when no running service owns it.                                *)
(***************************************************************************)
getSOLService(ch) ==
    IF solService # NoService THEN solService
    ELSE IF up[Owner[ch]] THEN Owner[ch]
    ELSE NoService

\* set/getDbusProperty on service svc at sol/<eth of ch> can succeed
Reachable(svc, ch) == svc # NoService /\ up[svc] /\ Owner[ch] = svc

\* the property writes of one handler, in the order the code makes them
Write(p, v) == [p |-> p, v |-> v]
StoreOne(obj, w) == [obj EXCEPT ![w.p] = w.v]
Store(obj, ws) == FoldLeft(StoreOne, obj, ws)

\* ws: the property writes the request asked for (history, for properties)
ReplyW(op, ch, cc, ws) == reply' = [op |-> op, ch |-> ch, cc |-> cc, ws |-> ws]
Reply(op, ch, cc) == ReplyW(op, ch, cc, <<>>)

(***************************************************************************)
(* A handler that makes the property writes ws, each through              *)
(* setSOLParameter and each returning early with an unspecified error on  *)
(* failure.  svc is the same for every write of the handler: the first    *)
(* call fills the cache.  A D-Bus error at write k leaves writes 1..k-1   *)
(* applied.                                                               *)
(***************************************************************************)
\* mutant: the handler returns success after the first of its writes
SetParamsFirstOnly(op, ch, ws) ==
    LET svc == getSOLService(ch) IN
    /\ solService' = svc
    /\ Reachable(svc, ch)
    /\ sol' = [sol EXCEPT ![ch] = Store(@, SubSeq(ws, 1, 1))]
    /\ ReplyW(op, ch, "OK", ws)
    /\ UNCHANGED <<up, failures>>

SetParams(op, ch, ws) ==
    LET svc == getSOLService(ch) IN
    /\ solService' = svc
    /\ \/ /\ Reachable(svc, ch)
          /\ sol' = [sol EXCEPT ![ch] = Store(@, ws)]
          /\ ReplyW(op, ch, "OK", ws)
          /\ UNCHANGED failures
       \/ /\ ~Reachable(svc, ch)
          /\ ReplyW(op, ch, "Unspecified", ws)
          /\ UNCHANGED <<sol, failures>>
       \/ /\ Reachable(svc, ch)
          /\ failures < MaxFailures
          /\ \E k \in 1..Len(ws) :
                sol' = [sol EXCEPT ![ch] = Store(@, SubSeq(ws, 1, k - 1))]
          /\ failures' = failures + 1
          /\ ReplyW(op, ch, "Unspecified", ws)
    /\ UNCHANGED up

-----------------------------------------------------------------------------
(***************************************************************************)
(* setSOLConfParams, one action per parameter that changes state.  The    *)
(* channel and medium checks come before the switch and return before any *)
(* D-Bus call; the parameters that are read-only or not supported return  *)
(* a completion code without one.  Neither is modelled.                   *)
(***************************************************************************)

\* Set In Progress: read Progress, refuse a second set-in-progress, write.
SetSOLProgress(ch, d1) ==
    LET progress == Masked(d1, progressMask)
        svc == getSOLService(ch)
    IN
    /\ solService' = svc
    /\ \/ /\ ~Reachable(svc, ch)
          /\ Reply("Progress", ch, "Unspecified")
          /\ UNCHANGED <<sol, failures>>
       \/ /\ Reachable(svc, ch)
          /\ failures < MaxFailures
          /\ failures' = failures + 1
          /\ Reply("Progress", ch, "Unspecified")
          /\ UNCHANGED sol
       \/ /\ Reachable(svc, ch)
          /\ sol[ch].Progress = 1 /\ progress = 1
          /\ Reply("Progress", ch, "SetInProgressActive")
          /\ UNCHANGED <<sol, failures>>
       \/ /\ Reachable(svc, ch)
          /\ ~(sol[ch].Progress = 1 /\ progress = 1)
          /\ sol' = [sol EXCEPT ![ch].Progress = progress]
          /\ ReplyW("Progress", ch, "OK", <<Write("Progress", progress)>>)
          /\ UNCHANGED failures
    /\ UNCHANGED up

\* bool enable = data1 & enableMask; the bool is kept as 0 / 1
SetSOLEnable(ch, d1) ==
    SetParams("Enable", ch, <<Write("Enable", Masked(d1, enableMask))>>)

\* mutant: the lower bound is callbackPriv instead of userPriv
SetSOLAuthenticationFromCallback(ch, d1) ==
    LET privilege == Masked(d1, privilegeMask) IN
    IF privilege < userPriv - 1 \/ privilege > oemPriv
    THEN /\ Reply("Authentication", ch, "InvalidField")
         /\ UNCHANGED <<sol, up, solService, failures>>
    ELSE SetParams("Authentication", ch, <<Write("Privilege", privilege)>>)

\* the only checked part of the authentication byte is the privilege level
SetSOLAuthentication(ch, d1) ==
    LET privilege == Masked(d1, privilegeMask) IN
    IF privilege < userPriv \/ privilege > oemPriv
    THEN /\ Reply("Authentication", ch, "InvalidField")
         /\ UNCHANGED <<sol, up, solService, failures>>
    ELSE SetParams("Authentication", ch, <<Write("Privilege", privilege)>>)

SetSOLAccumulate(ch, d) ==
    IF d[2] = 0
    THEN /\ Reply("Accumulate", ch, "InvalidField")
         /\ UNCHANGED <<sol, up, solService, failures>>
    ELSE SetParams("Accumulate", ch, <<Write("AccumulateIntervalMS", d[1]),
                                       Write("Threshold", d[2])>>)

\* mutant: RetryCount written without retryMask
SetSOLRetryUnmasked(ch, d) ==
    SetParams("Retry", ch, <<Write("RetryCount", d[1]),
                             Write("RetryIntervalMS", d[2])>>)

\* setSOLParameter(RetryCount) < 0 || setSOLParameter(RetryIntervalMS) < 0
SetSOLRetry(ch, d) ==
    SetParams("Retry", ch, <<Write("RetryCount", Masked(d[1], retryMask)),
                             Write("RetryIntervalMS", d[2])>>)

-----------------------------------------------------------------------------
(***************************************************************************)
(* getSOLConfParams.  Reads change nothing but the service cache.         *)
(***************************************************************************)

\* Progress, Enable, Authentication, Accumulate, Retry: n property reads
GetParams(op, ch) ==
    LET svc == getSOLService(ch) IN
    /\ solService' = svc
    /\ \/ /\ Reachable(svc, ch)
          /\ Reply(op, ch, "OK")
          /\ UNCHANGED failures
       \/ /\ ~Reachable(svc, ch)
          /\ Reply(op, ch, "Unspecified")
          /\ UNCHANGED failures
       \/ /\ Reachable(svc, ch)
          /\ failures < MaxFailures
          /\ failures' = failures + 1
          /\ Reply(op, ch, "Unspecified")
    /\ UNCHANGED <<sol, up>>

(***************************************************************************)
(* Non-volatile and volatile bit rate: getSOLBaudRate reads the console   *)
(* service directly.  A value that is not a uint32 gives a null pBaudRate, *)
(* which is logged and then dereferenced: undefined behaviour, whose      *)
(* outcomes are a crash of ipmid (the static cache is lost) or a read of  *)
(* whatever the build finds there.                                        *)
(***************************************************************************)
GetSOLBitRate(ch) ==
    /\ \/ /\ failures < MaxFailures
          /\ failures' = failures + 1
          /\ Reply("BitRate", ch, "Unspecified")
          /\ UNCHANGED solService
       \/ \E b \in BaudValues :
          /\ UNCHANGED failures
          /\ \/ /\ b.type = "uint32"
                /\ Reply("BitRate", ch, "OK")
                /\ UNCHANGED solService
             \/ /\ b.type # "uint32"
                /\ Reply("BitRate", ch, "NoResponse")
                /\ solService' = NoService
             \/ /\ b.type # "uint32"
                /\ Reply("BitRate", ch, "OK")
                /\ UNCHANGED solService
    /\ UNCHANGED <<sol, up>>

-----------------------------------------------------------------------------
(***************************************************************************)
(* Environment: a SOL service stops or starts (its objects and their      *)
(* values are kept); ipmid restarts, losing the static cache.             *)
(***************************************************************************)
ServiceStop(s) ==
    /\ up[s]
    /\ up' = [up EXCEPT ![s] = FALSE]
    /\ UNCHANGED <<sol, solService, reply, failures>>

ServiceStart(s) ==
    /\ ~up[s]
    /\ up' = [up EXCEPT ![s] = TRUE]
    /\ UNCHANGED <<sol, solService, reply, failures>>

Restart ==
    /\ solService' = NoService
    /\ Reply("Restart", 0, "OK")
    /\ UNCHANGED <<sol, up, failures>>

NoReply == [op |-> "None", ch |-> 0, cc |-> "OK", ws |-> <<>>]

Init ==
    /\ sol = [ch \in SolChannels |-> InitSol]
    /\ up = [s \in Services |-> TRUE]
    /\ solService = NoService
    /\ reply = NoReply
    /\ failures = 0

Next ==
    \/ \E ch \in SolChannels :
        \/ \E d \in ProgressInputs : SetSOLProgress(ch, d)
        \/ \E d \in EnableInputs : SetSOLEnable(ch, d)
        \/ \E d \in PrivInputs : SetSOLAuthentication(ch, d)
        \/ \E d \in AccInputs : SetSOLAccumulate(ch, d)
        \/ \E d \in RetryInputs : SetSOLRetry(ch, d)
        \/ \E op \in {"Progress", "Enable", "Authentication", "Accumulate",
                      "Retry"} : GetParams(op, ch)
        \/ GetSOLBitRate(ch)
    \/ \E s \in Services : ServiceStop(s) \/ ServiceStart(s)
    \/ Restart

Spec == Init /\ [][Next]_vars

\* reply is history: no guard reads it, so states that differ only in it
\* have the same successors
StateView == <<sol, up, solService, failures>>

-----------------------------------------------------------------------------
(***************************************************************************)
(* Properties.                                                            *)
(***************************************************************************)
SetOps == {"Progress", "Enable", "Authentication", "Accumulate", "Retry"}
SetStep == reply'.op \in SetOps /\ reply'.ws # <<>>

\* Every variable has its type, and the SOL service never holds a
\* privilege level outside User..OEM, the range setSOLConfParams accepts.
TypeOK ==
    /\ DOMAIN sol = SolChannels
    /\ \A ch \in SolChannels :
        /\ DOMAIN sol[ch] = Props
        /\ \A p \in Props : sol[ch][p] \in Nat
        /\ sol[ch].Privilege \in userPriv..oemPriv
    /\ up \in [Services -> BOOLEAN]
    /\ solService \in Services \cup {NoService}
    /\ failures \in 0..MaxFailures

\* A Set SOL request that replies success has stored every property write
\* it was asked for (the two writes of Accumulate and of Retry included)
\* in the SOL object of its own channel.
SetSuccessWritesAll ==
    [][SetStep /\ reply'.cc = "OK" =>
        \A i \in DOMAIN reply'.ws :
            sol'[reply'.ch][reply'.ws[i].p] = reply'.ws[i].v]_vars

\* Whenever the SOL service that owns a channel's object is running, the
\* service getSOLService would return for that channel is that service.
\* The cache is one static for all channels.
CacheServesRunningService ==
    \A ch \in SolChannels : up[Owner[ch]] => getSOLService(ch) = Owner[ch]

\* What a client sees of the last request: a request that ipmid dies on is
\* never answered, and to the client that is ipmid restarting.
ClientReply ==
    IF reply.cc = "NoResponse" THEN [NoReply EXCEPT !.op = "Restart"] ELSE reply

\* SolService is the SOL contract with no cache: each request is served by
\* the service owning the channel's object at that moment.  SolConfig
\* implements it -- the static getSOLService cache is invisible to clients,
\* and every Set decodes its data as the IPMI layout says -- under the same
\* names for constants and variables; solService is hidden and a crash of
\* ipmid on Get SOL bit rate is the abstract process restart.
Service == INSTANCE SolService WITH reply <- ClientReply
SolImplementsService == Service!Spec

\* Get SOL bit rate always answers (spec: the baud rate maps to 0x06..0x0a,
\* any other value to 0).  getSOLConfParams dereferences pBaudRate after
\* only logging that it is null.
GetBitRateAnswers ==
    reply.op = "BitRate" => reply.cc # "NoResponse"

=============================================================================
