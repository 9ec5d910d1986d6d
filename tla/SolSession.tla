----------------------------- MODULE SolSession -----------------------------
(***************************************************************************)
(* Set-in-progress sessions of several IPMI clients on a SOL channel,     *)
(* composed with the Set SOL Set In Progress handler of SolConfig.  A     *)
(* client opens a session with Set In Progress (1), may Commit Write (2), *)
(* and ends it with Set Complete (0).  Unlike the LAN latch, the SOL     *)
(* latch is the Progress property of the SOL service, so it survives an   *)
(* ipmid restart; setSOLConfParams stores whatever progress value it is  *)
(* given once the in-progress check has passed (1786-1794).               *)
(***************************************************************************)
EXTENDS Integers, FiniteSets

CONSTANTS
    Clients          \* IPMI clients configuring SOL on the channel

VARIABLES
    sol, up, solService, reply, failures,   \* SolConfig
    session          \* each client's view: idle, open, committed

vars == <<sol, up, solService, reply, failures, session>>

SolChannel == 1
Netipmid == "netipmid"

Sol == INSTANCE SolConfig WITH
    SolChannels <- {SolChannel}, Services <- {Netipmid},
    Owner <- [ch \in {SolChannel} |-> Netipmid],
    InitSol <- [Progress |-> 0, Enable |-> 1, Privilege |-> 4,
                AccumulateIntervalMS |-> 12, Threshold |-> 96,
                RetryCount |-> 7, RetryIntervalMS |-> 10],
    ProgressInputs <- {0, 1, 2}, EnableInputs <- {}, PrivInputs <- {},
    AccInputs <- {}, RetryInputs <- {}, BaudValues <- {}, MaxFailures <- 0

Succeeded == reply'.cc = "OK"

(***************************************************************************)
(* Client steps.  Each is one request and ipmid's handling of it.         *)
(***************************************************************************)
Open(c) ==
    /\ session[c] = "idle"
    /\ Sol!SetSOLProgress(SolChannel, 1)
    /\ session' = [session EXCEPT ![c] = IF Succeeded THEN "open" ELSE "idle"]

Commit(c) ==
    /\ session[c] = "open"
    /\ Sol!SetSOLProgress(SolChannel, 2)
    /\ session' = [session EXCEPT ![c] = IF Succeeded THEN "committed" ELSE "idle"]

Close(c) ==
    /\ session[c] \in {"open", "committed"}
    /\ Sol!SetSOLProgress(SolChannel, 0)
    /\ session' = [session EXCEPT ![c] = "idle"]

\* ipmid restarts (the service cache is lost); the clients' sessions go on
Restart ==
    /\ Sol!Restart
    /\ UNCHANGED session

Init ==
    /\ Sol!Init
    /\ session = [c \in Clients |-> "idle"]

Next ==
    \/ \E c \in Clients : Open(c) \/ Commit(c) \/ Close(c)
    \/ Restart

Spec == Init /\ [][Next]_vars

-----------------------------------------------------------------------------
Holders == {c \in Clients : session[c] \in {"open", "committed"}}

\* The SOL set-in-progress latch excludes a second configuration session
\* (spec section 4.8: re-entering InProgress while InProgress is refused,
\* and Commit leaves the latch InProgress): at no time do two clients both
\* hold a session.  setSOLConfParams refuses progress 1 only while the
\* stored Progress is 1, and stores a Commit Write (2) as the new Progress.
SolSessionExclusive == Cardinality(Holders) <= 1

=============================================================================
