----------------------------- MODULE SolService -----------------------------
(***************************************************************************)
(* What Set/Get SOL Configuration Parameters promise a client, with no    *)
(* cache: every request is served by the service that owns the channel's *)
(* SOL object at the time of the request, and fails with an unspecified   *)
(* error when that service is not running or a D-Bus call fails.  The     *)
(* parameter layouts are those of the IPMI SOL configuration parameters   *)
(* (set in progress in bits 1:0, enable in bit 0, privilege level in bits *)
(* 3:0 restricted to User..OEM, a non-zero send threshold, a 3-bit retry  *)
(* count).  A failed write stops the request; the writes before it stay. *)
(***************************************************************************)
EXTENDS Integers, Sequences, SequencesExt

CONSTANTS SolChannels, Services, Owner, InitSol, ProgressInputs,
          EnableInputs, PrivInputs, AccInputs, RetryInputs, BaudValues,
          MaxFailures

VARIABLES sol, up, reply, failures

vars == <<sol, up, reply, failures>>

Bits(x, n) == x % (2 ^ n)
Assign(obj, w) == [obj EXCEPT ![w.p] = w.v]
Applied(obj, ws) == FoldLeft(Assign, obj, ws)
Answer(op, ch, cc, ws) == reply' = [op |-> op, ch |-> ch, cc |-> cc, ws |-> ws]
Running(ch) == up[Owner[ch]]

\* A request that writes ws to channel ch's SOL object.
Serve(op, ch, ws) ==
    /\ \/ /\ Running(ch)
          /\ sol' = [sol EXCEPT ![ch] = Applied(@, ws)]
          /\ Answer(op, ch, "OK", ws)
          /\ UNCHANGED failures
       \/ /\ ~Running(ch)
          /\ Answer(op, ch, "Unspecified", ws)
          /\ UNCHANGED <<sol, failures>>
       \/ /\ Running(ch) /\ failures < MaxFailures
          /\ \E k \in 1..Len(ws) :
                sol' = [sol EXCEPT ![ch] = Applied(@, SubSeq(ws, 1, k - 1))]
          /\ failures' = failures + 1
          /\ Answer(op, ch, "Unspecified", ws)
    /\ UNCHANGED up

\* A request answered before any D-Bus call.
Reject(op, ch, cc) ==
    /\ Answer(op, ch, cc, <<>>)
    /\ UNCHANGED <<sol, up, failures>>

\* A request that only reads (Get), or whose read fails.
Read(op, ch) ==
    /\ \/ Running(ch) /\ Answer(op, ch, "OK", <<>>) /\ UNCHANGED failures
       \/ ~Running(ch) /\ Answer(op, ch, "Unspecified", <<>>) /\ UNCHANGED failures
       \/ /\ Running(ch) /\ failures < MaxFailures
          /\ failures' = failures + 1
          /\ Answer(op, ch, "Unspecified", <<>>)
    /\ UNCHANGED <<sol, up>>

\* Set In Progress: a second set-in-progress is refused while one is open.
SetProgress(ch, d) ==
    LET p == Bits(d, 2) IN
    \/ Read("Progress", ch) /\ reply'.cc = "Unspecified"
    \/ /\ Running(ch) /\ sol[ch].Progress = 1 /\ p = 1
       /\ Reject("Progress", ch, "SetInProgressActive")
    \/ /\ ~(sol[ch].Progress = 1 /\ p = 1)
       /\ Serve("Progress", ch, <<[p |-> "Progress", v |-> p]>>)
       /\ reply'.cc = "OK"

SetEnable(ch, d) ==
    Serve("Enable", ch, <<[p |-> "Enable", v |-> Bits(d, 1)]>>)   \* 1 = true

SetAuthentication(ch, d) ==
    \/ Bits(d, 4) \notin 2..5 /\ Reject("Authentication", ch, "InvalidField")
    \/ /\ Bits(d, 4) \in 2..5
       /\ Serve("Authentication", ch, <<[p |-> "Privilege", v |-> Bits(d, 4)]>>)

SetAccumulate(ch, d) ==
    \/ d[2] = 0 /\ Reject("Accumulate", ch, "InvalidField")
    \/ /\ d[2] # 0
       /\ Serve("Accumulate", ch, <<[p |-> "AccumulateIntervalMS", v |-> d[1]],
                                    [p |-> "Threshold", v |-> d[2]]>>)

SetRetry(ch, d) ==
    Serve("Retry", ch, <<[p |-> "RetryCount", v |-> Bits(d[1], 3)],
                         [p |-> "RetryIntervalMS", v |-> d[2]]>>)

\* the console service answers the bit rate; a failed read is an error
GetBitRate(ch) ==
    /\ \/ /\ failures < MaxFailures /\ failures' = failures + 1
          /\ Answer("BitRate", ch, "Unspecified", <<>>)
       \/ Answer("BitRate", ch, "OK", <<>>) /\ UNCHANGED failures
    /\ UNCHANGED <<sol, up>>

StopStart(s) ==
    /\ up' = [up EXCEPT ![s] = ~@]
    /\ UNCHANGED <<sol, reply, failures>>

\* ipmid restarting changes nothing a client can observe
ProcessRestart ==
    /\ Answer("Restart", 0, "OK", <<>>)
    /\ UNCHANGED <<sol, up, failures>>

Init ==
    /\ sol = [ch \in SolChannels |-> InitSol]
    /\ up = [s \in Services |-> TRUE]
    /\ reply = [op |-> "None", ch |-> 0, cc |-> "OK", ws |-> <<>>]
    /\ failures = 0

Next ==
    \/ \E ch \in SolChannels :
        \/ \E d \in ProgressInputs : SetProgress(ch, d)
        \/ \E d \in EnableInputs : SetEnable(ch, d)
        \/ \E d \in PrivInputs : SetAuthentication(ch, d)
        \/ \E d \in AccInputs : SetAccumulate(ch, d)
        \/ \E d \in RetryInputs : SetRetry(ch, d)
        \/ \E op \in {"Progress", "Enable", "Authentication", "Accumulate",
                      "Retry"} : Read(op, ch)
        \/ GetBitRate(ch)
    \/ \E s \in Services : StopStart(s)
    \/ ProcessRestart

Spec == Init /\ [][Next]_vars

=============================================================================
