----------------------------- MODULE LanSession -----------------------------
(***************************************************************************)
(* Set-in-progress sessions of several IPMI clients on the LAN channels,  *)
(* composed with the Set LAN SetStatus handler of LanConfig.  A client    *)
(* opens a session with Set In Progress, may Commit, and ends it with     *)
(* Set Complete; what it believes is its own view of the latch.  ipmid    *)
(* keeps the latch in the static setStatus map (711), which any client's *)
(* Complete clears and an ipmid restart empties.                          *)
(*                                                                         *)
(* Only the SetStatus handler is composed here: the network state, the   *)
(* VLAN maps and the failure counter of LanConfig are variables that no   *)
(* step of this module changes (SetStatus requests leave them alone).     *)
(***************************************************************************)
EXTENDS Integers, FiniteSets, TLC

CONSTANTS
    Clients,         \* IPMI clients (sessions) configuring the channels
    LanChannels      \* LAN channel numbers (each on its own interface)

VARIABLES
    setStatus,       \* ipmid's setStatus map (LanConfig)
    reply,           \* the last response (LanConfig)
    session,         \* each client's view per channel: idle, open, committed
    net, lastDisabledVlan, failures, vlanWritten   \* LanConfig, left alone

vars == <<setStatus, reply, session, net, lastDisabledVlan, failures,
          vlanWritten>>

\* The values of LanConfig's state that SetStatus requests leave alone.
NoNet == [objs |-> {}, dhcp |-> <<>>, gw |-> <<>>, mac |-> <<>>]
NoVlans == [ch \in LanChannels |-> 0]
NoVlanWrites == [ch \in LanChannels |-> [vid |-> 0, en |-> FALSE, known |-> FALSE]]
EthNames == [ch \in LanChannels |-> <<ch>>]     \* eth<ch>

Lan == INSTANCE LanConfig WITH
    Channels <- LanChannels, ChannelName <- EthNames,
    Ifaces <- {EthNames[ch] : ch \in LanChannels}, VlanInputs <- {}, V4Addrs <- {}, LeaseAddrs <- {},
    V4Prefixes <- {}, V6Addrs <- {}, V6Selectors <- {}, GwAddrs <- {},
    Macs <- {}, MaxV6Static <- 0, MaxFailures <- 0, MaxSwallowed <- 0,
    LanParams <- {"SetStatus"}, InitDhcp <- {"none"}

Succeeded == reply'.cc = "ok"

(***************************************************************************)
(* Client steps.  Each is one request and ipmid's handling of it.         *)
(***************************************************************************)
Open(c, ch) ==
    /\ session[c][ch] = "idle"
    /\ Lan!SetLanSetStatus(ch, "InProgress")
    /\ session' = [session EXCEPT ![c][ch] = IF Succeeded THEN "open" ELSE "idle"]

\* Commit is accepted only while the latch is set; a refused Commit tells
\* the client that its session is gone.
Commit(c, ch) ==
    /\ session[c][ch] = "open"
    /\ Lan!SetLanSetStatus(ch, "Commit")
    /\ session' = [session EXCEPT ![c][ch] = IF Succeeded THEN "committed" ELSE "idle"]

Close(c, ch) ==
    /\ session[c][ch] \in {"open", "committed"}
    /\ Lan!SetLanSetStatus(ch, "Complete")
    /\ session' = [session EXCEPT ![c][ch] = "idle"]

\* ipmid restarts; the clients' sessions go on
Restart ==
    /\ Lan!Restart
    /\ UNCHANGED session

Init ==
    /\ setStatus = [ch \in LanChannels |-> "Complete"]
    /\ reply = [by |-> 0, op |-> "init", cc |-> "ok"]
    /\ session = [c \in Clients |-> [ch \in LanChannels |-> "idle"]]
    /\ net = NoNet /\ lastDisabledVlan = NoVlans /\ failures = 0
    /\ vlanWritten = NoVlanWrites

\* Clients that follow the protocol: every Complete ends the sender's own
\* session.
Next ==
    \E c \in Clients, ch \in LanChannels :
        Open(c, ch) \/ Commit(c, ch) \/ Close(c, ch)

Spec == Init /\ [][Next]_vars

\* Clients that hold a session end it: a client never stops for ever while
\* it could send its Set Complete.  ipmid itself has no timer (the latch
\* is released only by a Complete, 856), so nothing weaker releases it.
FairSpec == Spec /\ \A c \in Clients, ch \in LanChannels : WF_vars(Close(c, ch))

\* The same clients while ipmid may restart at any time.
SpecRestarts == Init /\ [][Next \/ Restart]_vars

-----------------------------------------------------------------------------
Holders(ch) == {c \in Clients : session[c][ch] \in {"open", "committed"}}

TypeOK ==
    /\ setStatus \in [LanChannels -> {"Complete", "InProgress"}]
    /\ session \in [Clients -> [LanChannels -> {"idle", "open", "committed"}]]

\* The set-in-progress latch is a mutual-exclusion latch over a client's
\* configuration session (spec section 5): at no time do two clients both
\* hold an open session of the channel.  setLan's SetStatus case refuses a
\* second InProgress while the map holds InProgress.
SessionExclusive == \A ch \in LanChannels : Cardinality(Holders(ch)) <= 1

\* While a client holds a session, ipmid's latch is set: no session is
\* open without the InProgress that protects it.
SessionLatched ==
    \A ch \in LanChannels : Holders(ch) # {} => Lan!GetSetStatus(setStatus, ch) = "InProgress"

\* Every InProgress latch is eventually released, when the clients that
\* hold sessions end them: setLan's Complete case clears the map entry
\* whatever state it is in, and no request of another client (a refused
\* Set In Progress, a Commit) leaves the latch held without a holder.
LatchReleased ==
    \A ch \in LanChannels :
        Lan!GetSetStatus(setStatus, ch) = "InProgress" ~>
            Lan!GetSetStatus(setStatus, ch) = "Complete"

=============================================================================
