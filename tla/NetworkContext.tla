--------------------------- MODULE NetworkContext ---------------------------
(***************************************************************************)
(* The frontend's NetworkProvider: the selected network and its connection *)
(* to the registry.  getRegistryConnection keeps one connection, open or   *)
(* being opened, per network; the provider waits for that of the selected  *)
(* network at most until a timeout, and no longer once another network is  *)
(* selected.                                                               *)
(*                                                                         *)
(* connected, connecting and error of the provider are exclusive and are   *)
(* one field here.  What a click sets, React renders and runs the effects  *)
(* of before anything else happens, so a click and its effects are one     *)
(* step; so is the arrival of an answer with the effects it triggers.      *)
(***************************************************************************)
EXTENDS Integers, FiniteSets, Sequences

CONSTANTS
  Network, DefaultNetwork,
  MaxSwitches   \* bounds how often the user selects another network

ASSUME NetworkAssumption == DefaultNetwork \in Network /\ MaxSwitches \in Nat

VARIABLES
  net,          \* the network and its status: connecting, connected or failed
  connections,  \* registryConnections: "none", "pending" or "ready" per network
  switches

networkVars == <<net, connections, switches>>

Connected(n) == n.status = "connected"

\* setNetwork and the effect it triggers.
SetNetwork(network) ==
  /\ switches < MaxSwitches /\ network # net.network
  /\ switches' = switches + 1
  /\ net' = [network |-> network, status |-> "connecting"]
  /\ connections' = [connections EXCEPT ![network] = IF @ = "none" THEN "pending" ELSE @]

ConnectionOpens(network) ==
  /\ connections[network] = "pending"
  /\ connections' = [connections EXCEPT ![network] = "ready"]
  /\ UNCHANGED <<net, switches>>

\* A failed connection is forgotten, and the next attempt opens another.
ConnectionFails(network) ==
  /\ connections[network] = "pending"
  /\ connections' = [connections EXCEPT ![network] = "none"]
  /\ net' = IF net = [network |-> network, status |-> "connecting"]
              THEN [net EXCEPT !.status = "failed"] ELSE net
  /\ UNCHANGED switches

Connect ==
  /\ net.status = "connecting" /\ connections[net.network] = "ready"
  /\ net' = [net EXCEPT !.status = "connected"]
  /\ UNCHANGED <<connections, switches>>

\* The connection may still open afterwards; the provider takes no notice.
ConnectTimesOut ==
  /\ net.status = "connecting"
  /\ net' = [net EXCEPT !.status = "failed"]
  /\ UNCHANGED <<connections, switches>>

NetworkInit ==
  /\ net = [network |-> DefaultNetwork, status |-> "connecting"]
  /\ connections = [n \in Network |-> IF n = DefaultNetwork THEN "pending" ELSE "none"]
  /\ switches = 0

ConnectionStep ==
  \/ Connect \/ ConnectTimesOut
  \/ \E n \in Network : ConnectionOpens(n) \/ ConnectionFails(n)
NetworkStep == ConnectionStep \/ \E n \in Network : SetNetwork(n)
=============================================================================
