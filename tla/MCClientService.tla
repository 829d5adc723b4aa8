-------------------------- MODULE MCClientService --------------------------
(* ClientService in the systems of topologies and command lines: a node    *)
(* with a client for each of two services; a client whose node's callbacks *)
(* run on two threads; two client nodes and one server, as client_nodes    *)
(* and server_nodes create them.                                           *)
EXTENDS ClientService, Options

INSTANCE Factory

CONSTANTS System, CommandLine

Client(service) == [service_name |-> service, freq_hz |-> 10]
Server(service) == [service_name |-> service]

TwoServices ==
  ParseTopology(<<[node_name |-> "client",
                   clients |-> <<Client("v1"), Client("v2")>>],
                  [node_name |-> "server",
                   servers |-> <<Server("v1"), Server("v2")>>]>>)
OneService ==
  ParseTopology(<<[node_name |-> "client", clients |-> <<Client("v1")>>],
                  [node_name |-> "server", servers |-> <<Server("v1")>>]>>)
SharedService == ClientNodes(2, 1, 10) \union ServerNodes(2, 1)

SingleThreaded == [topology |-> <<"client_service">>]
TwoThreads ==
  [topology |-> <<"client_service">>, executor |-> 3, threads |-> 2,
   callback_group_type |-> "reentrant"]

HardwareConcurrency == 4

\* TLC remembers the value of a definition, but works out anew what a cfg
\* substitutes for a constant: that names a definition, here and in the
\* other MC modules.
NodeNames == {node.name : node \in System}
ServiceClients == ClientEntities(System)
ServiceNames == ServicesOf(System)
NodeOfClient == [c \in ServiceClients |-> c[1]]
ServiceOfClient == [c \in ServiceClients |-> c[2]]
TimerPeriods ==
  [c \in ServiceClients |->
     CHOOSE period \in ClientTimers(System, "client", c) : TRUE]
\* Threads matter only to the nodes with clients.
NodeThreadIds ==
  {<<c[1], k>> : c \in ServiceClients,
     k \in 1 .. NodeThreads(Parse(CommandLine), HardwareConcurrency)}
NodeOfThread == [t \in NodeThreadIds |-> t[1]]

MCNodes == NodeNames
MCClients == ServiceClients
MCServices == ServiceNames
MCThreads == NodeThreadIds
MCClientNode == NodeOfClient
MCClientService == ServiceOfClient
MCThreadNode == NodeOfThread
MCPeriod == TimerPeriods
=============================================================================
