-------------------------- MODULE MCActionService --------------------------
(* ActionService with a node that has a client for each of two servers,    *)
(* and with two clients of one server.                                     *)
EXTENDS ActionService

INSTANCE Factory

CONSTANT System

ActionClient(action) == [action_name |-> action, freq_hz |-> 10]
ActionServer(action) == [action_name |-> action]

TwoActions ==
  ParseTopology(<<[node_name |-> "client",
                   action_clients |-> <<ActionClient("a1"), ActionClient("a2")>>],
                  [node_name |-> "server",
                   action_servers |-> <<ActionServer("a1"), ActionServer("a2")>>]>>)
SharedAction ==
  ParseTopology(<<[node_name |-> "client", number |-> 2,
                   action_clients |-> <<ActionClient("a1")>>],
                  [node_name |-> "server",
                   action_servers |-> <<ActionServer("a1")>>]>>)

NodeNames == {node.name : node \in System}
GoalClients == ActionClientEntities(System)
ActionNames == ActionsOf(System)
NodeOfClient == [c \in GoalClients |-> c[1]]
ActionOfClient == [c \in GoalClients |-> c[2]]
\* Both clients have the same.
PeriodOfTimers ==
  CHOOSE period \in UNION {ClientTimers(System, "action_client", c) :
                             c \in GoalClients} : TRUE

MCNodes == NodeNames
MCClients == GoalClients
MCActions == ActionNames
MCClientNode == NodeOfClient
MCClientAction == ActionOfClient
MCPeriodUs == PeriodOfTimers
=============================================================================
