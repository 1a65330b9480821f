----------------------------- MODULE MCDriverEntry -----------------------------
(* A small instance of DriverEntry.                                          *)
EXTENDS DriverEntry

FlowTo(layer, group, port) == [layer |-> layer, addr |-> <<group, 1>>, port |-> port]

\* Both sides of every boundary of the ranges, and the discovery addresses with
\* the right and a wrong port.
V4Groups ==
    { Octets(9, 255), Octets(10, 0), Octets(10, 255), Octets(11, 0), Octets(8, 8),
      Octets(172, 15), Octets(172, 16), Octets(172, 31), Octets(172, 32),
      Octets(192, 167), Octets(192, 168), Octets(192, 169),
      Octets(169, 253), Octets(169, 254), Octets(169, 255), 0, 65535 }

V6Groups ==
    { Octets(254, 127), Octets(254, 128), Octets(254, 191), Octets(254, 192),
      Octets(251, 255), Octets(252, 0), Octets(253, 255), Octets(254, 0),
      Octets(32, 1), 0, 65535 }

MCFlows ==
    {FlowTo(l, g, 443) : l \in {"CONNECT_V4", "RECV_ACCEPT_V4"}, g \in V4Groups}
    \cup {FlowTo(l, g, 443) : l \in {"CONNECT_V6", "RECV_ACCEPT_V6"}, g \in V6Groups}
    \cup [layer : {"RESOURCE_ASSIGNMENT_V4", "RESOURCE_ASSIGNMENT_V6"},
          addr : {<<0, 0>>}, port : {8080}]
    \cup [layer : {"CONNECT_V4", "RECV_ACCEPT_V4"},
          addr : {<<57344, 251>>, <<61439, 65530>>, <<61439, 65531>>},
          port : {1900, 5353}]
=============================================================================
