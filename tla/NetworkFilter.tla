---------------------------- MODULE NetworkFilter ----------------------------
(* The filters of driver/wfp.c as data, and what the Windows Filtering       *)
(* Platform (external) makes of them: which connections, accepts and binds   *)
(* they let through.  When they are in force is module DriverEntry's         *)
(* subject.                                                                  *)
(*                                                                           *)
(* An address is its two leading 16-bit groups.  That is all of an IPv4      *)
(* address, and more of an IPv6 address than the prefixes below look at.     *)
EXTENDS Naturals, Sequences

FWP_ACTION_BLOCK  == 4097   \* 0x1001
FWP_ACTION_PERMIT == 4098   \* 0x1002

Layer == {"CONNECT_V4", "RECV_ACCEPT_V4", "RESOURCE_ASSIGNMENT_V4",
          "CONNECT_V6", "RECV_ACCEPT_V6", "RESOURCE_ASSIGNMENT_V6"}

\* Sixteen bits.
MaxGroup == 65535
Group == 0 .. MaxGroup

\* A group given by its two octets, and the part of one that a mask of leading ones
\* leaves.
Octets(a, b) == 256 * a + b
Masked(x, mask) == x - (x % (65536 - mask))

-----------------------------------------------------------------------------
\* The masks of the IPv6 ranges become prefix lengths (wfp.c 109-116).

\* while (v & 0x80) { ++prefix; v <<= 1; } on a UCHAR: v after so many rounds, and
\* the number of rounds.
Shifted(v, rounds) == (v * 2 ^ rounds) % 256

LeadingOnes(v) ==
    CHOOSE n \in 0 .. 8 :
        /\ Shifted(v, n) < 128
        /\ \A m \in 0 .. n - 1 : Shifted(v, m) >= 128

\* The loop over the bytes, which ends at the first that is not 0xFF.  All masks
\* here end within two bytes.
PrefixLength(bytes) ==
    LeadingOnes(bytes[1]) + IF bytes[1] = 255 THEN LeadingOnes(bytes[2]) ELSE 0

\* The platform's reading of a prefix length (external).
PrefixMask(length) == 65536 - 2 ^ (16 - length)

-----------------------------------------------------------------------------
\* The filters.

PermitWeight == 61440   \* 0xF000
DenyWeight   == 256     \* 0x100

AnyPort == 0

\* LgAddFilter takes the action as a UINT8 (line 34).
StoredAction(action) == action % 256

Filter(layer, action, net, mask, port, weight) ==
    [layer |-> layer, action |-> StoredAction(action),
     net |-> net, mask |-> mask, port |-> port, weight |-> weight]

\* Mutant: 172.16.0.0 with the mask of 172.16.0.0/16.
LanV4Narrow ==
    << [net |-> Octets(10, 0),    mask |-> Octets(255, 0)],
       [net |-> Octets(172, 16),  mask |-> Octets(255, 255)],
       [net |-> Octets(192, 168), mask |-> Octets(255, 255)],
       [net |-> Octets(169, 254), mask |-> Octets(255, 255)] >>

\* 10.0.0.0/8, 172.16.0.0/12, 192.168.0.0/16, 169.254.0.0/16.
LanV4 ==
    << [net |-> Octets(10, 0),    mask |-> Octets(255, 0)],
       [net |-> Octets(172, 16),  mask |-> Octets(255, 240)],
       [net |-> Octets(192, 168), mask |-> Octets(255, 255)],
       [net |-> Octets(169, 254), mask |-> Octets(255, 255)] >>

\* fe80::/10, fc00::/7: the leading bytes of net and mask.
LanV6 ==
    << [net |-> Octets(254, 128), bytes |-> <<255, 192>>],
       [net |-> Octets(252, 0),   bytes |-> <<254, 0>>] >>

\* 224.0.0.251:5353 (mDNS), 239.255.255.250:1900 (SSDP).
Discovery ==
    << [addr |-> <<Octets(224, 0), Octets(0, 251)>>,     port |-> 5353],
       [addr |-> <<Octets(239, 255), Octets(255, 250)>>, port |-> 1900] >>

\* The i-th filter that each function adds for a layer.
V4LanPermit(layer, i) ==
    Filter(layer, FWP_ACTION_PERMIT, <<LanV4[i].net, 0>>, <<LanV4[i].mask, 0>>,
           AnyPort, PermitWeight)

V6LanPermit(layer, i) ==
    Filter(layer, FWP_ACTION_PERMIT, <<LanV6[i].net, 0>>,
           <<PrefixMask(PrefixLength(LanV6[i].bytes)), 0>>, AnyPort, PermitWeight)

MulticastDiscovery(layer, i) ==
    Filter(layer, FWP_ACTION_PERMIT, Discovery[i].addr, <<65535, 65535>>,
           Discovery[i].port, PermitWeight)

DefaultDeny(layer) ==
    Filter(layer, FWP_ACTION_BLOCK, <<0, 0>>, <<0, 0>>, AnyPort, DenyWeight)

FilterCount == 20

DeniedLayers ==
    << "CONNECT_V4", "CONNECT_V6", "RECV_ACCEPT_V4", "RECV_ACCEPT_V6",
       "RESOURCE_ASSIGNMENT_V4", "RESOURCE_ASSIGNMENT_V6" >>

\* In the order LgWfpInitialize adds them (194-211).
Filters ==
    [n \in 1 .. FilterCount |->
        CASE n \in 1 .. 4   -> V4LanPermit("CONNECT_V4", n)
          [] n \in 5 .. 8   -> V4LanPermit("RECV_ACCEPT_V4", n - 4)
          [] n \in 9 .. 10  -> MulticastDiscovery("CONNECT_V4", n - 8)
          [] n \in 11 .. 12 -> V6LanPermit("CONNECT_V6", n - 10)
          [] n \in 13 .. 14 -> V6LanPermit("RECV_ACCEPT_V6", n - 12)
          [] n \in 15 .. 20 -> DefaultDeny(DeniedLayers[n - 14])]

-----------------------------------------------------------------------------
\* The platform (external).  A flow is something to be authorised: a connect, an
\* accept or a port assignment, with its remote address and port.
Flow == [layer : Layer, addr : [1 .. 2 -> Group], port : Group]

Matches(f, flow) ==
    /\ f.layer = flow.layer
    /\ \A g \in 1 .. 2 : Masked(flow.addr[g], f.mask[g]) = Masked(f.net[g], f.mask[g])
    /\ f.port \in {AnyPort, flow.port}

\* Of the matching filters the one with the most weight decides; without one the
\* flow is let through.  A stored action is told by its low byte.
Permitted(installed, flow) ==
    LET hits == {i \in installed : Matches(Filters[i], flow)} IN
    \/ hits = {}
    \/ \E i \in hits :
          /\ \A j \in hits : Filters[j].weight <= Filters[i].weight
          /\ Filters[i].action % 256 = FWP_ACTION_PERMIT % 256
=============================================================================
