------------------------------ MODULE NetRules ------------------------------
(***************************************************************************)
(* The ranges of net_out_rule.go that a caller puts into a NetOutRule.  An *)
(* address is a sequence of bytes of Bits bits each (8 in the code).  A    *)
(* byte is the set of its bits that are one: ^ is the complement, | the    *)
(* union and & the intersection.  A network is an address and a mask of    *)
(* the same length, as net.ParseCIDR returns them: the mask is ones and    *)
(* then zeros, and the address has no ones where the mask has zeros.       *)
(***************************************************************************)
EXTENDS Integers, Sequences

CONSTANTS Bits,     \* of a byte
          Bytes     \* of an address

ASSUME NetAssumption == Bits \in Nat \ {0} /\ Bytes \in Nat \ {0}

Bit == 0 .. Bits - 1
Byte == SUBSET Bit
IPs == [1 .. Bytes -> Byte]

IPRangeFromIP(ip) == [start |-> ip, end |-> ip]

\* Gives the network's own address back when the mask ends within a byte.
lastIP_WholeBytes(n) ==
  [i \in 1 .. Bytes |-> IF n.mask[i] = {} THEN Bit ELSE n.ip[i]]

\* (^m) | ip[i] for each byte m of the mask
lastIP(n) == [i \in 1 .. Bytes |-> (Bit \ n.mask[i]) \cup n.ip[i]]

IPRangeFromIPNet(n) == [start |-> n.ip, end |-> lastIP(n)]

PortRangeFromPort(port) == [start |-> port, end |-> port]

\* Bit k of byte i counts for more than bit l of byte j.
Before(i, k, j, l) == i < j \/ (i = j /\ k > l)

\* Addresses are ordered by the first bit in which they differ.
Less(a, b) ==
  \E i \in 1 .. Bytes, k \in Bit :
    /\ k \in b[i] \ a[i]
    /\ \A j \in 1 .. Bytes, l \in Bit : Before(j, l, i, k) => (l \in a[j] <=> l \in b[j])

InRange(ip, range) == ~Less(ip, range.start) /\ ~Less(range.end, ip)

\* Ones and then zeros.
IsMask(mask) ==
  \A i, j \in 1 .. Bytes, k, l \in Bit : Before(i, k, j, l) /\ l \in mask[j] => k \in mask[i]

InNet(ip, n) == \A i \in 1 .. Bytes : ip[i] \cap n.mask[i] = n.ip[i]

Nets == {n \in [ip : IPs, mask : IPs] : IsMask(n.mask) /\ InNet(n.ip, n)}
=============================================================================
