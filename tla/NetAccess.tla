----------------------------- MODULE NetAccess ------------------------------
(***************************************************************************)
(* RemoteApi with the rules of NetRules: what the containers may reach     *)
(* after the calls that open networks.                                     *)
(***************************************************************************)
EXTENDS RemoteApi, NetRules

CONSTANT Asks   \* Asks[i] are the networks that the caller of Calls[i] asks to open

\* The address ranges of the rules of a call.
Ranges(asked) ==
  LET rules == CASE asked[1] = "NetOut" -> {asked[2]}
                 [] asked[1] = "BulkNetOut" -> Range(asked[2])
                 [] asked[1] = "Create" -> Range(asked[2].netout_rules)
                 [] OTHER -> {}
  IN  UNION {Range(rule.networks) : rule \in rules}

\* A network of one address, for which IPRangeFromIP is there too.
IsHost(n) == n.mask = [i \in 1 .. Bytes |-> Bit]

\* Callers make their ranges with the functions of net_out_rule.go.
IsMade(range, n) ==
  range = IPRangeFromIPNet(n) \/ (IsHost(n) /\ range = IPRangeFromIP(n.ip))

MadeOf(ranges, networks) ==
  /\ \A range \in ranges : \E n \in networks : IsMade(range, n)
  /\ \A n \in networks : \E range \in ranges : IsMade(range, n)

ASSUME AsksAssumption == \A i \in DOMAIN Calls : Asks[i] \subseteq Nets
ASSUME RangesAssumption ==
  /\ \A i \in DOMAIN Calls : MadeOf(Ranges(<<Method(Calls[i]), Args(Calls[i])>>), Asks[i])
  /\ \A h \in DOMAIN Present : "last" \in DOMAIN Present[h]

\* The container that a call is about.
Target(a) == IF Method(a) = "Create" THEN Args(a).handle ELSE Handle(a)

\* The addresses of each range, and of each network.
Opened(ranges) == {{ip \in IPs : InRange(ip, range)} : range \in ranges}
Wanted(networks) == {{ip \in IPs : InNet(ip, n)} : n \in networks}

\* NetOut, BulkNetOut and the rules of Create open exactly the networks that their caller
\* asked for: the ranges that a container was given last, made by IPRangeFromIPNet or
\* IPRangeFromIP, are those of one call that was made, of that method and for that
\* container, and hold the addresses of each network of that call and no others.
OpensTheNetworks ==
  \A h \in DOMAIN store :
    \/ h \in DOMAIN Present /\ store[h].last = Present[h].last
    \/ \E c \in Slots, i \in DOMAIN Calls :
         /\ call[c] = Calls[i]
         /\ Method(Calls[i]) = store[h].last[1] /\ Target(Calls[i]) = h
         /\ Opened(Ranges(store[h].last)) = Wanted(Asks[i])
=============================================================================
