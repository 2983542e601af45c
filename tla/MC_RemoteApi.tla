---------------------------- MODULE MC_RemoteApi ----------------------------
(***************************************************************************)
(* RemoteApi with two calls, made one after the other or at the same time, *)
(* and one container at first.  Every method of the API is called; one of  *)
(* the handles is also a word of a route.                                  *)
(***************************************************************************)
EXTENDS NetAccess, FiniteSetsExt, TLC

MCPresent ==
  "c1" :> [properties |-> ("k" :> "v1"), grace |-> "short", last |-> <<"Create", ContainerSpec>>]

\* The bytes of an address, each by its value.
Ones(v) == {k \in Bit : (v \div 2 ^ k) % 2 = 1}
IP(a, b) == <<Ones(a), Ones(b)>>

\* All addresses, a prefix that ends inside a byte (of two bits), one that ends at a byte,
\* and one address.
All == [ip |-> IP(0, 0), mask |-> IP(0, 0)]
Half == [ip |-> IP(2, 0), mask |-> IP(2, 0)]
Quarter == [ip |-> IP(1, 0), mask |-> IP(3, 0)]
Host == [ip |-> IP(1, 2), mask |-> IP(3, 3)]

Rule(n) ==
  [NetOutRule EXCEPT !.networks = <<IPRangeFromIPNet(n)>>, !.ports = <<PortRangeFromPort("80")>>]

\* One address, and the first code of the first type.
EchoReply ==
  [NetOutRule EXCEPT !.protocol = "icmp", !.networks = <<IPRangeFromIP(Host.ip)>>,
                     !.icmps = <<[ICMPControl EXCEPT !.code = ICMPControlCode("0")]>>]

MCPlainCalls ==
  <<<<"Ping", "", <<>>>>, <<"Capacity", "", <<>>>>,
    <<"Create", "", [ContainerSpec EXCEPT !.handle = "c1", !.grace_time = "long"]>>,
    <<"Destroy", "c1", <<>>>>, <<"Destroy", "bulk_info", <<>>>>,
    <<"Containers", "", <<>>>>, <<"Containers", "", "k" :> "v1">>,
    <<"Lookup", "c1", <<>>>>, <<"Lookup", "bulk_info", <<>>>>,
    <<"BulkInfo", "", <<"c1", "bulk_info">>>>, <<"BulkInfo", "", <<>>>>,
    <<"BulkMetrics", "", <<"c1">>>>,
    <<"Stop", "c1", [kill |-> "true"]>>, <<"Stop", "bulk_info", [kill |-> "false"]>>,
    <<"Info", "c1", <<>>>>, <<"Info", "bulk_info", <<>>>>, <<"Metrics", "c1", <<>>>>,
    <<"StreamIn", "c1", [user |-> "u", path |-> "p", tar |-> "t"]>>,
    <<"StreamOut", "c1", [user |-> "u", path |-> "p"]>>,
    <<"CurrentBandwidthLimits", "c1", <<>>>>, <<"CurrentCPULimits", "c1", <<>>>>,
    <<"CurrentDiskLimits", "c1", <<>>>>, <<"CurrentMemoryLimits", "c1", <<>>>>,
    <<"NetIn", "c1", [host_port |-> "0", container_port |-> "81"]>>,
    <<"NetIn", "c1", [host_port |-> "82", container_port |-> "0"]>>,
    <<"Run", "c1", [ProcessSpec EXCEPT !.id = "p1", !.path = "ls", !.rlimits.core = <<"0">>,
                                       !.limits = <<[ProcessLimits EXCEPT !.cpu_limits.weight = "5"]>>,
                                       !.tty = <<[TTYSpec EXCEPT !.window_size = <<WindowSize>>]>>]>>,
    <<"Attach", "c1", [pid |-> "p1"]>>, <<"Attach", "c1", [pid |-> "p2"]>>,
    <<"SetGraceTime", "c1", "long">>,
    <<"Properties", "c1", <<>>>>, <<"Property", "c1", [name |-> "k"]>>,
    <<"SetProperty", "c1", [name |-> "k", value |-> "v2"]>>,
    <<"RemoveProperty", "c1", [name |-> "k"]>>>>

\* The calls that open networks, with those networks.
MCNetCalls ==
  <<[asks |-> {Host, Quarter},
     call |-> <<"Create", "", [ContainerSpec EXCEPT
                                 !.handle = "bulk_info", !.properties = "k" :> "v1",
                                 !.image.uri = "img", !.limits.pid_limits.max = "9",
                                 !.bind_mounts = <<[BindMount EXCEPT !.mode = "1"]>>,
                                 !.netout_rules = <<EchoReply, Rule(Quarter)>>]>>],
    [asks |-> {All}, call |-> <<"NetOut", "c1", Rule(All)>>],
    [asks |-> {Half}, call |-> <<"NetOut", "c1", Rule(Half)>>],
    [asks |-> {All, Host}, call |-> <<"BulkNetOut", "c1", <<Rule(All), EchoReply>>>>],
    [asks |-> {Half, Quarter}, call |-> <<"BulkNetOut", "c1", <<Rule(Half), Rule(Quarter)>>>>]>>

MCCalls == MCPlainCalls \o [i \in DOMAIN MCNetCalls |-> MCNetCalls[i].call]

MCAsks ==
  [i \in DOMAIN MCCalls |->
     LET k == i - Len(MCPlainCalls) IN IF k > 0 THEN MCNetCalls[k].asks ELSE {}]

\* Every handle, process id and property name of the calls.
MCNames == {"c1", "bulk_info", "p1", "p2", "k"}

MCFailures ==
  {UnrecoverableError("bad"), ServiceUnavailableError("bad"), ExecutableNotFoundError("bad"),
   GoError("exec.Error", "bad")}

MCProcesses == {"p1"}

\* The two calls are interchangeable: nothing orders the slots.
Symmetry == Permutations(Slots)

\* Less compares addresses as the numbers that their bits are.
Value(ip) ==
  MapThenSumSet(LAMBDA p : 2 ^ (Bits * (Bytes - p[1]) + p[2]),
                {p \in (1 .. Bytes) \X Bit : p[2] \in ip[p[1]]})

ASSUME \A a, b \in IPs : Less(a, b) <=> Value(a) < Value(b)
\* The networks are those of the prefixes, each with the addresses that begin with it.
ASSUME Nets = {n \in [ip : IPs, mask : IPs] :
                 \E p \in 0 .. Bits * Bytes :
                   LET size == 2 ^ (Bits * Bytes - p)
                   IN  Value(n.mask) = 2 ^ (Bits * Bytes) - size /\ Value(n.ip) % size = 0}
=============================================================================
