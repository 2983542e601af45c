------------------------------ MODULE Payloads ------------------------------
(***************************************************************************)
(* The records that travel as JSON, each by the value that it has in Go    *)
(* when nothing is set, under the names of its json tags.  Every field is  *)
(* tagged omitempty: the sender leaves out what has its zero value, and    *)
(* the receiver decodes into a zero value.  A pointer is a sequence of at  *)
(* most one element.  A struct is never left out, but its fields are.  A   *)
(* list that nothing in the models looks into is a string, empty for the   *)
(* zero value.                                                             *)
(***************************************************************************)

ImageRef == [uri |-> "", username |-> "", password |-> ""]

\* Read-only, and from the host.
BindMount == [src_path |-> "", dst_path |-> "", mode |-> "0", origin |-> "0"]

BandwidthLimits == [rate |-> "0", burst |-> "0"]
CPULimits == [weight |-> "0", limit_in_shares |-> "0"]
DiskLimits ==
  [inode_soft |-> "0", inode_hard |-> "0", byte_soft |-> "0", byte_hard |-> "0", scope |-> "0"]
MemoryLimits == [limit_in_bytes |-> "0"]
PidLimits == [max |-> "0"]

Limits ==
  [bandwidth_limits |-> BandwidthLimits, cpu_limits |-> CPULimits, disk_limits |-> DiskLimits,
   memory_limits |-> MemoryLimits, pid_limits |-> PidLimits]

ContainerSpec ==
  [handle |-> "", grace_time |-> "0", rootfs |-> "", image |-> ImageRef,
   bind_mounts |-> <<>>, network |-> "", properties |-> <<>>, env |-> "",
   privileged |-> "false", limits |-> Limits, netout_rules |-> <<>>, netin |-> <<>>]

\* Pointers, all of them: a limit of zero is not the same as none.
ResourceLimits ==
  [f \in {"as", "core", "cpu", "data", "fsize", "locks", "memlock", "msgqueue", "nice",
          "nofile", "nproc", "rss", "rtprio", "sigpending", "stack"} |-> <<>>]

ProcessLimits == [cpu_limits |-> CPULimits, memory_limits |-> MemoryLimits]
WindowSize == [columns |-> "0", rows |-> "0"]
TTYSpec == [window_size |-> <<>>]

ProcessSpec ==
  [id |-> "", path |-> "", args |-> "", env |-> "", dir |-> "", user |-> "",
   rlimits |-> ResourceLimits, limits |-> <<>>, tty |-> <<>>, image |-> ImageRef,
   bind_mounts |-> <<>>]

NetInRequest == [handle |-> "", host_port |-> "0", container_port |-> "0"]

\* ProtocolAll is the zero value of a protocol.
NetOutRule ==
  [protocol |-> "all", networks |-> <<>>, ports |-> <<>>, icmps |-> <<>>, log |-> "false"]

\* The code is a pointer, so that code 0 is not taken for no code, which means all.
ICMPControl == [type |-> "0", code |-> <<>>]
ICMPControlCode(code) == <<code>>

\* garden.Capacity and the other structs that answers are decoded into.
CapacityAnswer ==
  [memory_in_bytes |-> "0", disk_in_bytes |-> "0", schedulable_disk_in_bytes |-> "0",
   max_containers |-> "0"]
NetInResponse == [host_port |-> "0", container_port |-> "0"]

\* By the method they answer.  No field of the other answers is tagged omitempty.
AnswerOf(method) ==
  CASE method = "Capacity" -> CapacityAnswer
    [] method = "NetIn" -> NetInResponse
    [] method = "CurrentBandwidthLimits" -> BandwidthLimits
    [] method = "CurrentCPULimits" -> CPULimits
    [] method = "CurrentDiskLimits" -> DiskLimits
    [] method = "CurrentMemoryLimits" -> MemoryLimits
    [] OTHER -> <<>>

Marshal(zero, v) == [f \in {g \in DOMAIN zero : v[g] # zero[g]} |-> v[f]]
Unmarshal(zero, wire) == [f \in DOMAIN zero |-> IF f \in DOMAIN wire THEN wire[f] ELSE zero[f]]

MarshalAll(zero, vs) == [i \in DOMAIN vs |-> Marshal(zero, vs[i])]
UnmarshalAll(zero, ws) == [i \in DOMAIN ws |-> Unmarshal(zero, ws[i])]

\* A struct of structs
MarshalFields(zero, v) == [f \in DOMAIN zero |-> Marshal(zero[f], v[f])]
UnmarshalFields(zero, wire) == [f \in DOMAIN zero |-> Unmarshal(zero[f], wire[f])]

\* A rule has a record within it, and so have the other two.
MarshalRule(rule) ==
  Marshal(NetOutRule, [rule EXCEPT !.icmps = MarshalAll(ICMPControl, @)])
UnmarshalRule(wire) ==
  [Unmarshal(NetOutRule, wire) EXCEPT !.icmps = UnmarshalAll(ICMPControl, @)]

MarshalContainer(spec) ==
  Marshal(ContainerSpec,
          [spec EXCEPT !.image = Marshal(ImageRef, @),
                       !.bind_mounts = MarshalAll(BindMount, @),
                       !.limits = MarshalFields(Limits, @),
                       !.netout_rules = [i \in DOMAIN @ |-> MarshalRule(@[i])]])
UnmarshalContainer(wire) ==
  [Unmarshal(ContainerSpec, wire) EXCEPT
     !.image = Unmarshal(ImageRef, @),
     !.bind_mounts = UnmarshalAll(BindMount, @),
     !.limits = UnmarshalFields(Limits, @),
     !.netout_rules = [i \in DOMAIN @ |-> UnmarshalRule(@[i])]]

MarshalTTY(tty) == Marshal(TTYSpec, [tty EXCEPT !.window_size = MarshalAll(WindowSize, @)])
UnmarshalTTY(wire) ==
  [Unmarshal(TTYSpec, wire) EXCEPT !.window_size = UnmarshalAll(WindowSize, @)]

MarshalProcess(spec) ==
  Marshal(ProcessSpec,
          [spec EXCEPT !.rlimits = Marshal(ResourceLimits, @),
                       !.limits = [i \in DOMAIN @ |-> MarshalFields(ProcessLimits, @[i])],
                       !.tty = [i \in DOMAIN @ |-> MarshalTTY(@[i])],
                       !.image = Marshal(ImageRef, @),
                       !.bind_mounts = MarshalAll(BindMount, @)])
UnmarshalProcess(wire) ==
  [Unmarshal(ProcessSpec, wire) EXCEPT
     !.rlimits = Unmarshal(ResourceLimits, @),
     !.limits = [i \in DOMAIN @ |-> UnmarshalFields(ProcessLimits, @[i])],
     !.tty = [i \in DOMAIN @ |-> UnmarshalTTY(@[i])],
     !.image = Unmarshal(ImageRef, @),
     !.bind_mounts = UnmarshalAll(BindMount, @)]
-----------------------------------------------------------------------------
\* What Go's types say of the values that callers give: a struct has the fields of its
\* zero value, and a list its elements.
HasFields(fields, v) == v = [f \in fields |-> v[f]]
IsOf(zero, v) == HasFields(DOMAIN zero, v)
AllOf(zero, vs) == HasFields(DOMAIN vs, vs) /\ \A i \in DOMAIN vs : IsOf(zero, vs[i])
FieldsOf(zero, v) == IsOf(zero, v) /\ \A f \in DOMAIN zero : IsOf(zero[f], v[f])

IsRule(rule) == IsOf(NetOutRule, rule) /\ AllOf(ICMPControl, rule.icmps)
AreRules(rules) == HasFields(DOMAIN rules, rules) /\ \A i \in DOMAIN rules : IsRule(rules[i])

IsContainer(spec) ==
  /\ IsOf(ContainerSpec, spec) /\ IsOf(ImageRef, spec.image)
  /\ AllOf(BindMount, spec.bind_mounts) /\ FieldsOf(Limits, spec.limits)
  /\ AreRules(spec.netout_rules)

IsTTY(tty) == IsOf(TTYSpec, tty) /\ AllOf(WindowSize, tty.window_size)

IsProcess(spec) ==
  /\ IsOf(ProcessSpec, spec) /\ IsOf(ImageRef, spec.image)
  /\ AllOf(BindMount, spec.bind_mounts) /\ IsOf(ResourceLimits, spec.rlimits)
  /\ HasFields(DOMAIN spec.limits, spec.limits)
  /\ \A i \in DOMAIN spec.limits : FieldsOf(ProcessLimits, spec.limits[i])
  /\ HasFields(DOMAIN spec.tty, spec.tty) /\ \A i \in DOMAIN spec.tty : IsTTY(spec.tty[i])
=============================================================================
