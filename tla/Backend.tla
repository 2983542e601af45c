------------------------------ MODULE Backend -------------------------------
(***************************************************************************)
(* The containers behind garden.Client and garden.Container, as far as a   *)
(* caller of those interfaces can see them: a container has its            *)
(* properties, its grace time, and remembers the last call that acted on   *)
(* it (stopped it, ran a process, opened a port...), with the arguments.   *)
(* Backends are not part of the repository; this one does what the         *)
(* interfaces ask of them.                                                 *)
(***************************************************************************)
EXTENDS Connection, Functions

CONSTANTS Processes,   \* the ids that Attach finds
          FreePort     \* the port that the pool gives out

NewContainer(spec) ==
  [properties |-> spec.properties, grace |-> spec.grace_time, last |-> <<"Create", spec>>]

\* f with k set to v.
Put(f, k, v) == [x \in DOMAIN f \cup {k} |-> IF x = k THEN v ELSE f[x]]

Outcome(store, result) == [store |-> store, result |-> result]

\* A call that only reads, and one that acts on container h.
Reads(s, entries) == Outcome(s, Success(entries))
Acts(s, a, entries) ==
  Outcome([s EXCEPT ![Handle(a)].last = <<Method(a), Args(a)>>], Success(entries))

HasProperties(container, wanted) ==
  \A k \in DOMAIN wanted :
    k \in DOMAIN container.properties /\ container.properties[k] = wanted[k]

BulkEntries(s, handles, value) ==
  {IF h \in DOMAIN s THEN Entry(h, value) ELSE ErrorEntry(h, ContainerNotFoundError(h))
     : h \in Range(handles)}

Entries(f) == {Entry(k, f[k]) : k \in DOMAIN f}

OfBackend(s, a) ==
  CASE Method(a) = "Ping" -> Reads(s, {})
    [] Method(a) = "Capacity" -> Reads(s, Entries([CapacityAnswer EXCEPT !.max_containers = "8"]))
    [] Method(a) = "Create" ->
         LET h == Args(a).handle
         IN  IF h \in DOMAIN s THEN Outcome(s, Failure(Plain("handle already taken")))
             ELSE Outcome(Put(s, h, NewContainer(Args(a))), Success({Entry("handle", h)}))
    [] Method(a) = "Destroy" ->
         IF Handle(a) \in DOMAIN s
         THEN Outcome(Restrict(s, DOMAIN s \ {Handle(a)}), Success({}))
         ELSE Outcome(s, Failure(ContainerNotFoundError(Handle(a))))
    [] Method(a) = "Containers" ->
         Reads(s, {Entry("handle", h) : h \in {k \in DOMAIN s : HasProperties(s[k], Args(a))}})
    [] Method(a) = "BulkInfo" -> Reads(s, BulkEntries(s, Args(a), "info"))
    [] Method(a) = "BulkMetrics" -> Reads(s, BulkEntries(s, Args(a), "metrics"))
    [] Method(a) = "Lookup" ->
         IF Handle(a) \in DOMAIN s THEN Reads(s, {Entry("handle", Handle(a))})
         ELSE Outcome(s, Failure(ContainerNotFoundError(Handle(a))))

\* The host port comes from the pool when it is not given, and the container port is
\* then the host port.
Ports(a) ==
  LET host == IF Args(a).host_port = "0" THEN FreePort ELSE Args(a).host_port
  IN  {Entry("host_port", host),
       Entry("container_port",
             IF Args(a).container_port = "0" THEN host ELSE Args(a).container_port)}

\* Some limits are set and others are not; they tell the container and its limits apart.
CurrentLimits(h) ==
  [CurrentBandwidthLimits |-> [BandwidthLimits EXCEPT !.rate = h],
   CurrentCPULimits |-> [CPULimits EXCEPT !.weight = h],
   CurrentDiskLimits |-> [DiskLimits EXCEPT !.byte_hard = h],
   CurrentMemoryLimits |-> [MemoryLimits EXCEPT !.limit_in_bytes = h]]

OfContainer(s, a) ==
  LET h == Handle(a)
  IN  CASE Method(a) \in {"Stop", "StreamIn", "NetOut", "BulkNetOut"} -> Acts(s, a, {})
        [] Method(a) = "Run" -> Acts(s, a, {Entry("process", Args(a).id)})
        [] Method(a) = "NetIn" -> Acts(s, a, Ports(a))
        [] Method(a) = "Attach" ->
             IF Args(a).pid \in Processes THEN Reads(s, {Entry("process", Args(a).pid)})
             ELSE Outcome(s, Failure(ProcessNotFoundError(Args(a).pid)))
        [] Method(a) = "StreamOut" -> Reads(s, {Entry(Args(a).user, Args(a).path)})
        [] Method(a) = "SetGraceTime" -> Outcome([s EXCEPT ![h].grace = Args(a)], Success({}))
        [] Method(a) = "Properties" -> Reads(s, Entries(s[h].properties))
        [] Method(a) = "Property" ->
             IF Args(a).name \in DOMAIN s[h].properties
             THEN Reads(s, {Entry("value", s[h].properties[Args(a).name])})
             ELSE Outcome(s, Failure(Plain("no such property")))
        [] Method(a) = "SetProperty" ->
             Outcome([s EXCEPT ![h].properties = Put(@, Args(a).name, Args(a).value)],
                     Success({}))
        [] Method(a) = "RemoveProperty" ->
             Outcome([s EXCEPT ![h].properties = Restrict(@, DOMAIN @ \ {Args(a).name})],
                     Success({}))
        [] Method(a) \in DOMAIN CurrentLimits(h) -> Reads(s, Entries(CurrentLimits(h)[Method(a)]))
        [] OTHER -> Reads(s, {Entry(Method(a), h)})

\* Info and the metrics show which container and which of them it was.
Call(s, a) ==
  IF Method(a) \in OfClient THEN OfBackend(s, a)
  ELSE IF Handle(a) \in DOMAIN s THEN OfContainer(s, a)
  ELSE Outcome(s, Failure(ContainerNotFoundError(Handle(a))))
=============================================================================
