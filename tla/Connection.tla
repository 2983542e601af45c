----------------------------- MODULE Connection -----------------------------
(***************************************************************************)
(* The client: the methods of client/connection/connection.go, each by the *)
(* request that it sends, the proxies of client/client.go and              *)
(* client/container.go that call them, and what is made of the response.   *)
(* The process streams of Run and Attach are in ProcessSession.            *)
(*                                                                         *)
(* A call of the API is a tuple <<method, handle, arguments>>.  A result   *)
(* has a set of entries and an error; an entry is a key, a value and, in   *)
(* the bulk calls, an error of its own.                                    *)
(***************************************************************************)
EXTENDS GardenErrors, Payloads, Router

Method(a) == a[1]
Handle(a) == a[2]
Args(a) == a[3]

NoError == GoError("nil", "")
Entry(key, value) == [key |-> key, value |-> value, err |-> NoError]
ErrorEntry(key, err) == [key |-> key, value |-> "", err |-> err]
Result(entries, err) == [entries |-> entries, err |-> err]
Success(entries) == Result(entries, NoError)
Failure(err) == Result({}, err)

Nothing == <<>>
InPath(handle) == [handle |-> handle]

\* url.Values and strings.Join(handles, ",")
Join(handles) ==
  [i \in 1 .. (IF handles = <<>> THEN 0 ELSE 2 * Len(handles) - 1) |->
     IF i % 2 = 1 THEN handles[(i + 1) \div 2] ELSE ","]

\* What do, Stream and Hijack are called with.
do(name, params, query, body) ==
  [name |-> name, params |-> params, query |-> query, body |-> body]

Ping == do("Ping", Nothing, Nothing, Nothing)
Capacity == do("Capacity", Nothing, Nothing, Nothing)
Create(spec) == do("Create", Nothing, Nothing, MarshalContainer(spec))
Stop(h, kill) == do("Stop", InPath(h), Nothing, [kill |-> kill])
Destroy(h) == do("Destroy", InPath(h), Nothing, Nothing)
Run(h, spec) == do("Run", InPath(h), Nothing, MarshalProcess(spec))
Attach(h, pid) == do("Attach", [handle |-> h, pid |-> pid], Nothing, Nothing)
NetIn(h, hostPort, containerPort) ==
  do("NetIn", InPath(h), Nothing,
     Marshal(NetInRequest, [handle |-> h, host_port |-> hostPort,
                            container_port |-> containerPort]))
BulkNetOut(h, rules) ==
  do("BulkNetOut", InPath(h), Nothing,
     [i \in DOMAIN rules |-> MarshalRule(rules[i])])
NetOut(h, rule) == do("NetOut", InPath(h), Nothing, MarshalRule(rule))
Property(h, name) == do("Property", [handle |-> h, key |-> name], Nothing, Nothing)
SetProperty(h, name, value) ==
  do("SetProperty", [handle |-> h, key |-> name], Nothing, [value |-> value])
RemoveProperty(h, name) ==
  do("RemoveProperty", [handle |-> h, key |-> name], Nothing, Nothing)
CurrentBandwidthLimits(h) == do("CurrentBandwidthLimits", InPath(h), Nothing, Nothing)
CurrentCPULimits(h) == do("CurrentCPULimits", InPath(h), Nothing, Nothing)
CurrentDiskLimits(h) == do("CurrentDiskLimits", InPath(h), Nothing, Nothing)
CurrentMemoryLimits(h) == do("CurrentMemoryLimits", InPath(h), Nothing, Nothing)
StreamIn(h, spec) ==
  do("StreamIn", InPath(h), [user |-> spec.user, destination |-> spec.path],
     [tar |-> spec.tar])
StreamOut(h, spec) ==
  do("StreamOut", InPath(h), [user |-> spec.user, source |-> spec.path], Nothing)
List(filterProperties) == do("List", Nothing, filterProperties, Nothing)
SetGraceTime(h, graceTime) == do("SetGraceTime", InPath(h), Nothing, graceTime)
Properties(h) == do("Properties", InPath(h), Nothing, Nothing)
Metrics(h) == do("Metrics", InPath(h), Nothing, Nothing)
Info(h) == do("Info", InPath(h), Nothing, Nothing)
BulkInfo(handles) == do("BulkInfo", Nothing, [handles |-> Join(handles)], Nothing)
BulkMetrics(handles) ==
  do("BulkMetrics", Nothing, [handles |-> Join(handles)], Nothing)

\* The methods of garden.Client, in client/client.go.
ClientRequest(a) ==
  CASE Method(a) = "Ping" -> Ping
    [] Method(a) = "Capacity" -> Capacity
    [] Method(a) = "Create" -> Create(Args(a))
    [] Method(a) = "Containers" -> List(Args(a))
    [] Method(a) = "Destroy" -> Destroy(Handle(a))
    [] Method(a) = "BulkInfo" -> BulkInfo(Args(a))
    [] Method(a) = "BulkMetrics" -> BulkMetrics(Args(a))
    [] Method(a) = "Lookup" -> List(Nothing)

\* The methods of garden.Container, in client/container.go.
ContainerRequest(a) ==
  LET h == Handle(a)
  IN  CASE Method(a) = "Stop" -> Stop(h, Args(a).kill)
        [] Method(a) = "Info" -> Info(h)
        [] Method(a) = "StreamIn" -> StreamIn(h, Args(a))
        [] Method(a) = "StreamOut" -> StreamOut(h, Args(a))
        [] Method(a) = "CurrentBandwidthLimits" -> CurrentBandwidthLimits(h)
        [] Method(a) = "CurrentCPULimits" -> CurrentCPULimits(h)
        [] Method(a) = "CurrentDiskLimits" -> CurrentDiskLimits(h)
        [] Method(a) = "CurrentMemoryLimits" -> CurrentMemoryLimits(h)
        [] Method(a) = "Run" -> Run(h, Args(a))
        [] Method(a) = "Attach" -> Attach(h, Args(a).pid)
        [] Method(a) = "NetIn" -> NetIn(h, Args(a).host_port, Args(a).container_port)
        [] Method(a) = "NetOut" -> NetOut(h, Args(a))
        [] Method(a) = "BulkNetOut" -> BulkNetOut(h, Args(a))
        [] Method(a) = "Metrics" -> Metrics(h)
        [] Method(a) = "SetGraceTime" -> SetGraceTime(h, Args(a))
        [] Method(a) = "Properties" -> Properties(h)
        [] Method(a) = "Property" -> Property(h, Args(a).name)
        [] Method(a) = "SetProperty" -> SetProperty(h, Args(a).name, Args(a).value)
        [] Method(a) = "RemoveProperty" -> RemoveProperty(h, Args(a).name)

\* The calls that the interfaces garden.Client and garden.Container allow.
WithHandleOnly ==
  {"Destroy", "Lookup", "Info", "Metrics", "Properties", "CurrentBandwidthLimits",
   "CurrentCPULimits", "CurrentDiskLimits", "CurrentMemoryLimits"}

\* Handles that can be told apart in a list: not empty, and without a comma.
AreHandles(args) == args \in Seq(STRING) /\ \A i \in DOMAIN args : args[i] \notin {"", ","}

TakesArgs(method, args) ==
  \/ method \in WithHandleOnly \cup {"Ping", "Capacity"} /\ args = Nothing
  \/ method \in {"Containers", "SetGraceTime"}
  \/ method \in {"BulkInfo", "BulkMetrics"} /\ AreHandles(args)
  \/ method = "Create" /\ IsContainer(args)
  \/ method = "Run" /\ IsProcess(args)
  \/ method = "NetOut" /\ IsRule(args)
  \/ method = "BulkNetOut" /\ AreRules(args)
  \/ method = "NetIn" /\ HasFields({"host_port", "container_port"}, args)
  \/ method = "Stop" /\ HasFields({"kill"}, args)
  \/ method = "StreamIn" /\ HasFields({"user", "path", "tar"}, args)
  \/ method = "StreamOut" /\ HasFields({"user", "path"}, args)
  \/ method = "Attach" /\ HasFields({"pid"}, args)
  \/ method \in {"Property", "RemoveProperty"} /\ HasFields({"name"}, args)
  \/ method = "SetProperty" /\ HasFields({"name", "value"}, args)

OfClient ==
  {"Ping", "Capacity", "Create", "Containers", "Destroy", "BulkInfo", "BulkMetrics", "Lookup"}

Asked(a) == IF Method(a) \in OfClient THEN ClientRequest(a) ELSE ContainerRequest(a)

\* Handles, process ids and property names come back out of the paths they are put in.
IsCall(a) ==
  /\ a = <<Method(a), Handle(a), Args(a)>>
  /\ TakesArgs(Method(a), Args(a))
  /\ Method(a) \in OfClient \ {"Destroy", "Lookup"} => Handle(a) = ""
  /\ Sendable(Asked(a))

Request(a) == CreateRequest(Asked(a))

\* Stream: an answer outside 2xx is an error, and the body of any other is the result.
Receive(response) ==
  IF response.status \in 200 .. 299
  THEN Success({[e EXCEPT !.err = IF @ = NoError THEN @ ELSE UnmarshalJSON(@)]
                  : e \in response.entries})
  ELSE Failure(UnmarshalJSON(response.error))

\* do decodes the body into the zero value of the answer: what is missing stays zero.
Decode(zero, received) ==
  IF received.err # NoError THEN received
  ELSE Success(received.entries \cup
               {Entry(k, zero[k]) : k \in DOMAIN zero \ {e.key : e \in received.entries}})

\* The client looks a handle up in the list of all of them.
Lookup(handle, listed) ==
  IF listed.err # NoError THEN Failure(listed.err)
  ELSE IF \E e \in listed.entries : e.value = handle THEN Success({Entry("handle", handle)})
  ELSE Failure(ContainerNotFoundError(handle))

Returned(a, response) ==
  IF Method(a) = "Lookup" THEN Lookup(Handle(a), Receive(response))
  ELSE Decode(AnswerOf(Method(a)), Receive(response))
=============================================================================
