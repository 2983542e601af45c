------------------------------ MODULE Dispatch ------------------------------
(***************************************************************************)
(* What the handlers of server/request_handling.go ask of the backend: the *)
(* method, the handle and the arguments that they take out of the request, *)
(* and how they write the answer.  The order of a handler's steps around   *)
(* that call (claims, pauses and resets) is in Handlers and GardenServer.  *)
(***************************************************************************)
EXTENDS GardenErrors, Payloads, Router, FiniteSets

CONSTANT containerGraceTime   \* the server's default

Of(req) == FormValue(req, "handle")

handlePing(req) == <<"Ping", "", <<>>>>
handleCapacity(req) == <<"Capacity", "", <<>>>>

handleCreate(req) ==
  <<"Create", "",
    [UnmarshalContainer(req.body) EXCEPT
       !.grace_time = IF @ = "0" THEN containerGraceTime ELSE @]>>

handleList(req) == <<"Containers", "", req.query>>
handleDestroy(req) == <<"Destroy", Of(req), <<>>>>
handleStop(req) == <<"Stop", Of(req), [kill |-> req.body.kill]>>
handleStreamIn(req) ==
  <<"StreamIn", Of(req),
    [user |-> req.query.user, path |-> req.query.destination, tar |-> req.body.tar]>>
handleStreamOut(req) ==
  <<"StreamOut", Of(req), [user |-> req.query.user, path |-> req.query.source]>>
handleCurrentBandwidthLimits(req) == <<"CurrentBandwidthLimits", Of(req), <<>>>>
handleCurrentMemoryLimits(req) == <<"CurrentMemoryLimits", Of(req), <<>>>>
handleCurrentDiskLimits(req) == <<"CurrentDiskLimits", Of(req), <<>>>>
handleCurrentCPULimits(req) == <<"CurrentCPULimits", Of(req), <<>>>>
handleNetIn(req) ==
  LET request == Unmarshal(NetInRequest, req.body)
  IN  <<"NetIn", Of(req),
        [host_port |-> request.host_port, container_port |-> request.container_port]>>
handleNetOut(req) == <<"NetOut", Of(req), UnmarshalRule(req.body)>>
handleBulkNetOut(req) ==
  <<"BulkNetOut", Of(req), [i \in DOMAIN req.body |-> UnmarshalRule(req.body[i])]>>
handleMetrics(req) == <<"Metrics", Of(req), <<>>>>
handleProperties(req) == <<"Properties", Of(req), <<>>>>
handleProperty(req) == <<"Property", Of(req), [name |-> FormValue(req, "key")]>>
handleSetProperty(req) ==
  <<"SetProperty", Of(req), [name |-> FormValue(req, "key"), value |-> req.body.value]>>
handleRemoveProperty(req) == <<"RemoveProperty", Of(req), [name |-> FormValue(req, "key")]>>
handleSetGraceTime(req) == <<"SetGraceTime", Of(req), req.body>>
handleRun(req) == <<"Run", Of(req), UnmarshalProcess(req.body)>>
handleAttach(req) == <<"Attach", Of(req), [pid |-> FormValue(req, "pid")]>>
handleInfo(req) == <<"Info", Of(req), <<>>>>

\* strings.Split(queryHandles, ","): one piece more than there are commas, the k-th of them
\* what follows k - 1 commas; and no handles at all for the empty string.
splitHandles(queryHandles) ==
  LET commas == {i \in DOMAIN queryHandles : queryHandles[i] = ","}
      Piece(k) == {i \in DOMAIN queryHandles \ commas :
                     Cardinality({j \in commas : j < i}) = k - 1}
  IN  IF queryHandles \in {<<>>, <<"">>} THEN <<>>
      ELSE [k \in 1 .. Cardinality(commas) + 1 |->
              IF Piece(k) = {} THEN "" ELSE queryHandles[CHOOSE i \in Piece(k) : TRUE]]

handleBulkInfo(req) == <<"BulkInfo", "", splitHandles(req.query.handles)>>
handleBulkMetrics(req) == <<"BulkMetrics", "", splitHandles(req.query.handles)>>

\* The handlers that New gives to the router, by the names of their routes.
Handler(req) ==
  CASE req.name = "Ping" -> handlePing(req)
    [] req.name = "Capacity" -> handleCapacity(req)
    [] req.name = "Create" -> handleCreate(req)
    [] req.name = "Destroy" -> handleDestroy(req)
    [] req.name = "List" -> handleList(req)
    [] req.name = "Stop" -> handleStop(req)
    [] req.name = "StreamIn" -> handleStreamIn(req)
    [] req.name = "StreamOut" -> handleStreamOut(req)
    [] req.name = "CurrentBandwidthLimits" -> handleCurrentBandwidthLimits(req)
    [] req.name = "CurrentCPULimits" -> handleCurrentCPULimits(req)
    [] req.name = "CurrentDiskLimits" -> handleCurrentDiskLimits(req)
    [] req.name = "CurrentMemoryLimits" -> handleCurrentMemoryLimits(req)
    [] req.name = "NetIn" -> handleNetIn(req)
    [] req.name = "NetOut" -> handleNetOut(req)
    [] req.name = "BulkNetOut" -> handleBulkNetOut(req)
    [] req.name = "Info" -> handleInfo(req)
    [] req.name = "BulkInfo" -> handleBulkInfo(req)
    [] req.name = "BulkMetrics" -> handleBulkMetrics(req)
    [] req.name = "Run" -> handleRun(req)
    [] req.name = "Attach" -> handleAttach(req)
    [] req.name = "Metrics" -> handleMetrics(req)
    [] req.name = "Properties" -> handleProperties(req)
    [] req.name = "Property" -> handleProperty(req)
    [] req.name = "SetProperty" -> handleSetProperty(req)
    [] req.name = "RemoveProperty" -> handleRemoveProperty(req)
    [] req.name = "SetGraceTime" -> handleSetGraceTime(req)

Handled(req) == Handler(ServeHTTP(req))

\* handleRun writes its own status before it hands over the connection.
StatusOf(method) == IF method = "Run" THEN 201 ELSE 200

NoResponse == [status |-> 0, entries |-> {}, error |-> <<>>]

\* The fields that are zero are left out.  The entries of a bulk answer carry their own
\* errors, marshalled like any other.
writeResponse(method, entries) ==
  LET zero == AnswerOf(method)
      written == {e \in entries : e.key \in DOMAIN zero => e.value # zero[e.key]}
  IN  [status  |-> StatusOf(method),
       entries |-> {[e EXCEPT !.err = IF @.type = "nil" THEN @ ELSE MarshalJSON(@)] : e \in written},
       error   |-> <<>>]

writeError(err) == [status |-> StatusCode(err), entries |-> {}, error |-> MarshalJSON(err)]
=============================================================================
