------------------------------ MODULE Handlers ------------------------------
(***************************************************************************)
(* The request handlers of server/request_handling.go by the order of      *)
(* their steps.  A handler may first decode a body (and answer with an     *)
(* error when that fails); then it                                         *)
(*   "query"   asks the backend and answers,                               *)
(*   "create"  creates a container and straps a bomb to it,                *)
(*   "claim"   claims the handle, destroys the container and defuses it,   *)
(*   "lookup"  looks the container up and goes on with                     *)
(*     "pause"    Pause, a call on the container, the answer, and the      *)
(*                deferred Unpause, whatever the call returned,            *)
(*     "setgrace" SetGraceTime and Reset, without a Pause.                 *)
(* What the container call does to the container is the backend's affair.  *)
(***************************************************************************)

Handler(decodes, start, found) == [decodes |-> decodes, start |-> start, found |-> found]

Query == Handler(FALSE, "query", "done")

Bracketed(decodes) == Handler(decodes, "lookup", "pause")

handlePing == Query
handleCapacity == Query
handleList == Query
handleBulkInfo == Query
handleBulkMetrics == Query

handleCreate == Handler(TRUE, "create", "done")
handleDestroy == Handler(FALSE, "claim", "done")
handleSetGraceTime == Handler(TRUE, "lookup", "setgrace")

handleStop == Bracketed(TRUE)
handleStreamIn == Bracketed(FALSE)
handleStreamOut == Bracketed(FALSE)
handleCurrentBandwidthLimits == Bracketed(FALSE)
handleCurrentMemoryLimits == Bracketed(FALSE)
handleCurrentDiskLimits == Bracketed(FALSE)
handleCurrentCPULimits == Bracketed(FALSE)
handleNetIn == Bracketed(TRUE)
handleNetOut == Bracketed(TRUE)
handleBulkNetOut == Bracketed(TRUE)
handleMetrics == Bracketed(FALSE)
handleProperties == Bracketed(FALSE)
handleProperty == Bracketed(FALSE)
handleSetProperty == Bracketed(TRUE)
handleRemoveProperty == Bracketed(FALSE)
handleInfo == Bracketed(FALSE)
handleRun == Bracketed(TRUE)
handleAttach == Bracketed(FALSE)

\* The handlers that New registers with the router, by the names of the routes.
\* Stdout and Stderr are served by the streamer and touch no container.
Routes ==
  [Ping |-> handlePing, Capacity |-> handleCapacity, List |-> handleList,
   BulkInfo |-> handleBulkInfo, BulkMetrics |-> handleBulkMetrics,
   Create |-> handleCreate, Destroy |-> handleDestroy, SetGraceTime |-> handleSetGraceTime,
   Stop |-> handleStop, StreamIn |-> handleStreamIn, StreamOut |-> handleStreamOut,
   CurrentBandwidthLimits |-> handleCurrentBandwidthLimits,
   CurrentMemoryLimits |-> handleCurrentMemoryLimits,
   CurrentDiskLimits |-> handleCurrentDiskLimits,
   CurrentCPULimits |-> handleCurrentCPULimits,
   NetIn |-> handleNetIn, NetOut |-> handleNetOut, BulkNetOut |-> handleBulkNetOut,
   Metrics |-> handleMetrics, Properties |-> handleProperties, Property |-> handleProperty,
   SetProperty |-> handleSetProperty, RemoveProperty |-> handleRemoveProperty,
   Info |-> handleInfo, Run |-> handleRun, Attach |-> handleAttach]
=============================================================================
