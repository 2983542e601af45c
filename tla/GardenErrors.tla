---------------------------- MODULE GardenErrors ----------------------------
(***************************************************************************)
(* The errors of errors.go and the form in which they cross the network.   *)
(* A Go error is its type and the one field that the type has; the types   *)
(* without a name in errors.go ("plain" for errors.New, "foreign" for any  *)
(* other) only have a message.                                             *)
(***************************************************************************)

GoError(type, text) == [type |-> type, text |-> text]

UnrecoverableError(symptom) == GoError("UnrecoverableError", symptom)
ContainerNotFoundError(handle) == GoError("ContainerNotFoundError", handle)
ServiceUnavailableError(cause) == GoError("ServiceUnavailableError", cause)
ProcessNotFoundError(pid) == GoError("ProcessNotFoundError", pid)
ExecutableNotFoundError(message) == GoError("ExecutableNotFoundError", message)
Plain(message) == GoError("plain", message)

NamedTypes ==
  {"UnrecoverableError", "ServiceUnavailableError", "ContainerNotFoundError",
   "ProcessNotFoundError", "ExecutableNotFoundError"}

\* What Error() prints: two of the types add a prefix.
Message(e) ==
  IF e.type = "ContainerNotFoundError" THEN <<"unknown handle: ", e.text>>
  ELSE IF e.type = "ProcessNotFoundError" THEN <<"unknown process: ", e.text>>
  ELSE <<"", e.text>>

\* Tells the client to come back later.
StatusCode_Unavailable(e) ==
  IF e.type \in {"ContainerNotFoundError", "ProcessNotFoundError"} THEN 404
  ELSE IF e.type = "ServiceUnavailableError" THEN 503 ELSE 500

StatusCode(e) ==
  IF e.type \in {"ContainerNotFoundError", "ProcessNotFoundError"} THEN 404 ELSE 500

\* Forgets which process it was.
MarshalJSON_NoProcess(e) ==
  [Type      |-> IF e.type \in NamedTypes THEN e.type ELSE "",
   Message   |-> Message(e),
   Handle    |-> IF e.type = "ContainerNotFoundError" THEN e.text ELSE "",
   ProcessID |-> ""]

MarshalJSON(e) ==
  [Type      |-> IF e.type \in NamedTypes THEN e.type ELSE "",
   Message   |-> Message(e),
   Handle    |-> IF e.type = "ContainerNotFoundError" THEN e.text ELSE "",
   ProcessID |-> IF e.type = "ProcessNotFoundError" THEN e.text ELSE ""]

\* The message of the types that have one is their field.
UnmarshalJSON(m) ==
  IF m.Type = "ContainerNotFoundError" THEN ContainerNotFoundError(m.Handle)
  ELSE IF m.Type = "ProcessNotFoundError" THEN ProcessNotFoundError(m.ProcessID)
  ELSE IF m.Type \in NamedTypes THEN GoError(m.Type, m.Message[2])
  ELSE Plain(m.Message[2])

\* What a caller on the other side can still know of an error: everything for the
\* types of errors.go, the message for any other.
Known(e) == IF e.type \in NamedTypes THEN e ELSE Plain(e.text)
=============================================================================
