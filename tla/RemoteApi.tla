----------------------------- MODULE RemoteApi ------------------------------
(***************************************************************************)
(* The API over the network: the client turns each call into a request     *)
(* (Connection), the server's router and handlers turn that into a call of *)
(* the backend (Dispatch), and the answer, or the error, travels back.     *)
(* Every call has a connection of its own, as keep-alives are off, and the *)
(* client never repeats a request.  The connection may break at any time.  *)
(* A handler takes effect at its call of the backend; what happens when    *)
(* the steps of several handlers on one container interleave is the        *)
(* subject of GardenServer, and the streams that follow Run and Attach     *)
(* that of ProcessSession.                                                 *)
(***************************************************************************)
EXTENDS Backend, Dispatch

CONSTANTS Slots, Calls, Failures, Present

ASSUME CallsAssumption == \A i \in DOMAIN Calls : IsCall(Calls[i])
ASSUME FailuresAssumption == \A e \in Failures : e = GoError(e.type, e.text)

VARIABLES store,      \* the backend's containers, by handle
          call,       \* the call of each slot, as the caller made it
          request,    \* what the client sent
          response,   \* what the server answered
          lost,       \* the request never reached the server
          returned    \* what the caller got

remoteVars == <<store, call, request, response, lost, returned>>

NotMade == <<"none", "", <<>>>>
NotYet == Failure(GoError("not yet", ""))
NoRequest == [method |-> "none", path |-> <<>>, query |-> <<>>, body |-> <<>>]
\* The error of the http.Client.
BrokenConnection == Failure(GoError("net.OpError", "connection"))

RemoteInit ==
  /\ store = Present
  /\ call = [c \in Slots |-> NotMade]
  /\ request = [c \in Slots |-> NoRequest]
  /\ response = [c \in Slots |-> NoResponse]
  /\ lost = [c \in Slots |-> FALSE]
  /\ returned = [c \in Slots |-> NotYet]

\* Stream (and Hijack): the request is built and sent.
Send(c) ==
  /\ request[c] = NoRequest
  /\ \E i \in DOMAIN Calls :
       /\ call' = [call EXCEPT ![c] = Calls[i]]
       /\ request' = [request EXCEPT ![c] = Request(Calls[i])]
  /\ UNCHANGED <<store, response, lost, returned>>

Arrived(c) == request[c] # NoRequest /\ ~lost[c] /\ response[c] = NoResponse

Respond(c, r) == response' = [response EXCEPT ![c] = r]

Finish(c, method, outcome) ==
  /\ store' = outcome.store
  /\ Respond(c, IF outcome.result.err = NoError
                THEN writeResponse(method, outcome.result.entries)
                ELSE writeError(outcome.result.err))

CallBackend(c, asked) == Finish(c, Method(asked), Call(store, asked))

\* The handler calls the backend and writes what it returns.  It does so even when
\* the client has gone.
Serve(c) ==
  /\ Arrived(c)
  /\ CallBackend(c, Handled(request[c]))
  /\ UNCHANGED <<call, request, lost, returned>>

\* The backend fails, or the handler does before it calls it; for SetGraceTime only the
\* latter, and Lookup, are answered like this.
ServeError(c) ==
  /\ Arrived(c)
  /\ \E e \in Failures : Respond(c, writeError(e))
  /\ UNCHANGED <<store, call, request, lost, returned>>

\* Whether the handler finds the container.
Finds(asked) == Handle(asked) \in DOMAIN store

\* The container refuses the grace time: the handler only logs that, and answers as if it
\* had been set.  (The time bomb that it resets is in GardenServer.)
GraceTimeFails(c) ==
  /\ Arrived(c)
  /\ Method(Handled(request[c])) = "SetGraceTime"
  /\ Finds(Handled(request[c]))
  /\ Respond(c, writeResponse("SetGraceTime", {}))
  /\ UNCHANGED <<store, call, request, lost, returned>>

\* io.Copy fails after the status and the first bytes were sent: the handler returns,
\* and the answer ends like a complete one.
StreamBreaks(c) ==
  /\ Arrived(c)
  /\ Method(Handled(request[c])) = "StreamOut"
  /\ Finds(Handled(request[c]))
  /\ Respond(c, writeResponse("StreamOut", {Entry("partial", "stream")}))
  /\ UNCHANGED <<store, call, request, lost, returned>>

ReturnResult(c) ==
  /\ response[c] # NoResponse
  /\ returned[c] = NotYet
  /\ returned' = [returned EXCEPT ![c] = Returned(call[c], response[c])]
  /\ UNCHANGED <<store, call, request, response, lost>>

\* The connection cannot be made, or breaks before the request is through.
LoseRequest(c) ==
  /\ Arrived(c)
  /\ returned[c] = NotYet
  /\ lost' = [lost EXCEPT ![c] = TRUE]
  /\ returned' = [returned EXCEPT ![c] = BrokenConnection]
  /\ UNCHANGED <<store, call, request, response>>

\* It breaks later: the server has the request, and the answer is lost.
LoseAnswer(c) ==
  /\ request[c] # NoRequest
  /\ returned[c] = NotYet
  /\ returned' = [returned EXCEPT ![c] = BrokenConnection]
  /\ UNCHANGED <<store, call, request, response, lost>>

\* A container's grace time runs out (GardenServer).
Reap(h) ==
  /\ h \in DOMAIN store
  /\ store' = Restrict(store, DOMAIN store \ {h})
  /\ UNCHANGED <<call, request, response, lost, returned>>

RemoteNext ==
  \/ \E c \in Slots : Send(c)
  \/ \E c \in Slots : Serve(c)
  \/ \E c \in Slots : ServeError(c)
  \/ \E c \in Slots : GraceTimeFails(c)
  \/ \E c \in Slots : StreamBreaks(c)
  \/ \E c \in Slots : ReturnResult(c)
  \/ \E c \in Slots : LoseRequest(c)
  \/ \E c \in Slots : LoseAnswer(c)
  \/ \E h \in DOMAIN store : Reap(h)

RemoteSpec == RemoteInit /\ [][RemoteNext]_remoteVars
-----------------------------------------------------------------------------
\* Each call has at most one request and one answer, of the shapes that the two sides
\* write: no answer precedes its request, none comes to a request that was lost, a
\* successful one has the status of the call's own method, and only that has entries.
RemoteTypeOK ==
  \A c \in Slots :
    /\ request[c] = NoRequest <=> call[c] = NotMade
    /\ response[c] # NoResponse => request[c] # NoRequest /\ ~lost[c]
    /\ response[c].status \in {0, StatusOf(Method(call[c])), 404, 500}
    /\ response[c].status \in {0, 404, 500} => response[c].entries = {}
    /\ returned[c].err # NoError => returned[c].entries = {}

\* What the caller of a call that was answered gets, whether or not it still listens.
Answer(c) == IF response[c] = NoResponse THEN NotYet ELSE Returned(call[c], response[c])

Local == INSTANCE LocalApi WITH answer <- [c \in Slots |-> Answer(c)]

\* The network cannot be seen through the API: routes, parameters, queries, bodies,
\* status codes and marshalled errors bring every call of the client (client.go,
\* container.go, connection.go) to the backend as it was meant, once, and its result or
\* error back to the caller of that call, with two exceptions: a stream that breaks half
\* way looks complete, and a grace time that the container refuses looks set.  A call that
\* returns the error of a broken connection may have taken effect or not.
IsLocal == Local!LocalSpec
=============================================================================
