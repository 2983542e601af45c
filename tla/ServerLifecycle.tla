-------------------------- MODULE ServerLifecycle --------------------------
(***************************************************************************)
(* Serve, Stop and the ConnState callback of server/server.go, and the     *)
(* loop of net/http that calls them (external): one goroutine accepts, one *)
(* goroutine per connection reads requests and runs their handlers.        *)
(*                                                                         *)
(* A connection is                                                         *)
(*   "none"     not yet dialled                                            *)
(*   "queued"   in the listener's backlog                                  *)
(*   "accepted" returned by Accept; the callback for StateNew is to come   *)
(*   "new"      waiting for its first request                              *)
(*   "busy"     in the handler of a request                                *)
(*   "answered" out of it; the callback for StateIdle is to come           *)
(*   "adding"   in that callback, past its look at s.stopping              *)
(*   "idle"     waiting for its next request                               *)
(*   "closing"  given up; the callback for StateClosed is to come          *)
(*   "detached" hijacked by its handler                                    *)
(*   "gone"                                                                *)
(* Sections under s.mu and under startMutex are single steps, except that  *)
(* Stop holds startMutex to its end.                                       *)
(***************************************************************************)
EXTENDS Integers, FiniteSets

CONSTANTS Conns,      \* connections
          Stoppers    \* goroutines that call Stop

ASSUME LifecycleAssumption == IsFiniteSet(Conns)

VARIABLES started,
          stopping,   \* s.stopping is closed
          listener,
          serving,    \* where Serve is
          conn,       \* where every connection is
          open,       \* the connections the server has not closed
          conns,      \* s.conns
          handling,   \* the counter of the wait group s.handling
          stop,       \* where every call of Stop is
          toClose,    \* the connections Stop has taken from s.conns
          stopped,    \* backend.Stop has been called
          early       \* requests in a handler since before Stop began

serverVars == <<started, stopping, listener, serving>>
connVars == <<conn, open, conns, handling, early>>
stopVars == <<stop, toClose, stopped>>
vars == <<serverVars, connVars, stopVars>>

TypeOK ==
  /\ started \in BOOLEAN /\ stopping \in BOOLEAN /\ stopped \in BOOLEAN
  /\ listener \in {"none", "open", "closed"}
  /\ serving \in {"no", "accepting", "accepted", "returned"}
  /\ conn \in [Conns -> {"none", "queued", "accepted", "new", "busy", "answered", "adding",
                         "idle", "closing", "detached", "gone"}]
  /\ open \subseteq Conns /\ conns \subseteq Conns
  /\ toClose \subseteq Conns /\ early \subseteq Conns
  /\ handling \in Nat
  /\ stop \in [Stoppers -> {"no", "listener", "swap", "closing", "backend", "done", "refused"}]

Init ==
  /\ started = FALSE /\ stopping = FALSE /\ stopped = FALSE
  /\ listener = "none"
  /\ serving = "no"
  /\ conn = [c \in Conns |-> "none"]
  /\ open = {} /\ conns = {} /\ toClose = {} /\ early = {}
  /\ handling = 0
  /\ stop = [s \in Stoppers |-> "no"]

\* startMutex is free.
Unlocked == \A s \in Stoppers : stop[s] \in {"no", "done", "refused"}

Busy == {c \in Conns : conn[c] = "busy"}

To(c, state) == conn' = [conn EXCEPT ![c] = state]
-----------------------------------------------------------------------------
Listen ==
  /\ listener = "none"
  /\ listener' = "open"
  /\ UNCHANGED <<started, stopping, serving, connVars, stopVars>>

\* Serve up to the call of http.Server.Serve.
Serve ==
  /\ serving = "no" /\ listener = "open" /\ Unlocked
  /\ started' = TRUE
  /\ serving' = "accepting"
  /\ UNCHANGED <<stopping, listener, connVars, stopVars>>

\* Accept fails once the listener is closed; Serve takes startMutex to see that it
\* was stopped.
ServeReturns ==
  /\ serving = "accepting" /\ listener = "closed" /\ Unlocked
  /\ serving' = "returned"
  /\ UNCHANGED <<started, stopping, listener, connVars, stopVars>>

Dial(c) ==
  /\ conn[c] = "none" /\ listener = "open"
  /\ To(c, "queued")
  /\ open' = open \cup {c}
  /\ UNCHANGED <<conns, handling, early, serverVars, stopVars>>

Accept(c) ==
  /\ serving = "accepting" /\ listener = "open" /\ conn[c] = "queued"
  /\ serving' = "accepted"
  /\ To(c, "accepted")
  /\ UNCHANGED <<started, stopping, listener, open, conns, handling, early, stopVars>>

\* The backlog is lost with the listener.
Refuse(c) ==
  /\ conn[c] = "queued" /\ listener = "closed"
  /\ To(c, "gone")
  /\ open' = open \ {c}
  /\ UNCHANGED <<conns, handling, early, serverVars, stopVars>>
-----------------------------------------------------------------------------
StateNew(c) ==
  /\ conn[c] = "accepted"
  /\ serving' = "accepting"
  /\ To(c, "new")
  /\ handling' = handling + 1
  /\ UNCHANGED <<started, stopping, listener, open, conns, early, stopVars>>

\* Forgets to take the connection from the idle ones.
StateActive_Kept(c) ==
  /\ conn[c] \in {"new", "idle"} /\ c \in open
  /\ To(c, "busy")
  /\ UNCHANGED <<open, conns, handling, early, serverVars, stopVars>>

\* A request has been read; its handler starts.
StateActive(c) ==
  /\ conn[c] \in {"new", "idle"} /\ c \in open
  /\ To(c, "busy")
  /\ conns' = conns \ {c}
  /\ UNCHANGED <<open, handling, early, serverVars, stopVars>>

\* Goes on counting the connection.
StateHijacked_Counted(c) ==
  /\ conn[c] = "busy" /\ c \in open
  /\ To(c, "detached")
  /\ conns' = conns \ {c}
  /\ early' = early \ {c}
  /\ UNCHANGED <<open, handling, serverVars, stopVars>>

\* The handler hijacks the connection (Run, Attach, Stdout, Stderr).
StateHijacked(c) ==
  /\ conn[c] = "busy" /\ c \in open
  /\ To(c, "detached")
  /\ conns' = conns \ {c}
  /\ handling' = handling - 1
  /\ early' = early \ {c}
  /\ UNCHANGED <<open, serverVars, stopVars>>

\* The handler returns and its answer is written; a connection that is closed or
\* that the client does not want to reuse, as the repository's never does, ends here.
HandlerReturns(c) ==
  /\ conn[c] = "busy"
  /\ \/ c \in open /\ To(c, "answered")
     \/ To(c, "closing")
  /\ early' = early \ {c}
  /\ UNCHANGED <<open, conns, handling, serverVars, stopVars>>

\* Takes the end of a hijacked connection for a second StateClosed.
DetachedReturns_Done(c) ==
  /\ conn[c] = "detached"
  /\ To(c, "gone")
  /\ open' = open \ {c}
  /\ handling' = handling - 1
  /\ UNCHANGED <<conns, early, serverVars, stopVars>>

\* The handler of a hijacked connection closes it when it ends.
DetachedReturns(c) ==
  /\ conn[c] = "detached"
  /\ To(c, "gone")
  /\ open' = open \ {c}
  /\ UNCHANGED <<conns, handling, early, serverVars, stopVars>>

StateIdleStopping(c) ==
  /\ conn[c] = "answered" /\ stopping
  /\ To(c, "idle")
  /\ open' = open \ {c}
  /\ UNCHANGED <<conns, handling, early, serverVars, stopVars>>

StateIdleDefault(c) ==
  /\ conn[c] = "answered" /\ ~stopping
  /\ To(c, "adding")
  /\ UNCHANGED <<open, conns, handling, early, serverVars, stopVars>>

StateIdleAdd(c) ==
  /\ conn[c] = "adding"
  /\ To(c, "idle")
  /\ conns' = conns \cup {c}
  /\ UNCHANGED <<open, handling, early, serverVars, stopVars>>

\* readHeaderTimeout ends a connection whose first request does not come.
HeaderTimeout(c) ==
  /\ conn[c] = "new"
  /\ To(c, "closing")
  /\ UNCHANGED <<open, conns, handling, early, serverVars, stopVars>>

\* A read on a connection that the server or the client has closed fails.
ReadFails(c) ==
  /\ conn[c] = "idle"
  /\ To(c, "closing")
  /\ UNCHANGED <<open, conns, handling, early, serverVars, stopVars>>

StateClosed(c) ==
  /\ conn[c] = "closing"
  /\ To(c, "gone")
  /\ open' = open \ {c}
  /\ conns' = conns \ {c}
  /\ handling' = handling - 1
  /\ UNCHANGED <<early, serverVars, stopVars>>
-----------------------------------------------------------------------------
StopAt(s, from, to) == stop[s] = from /\ stop' = [stop EXCEPT ![s] = to]

\* "server is not running"
StopRefused(s) ==
  /\ Unlocked /\ ~started
  /\ StopAt(s, "no", "refused")
  /\ UNCHANGED <<serverVars, connVars, toClose, stopped>>

StopBegins(s) ==
  /\ Unlocked /\ started
  /\ StopAt(s, "no", "listener")
  /\ started' = FALSE
  /\ stopping' = TRUE
  /\ early' = Busy
  /\ UNCHANGED <<listener, serving, conn, open, conns, handling, toClose, stopped>>

\* Leaves the listener open.
CloseListener_Forgotten(s) ==
  /\ StopAt(s, "listener", "swap")
  /\ UNCHANGED <<serverVars, connVars, toClose, stopped>>

CloseListener(s) ==
  /\ StopAt(s, "listener", "swap")
  /\ listener' = "closed"
  /\ UNCHANGED <<started, stopping, serving, connVars, toClose, stopped>>

TakeIdle(s) ==
  /\ StopAt(s, "swap", "closing")
  /\ toClose' = conns
  /\ conns' = {}
  /\ UNCHANGED <<serverVars, conn, open, handling, early, stopped>>

CloseIdle(s, c) ==
  /\ stop[s] = "closing" /\ c \in toClose
  /\ toClose' = toClose \ {c}
  /\ open' = open \ {c}
  /\ UNCHANGED <<serverVars, conn, conns, handling, early, stop, stopped>>

\* Does not wait for the connections.
Wait_Skipped(s) ==
  /\ toClose = {}
  /\ StopAt(s, "closing", "backend")
  /\ UNCHANGED <<serverVars, connVars, toClose, stopped>>

\* s.handling.Wait()
Wait(s) ==
  /\ toClose = {} /\ handling = 0
  /\ StopAt(s, "closing", "backend")
  /\ UNCHANGED <<serverVars, connVars, toClose, stopped>>

StopBackend(s) ==
  /\ StopAt(s, "backend", "done")
  /\ stopped' = TRUE
  /\ UNCHANGED <<serverVars, connVars, toClose>>
-----------------------------------------------------------------------------
StopStep(s) ==
  \/ StopRefused(s)
  \/ StopBegins(s)
  \/ CloseListener(s)
  \/ TakeIdle(s)
  \/ \E c \in Conns : CloseIdle(s, c)
  \/ Wait(s)
  \/ StopBackend(s)

ConnStep(c) ==
  \/ Refuse(c)
  \/ StateNew(c)
  \/ StateHijacked(c)
  \/ HandlerReturns(c)
  \/ StateIdleStopping(c)
  \/ StateIdleDefault(c)
  \/ StateIdleAdd(c)
  \/ HeaderTimeout(c)
  \/ StateClosed(c)

Next ==
  \/ Listen
  \/ Serve
  \/ ServeReturns
  \/ \E s \in Stoppers : StopStep(s)
  \/ \E c \in Conns : \/ Dial(c)
                      \/ Accept(c)
                      \/ StateActive(c)
                      \/ DetachedReturns(c)
                      \/ ReadFails(c)
                      \/ ConnStep(c)

\* The goroutines of Stop and of the connections run; every handler that is not
\* hijacked returns; readHeaderTimeout is set; a read on a connection that the
\* server has closed fails.  Clients need not send, hang up or connect, and nobody
\* has to call Stop.
Spec ==
  /\ Init
  /\ [][Next]_vars
  /\ WF_vars(ServeReturns)
  /\ \A s \in Stoppers : WF_vars(stop[s] # "no" /\ StopStep(s))
  /\ \A c \in Conns : WF_vars(ConnStep(c)) /\ WF_vars(c \notin open /\ ReadFails(c))
-----------------------------------------------------------------------------
Counted == {"new", "busy", "answered", "adding", "idle", "closing"}

\* The wait group counts the connections between StateNew and StateHijacked or
\* StateClosed, each once: Done never outruns Add, which would panic, and Stop does
\* not wait for a connection that is gone (server.go:126, 152, 276).
HandlingCounts == handling = Cardinality({c \in Conns : conn[c] \in Counted})

\* s.conns holds connections at rest only, so that neither a finished connection
\* stays in it for ever nor Stop takes one that is in the middle of a request.
ConnsAtRest == \A c \in conns : conn[c] \in {"idle", "closing"}

\* "waits for it to complete": a request that is in its handler when Stop begins
\* keeps its connection until it is answered, and the backend is stopped only then,
\* whatever callbacks run between the steps of Stop.
InFlightWaitedFor == early \subseteq open /\ (stopped => early = {})

\* Stop comes to its end unless a client keeps for ever a connection that is idle
\* and that the server has not closed: neither a request, a hijacked connection nor
\* another call of Stop can hold it up (server.go:244-286).
OnlyIdleHoldsStop ==
  \A s \in Stoppers :
    (stop[s] = "listener")
      ~> (stop[s] = "done" \/ [](\E c \in open : conn[c] = "idle"))

\* Serve returns once Stop has.
ServeEnds == (\E s \in Stoppers : stop[s] = "done") ~> (serving = "returned")

\* "stops accepting requests": once Stop has stopped the backend, no request is in
\* a handler that would use it.
NoRequestAfterStop == stopped => Busy = {}
=============================================================================
