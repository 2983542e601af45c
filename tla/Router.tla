------------------------------- MODULE Router -------------------------------
(***************************************************************************)
(* The routes of routes/routes.go, and how the vendored router builds a    *)
(* request from a route's name and finds the route of a request again.  A  *)
(* path is the sequence of its segments.                                   *)
(***************************************************************************)
EXTENDS Integers, Sequences

\* The strings that stand for themselves in a path.  CreatePath joins them and parses the
\* result, which splits at "/", cuts off what follows "?" or "#", decodes "%" and refuses
\* control characters; pat decodes "%" and "+" once more, and finds nothing in an empty
\* last segment.
CONSTANT Names

EmptyName == ""

ASSUME NamesAssumption == EmptyName \notin Names

\* A segment of a route's path is a word, or a parameter (":handle").
Word(s) == [param |-> FALSE, name |-> s]
Param(s) == [param |-> TRUE, name |-> s]

Route(name, method, path) == [Name |-> name, Method |-> method, Path |-> path]

Routes ==
  LET containers == Word("containers")
      handle == Param("handle")
  IN  <<Route("Ping", "GET", <<Word("ping")>>),
        Route("Capacity", "GET", <<Word("capacity")>>),
        Route("List", "GET", <<containers>>),
        Route("Create", "POST", <<containers>>),
        Route("Info", "GET", <<containers, handle, Word("info")>>),
        Route("BulkInfo", "GET", <<containers, Word("bulk_info")>>),
        Route("BulkMetrics", "GET", <<containers, Word("bulk_metrics")>>),
        Route("Destroy", "DELETE", <<containers, handle>>),
        Route("Stop", "PUT", <<containers, handle, Word("stop")>>),
        Route("StreamIn", "PUT", <<containers, handle, Word("files")>>),
        Route("StreamOut", "GET", <<containers, handle, Word("files")>>),
        Route("CurrentBandwidthLimits", "GET",
            <<containers, handle, Word("limits"), Word("bandwidth")>>),
        Route("CurrentCPULimits", "GET", <<containers, handle, Word("limits"), Word("cpu")>>),
        Route("CurrentDiskLimits", "GET", <<containers, handle, Word("limits"), Word("disk")>>),
        Route("CurrentMemoryLimits", "GET",
            <<containers, handle, Word("limits"), Word("memory")>>),
        Route("NetIn", "POST", <<containers, handle, Word("net"), Word("in")>>),
        Route("NetOut", "POST", <<containers, handle, Word("net"), Word("out")>>),
        Route("BulkNetOut", "POST",
            <<containers, handle, Word("net"), Word("out"), Word("bulk")>>),
        Route("Stdout", "GET",
            <<containers, handle, Word("processes"), Param("pid"),
              Word("attaches"), Param("streamid"), Word("stdout")>>),
        Route("Stderr", "GET",
            <<containers, handle, Word("processes"), Param("pid"),
              Word("attaches"), Param("streamid"), Word("stderr")>>),
        Route("Run", "POST", <<containers, handle, Word("processes")>>),
        Route("Attach", "GET", <<containers, handle, Word("processes"), Param("pid")>>),
        Route("SetGraceTime", "PUT", <<containers, handle, Word("grace_time")>>),
        Route("Properties", "GET", <<containers, handle, Word("properties")>>),
        Route("Property", "GET", <<containers, handle, Word("properties"), Param("key")>>),
        Route("SetProperty", "PUT", <<containers, handle, Word("properties"), Param("key")>>),
        Route("RemoveProperty", "DELETE",
            <<containers, handle, Word("properties"), Param("key")>>),
        Route("Metrics", "GET", <<containers, handle, Word("metrics")>>)>>

\* rata finds a route by its name, and the parameters take their places in its path.
FindRouteByName(name) == CHOOSE r \in {Routes[i] : i \in DOMAIN Routes} : r.Name = name

CreatePath(route, params) ==
  [i \in DOMAIN route.Path |->
     IF route.Path[i].param THEN params[route.Path[i].name] ELSE route.Path[i].name]

RequestFor(route, asked) ==
  [method |-> route.Method, path |-> CreatePath(route, asked.params),
   query |-> asked.query, body |-> asked.body]

\* What the client may ask for: anything, with parameters that stand for themselves.
Sendable(asked) == \A p \in DOMAIN asked.params : asked.params[p] \in Names

CreateRequest(asked) == RequestFor(FindRouteByName(asked.name), asked)

\* pat takes the first route that matches, and adds its parameters to the query.  The loop
\* of try ends with the path, before a parameter that has nothing left to match.
Matches(req, route) ==
  /\ req.method = route.Method
  /\ Len(req.path) = Len(route.Path)
  /\ \A i \in DOMAIN req.path : route.Path[i].param \/ req.path[i] = route.Path[i].name
  /\ route.Path[Len(route.Path)].param => req.path[Len(req.path)] # EmptyName

FirstMatch(req) ==
  Routes[CHOOSE i \in DOMAIN Routes :
           /\ Matches(req, Routes[i])
           /\ \A j \in 1 .. i - 1 : ~Matches(req, Routes[j])]

Params(req, path) ==
  LET params == {i \in DOMAIN path : path[i].param}
  IN  [p \in {path[i].name : i \in params} |-> req.path[CHOOSE i \in params : path[i].name = p]]

Handed(req, route) ==
  [name |-> route.Name, params |-> Params(req, route.Path),
   query |-> req.query, body |-> req.body]

ServeHTTP(req) == Handed(req, FirstMatch(req))

\* r.FormValue(":name") in a handler
FormValue(req, name) == req.params[name]
=============================================================================
