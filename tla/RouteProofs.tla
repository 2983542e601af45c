---------------------------- MODULE RouteProofs -----------------------------
(***************************************************************************)
(* How every call of the API reaches the backend: the routes of            *)
(* routes/routes.go tell all requests apart, a path gives back the         *)
(* parameters it was made from, a body the value that was marshalled, and  *)
(* each handler calls the backend with what the caller of the client gave. *)
(***************************************************************************)
EXTENDS RemoteApi, FiniteSetTheorems, TLAPS

\* What a request has in common with a route that it matches.
LEMMA Matched ==
  ASSUME NEW P, NEW req, req.path \in Seq(P), NEW name, NEW method, NEW path,
         Matches(req, Route(name, method, path))
  PROVE  /\ req.method = method /\ Len(req.path) = Len(path)
         /\ \A k \in 1 .. Len(path) : \A w : path[k] = Word(w) => req.path[k] = w
<1>1. req.method = method /\ Len(req.path) = Len(path)
      /\ \A i \in DOMAIN req.path : path[i].param \/ req.path[i] = path[i].name
  BY SMTT(40) DEF Matches, Route
<1>2. \A k \in 1 .. Len(path) : path[k].param \/ req.path[k] = path[k].name
  BY <1>1, SMTT(40)
<1>3. \A w : ~Word(w).param /\ Word(w).name = w
  BY SMTT(40) DEF Word
<1> QED
  BY <1>1, <1>2, <1>3, ZenonT(40)

\* How many routes there are.
LEMMA RouteCount == DOMAIN Routes = 1 .. 28
BY DEF Routes

\* The number of the only route that a request can match, by its method, the length of its
\* path and the words in it.
Candidate(req) ==
  LET Is(method, n) == req.method = method /\ Len(req.path) = n
      Has(k, w) == req.path[k] = w
  IN  IF Is("GET", 1) THEN IF Has(1, "ping") THEN 1 ELSE IF Has(1, "capacity") THEN 2 ELSE 3
      ELSE IF Is("POST", 1) THEN 4
      ELSE IF Is("GET", 2) THEN IF Has(2, "bulk_info") THEN 6 ELSE 7
      ELSE IF Is("DELETE", 2) THEN 8
      ELSE IF Is("PUT", 3) THEN IF Has(3, "stop") THEN 9 ELSE IF Has(3, "files") THEN 10 ELSE 23
      ELSE IF Is("GET", 3)
      THEN IF Has(3, "info") THEN 5 ELSE IF Has(3, "files") THEN 11
           ELSE IF Has(3, "properties") THEN 24 ELSE 28
      ELSE IF Is("POST", 3) THEN 21
      ELSE IF Is("GET", 4)
      THEN IF Has(3, "processes") THEN 22 ELSE IF Has(3, "properties") THEN 25
           ELSE IF Has(4, "bandwidth") THEN 12 ELSE IF Has(4, "cpu") THEN 13
           ELSE IF Has(4, "disk") THEN 14 ELSE 15
      ELSE IF Is("POST", 4) THEN IF Has(4, "in") THEN 16 ELSE 17
      ELSE IF Is("PUT", 4) THEN 26
      ELSE IF Is("DELETE", 4) THEN 27
      ELSE IF Is("POST", 5) THEN 18
      ELSE IF Has(7, "stdout") THEN 19 ELSE 20

\* The names of a path's parameters.
ParamNames(path) == {path[i].name : i \in {j \in DOMAIN path : path[j].param}}

\* No name stands for two parameters of a path.
WellFormed(path) ==
  /\ Len(path) \in Nat /\ DOMAIN path = 1 .. Len(path) /\ Len(path) # 0
  /\ \A i, j \in DOMAIN path : path[i].param /\ path[j].param
       /\ path[i].name = path[j].name => i = j

\* The parameters of a path are these.
Takes(path, names) == WellFormed(path) /\ ParamNames(path) = names

\* The place of a route in the table, by its name.
RouteNumber ==
  [Ping |-> 1, Capacity |-> 2, List |-> 3, Create |-> 4, Info |-> 5, BulkInfo |-> 6,
   BulkMetrics |-> 7, Destroy |-> 8, Stop |-> 9, StreamIn |-> 10, StreamOut |-> 11,
   CurrentBandwidthLimits |-> 12, CurrentCPULimits |-> 13, CurrentDiskLimits |-> 14,
   CurrentMemoryLimits |-> 15, NetIn |-> 16, NetOut |-> 17, BulkNetOut |-> 18,
   Stdout |-> 19, Stderr |-> 20, Run |-> 21, Attach |-> 22, SetGraceTime |-> 23,
   Properties |-> 24, Property |-> 25, SetProperty |-> 26, RemoveProperty |-> 27,
   Metrics |-> 28]

\* What the path of a route takes, by the name of the route.
Parameters(name) ==
  IF name \in {"Ping", "Capacity", "List", "Create", "BulkInfo", "BulkMetrics"} THEN {}
  ELSE IF name = "Attach" THEN {"handle", "pid"}
  ELSE IF name \in {"Property", "SetProperty", "RemoveProperty"} THEN {"handle", "key"}
  ELSE IF name \in {"Stdout", "Stderr"} THEN {"handle", "pid", "streamid"}
  ELSE {"handle"}

\* A word is no parameter.
LEMMA Segments == \A s : ~Word(s).param /\ Param(s).param /\ Param(s).name = s
BY DEF Word, Param

\* The kinds of paths that the routes have, by words (W) and parameters (P): /ping.
LEMMA PathW ==
  ASSUME NEW a
  PROVE  Takes(<<Word(a)>>, {})
<1> DEFINE p == <<Word(a)>>
<1>1. Len(p) = 1
  OBVIOUS
<1>2. DOMAIN p = 1 .. 1
  BY SMTT(40)
<1>3. ~p[1].param
  BY Segments, ZenonT(40)
<1> HIDE DEF p
<1>4. {i \in DOMAIN p : p[i].param} = {}
  BY <1>2, <1>3, SMTT(40)
<1>5. ParamNames(p) = {}
  BY <1>2, <1>3, <1>4, ZenonT(40) DEF ParamNames
<1>6. WellFormed(p)
  BY <1>1, <1>2, <1>3, <1>4, SMTT(40) DEF WellFormed
<1> QED
  BY <1>5, <1>6, ZenonT(40) DEF p, Takes

\* /containers/bulk_info.
LEMMA PathWW ==
  ASSUME NEW a, NEW b
  PROVE  Takes(<<Word(a), Word(b)>>, {})
<1> DEFINE p == <<Word(a), Word(b)>>
<1>1. Len(p) = 2
  OBVIOUS
<1>2. DOMAIN p = 1 .. 2
  BY SMTT(40)
<1>3. ~p[1].param /\ ~p[2].param
  BY Segments, ZenonT(40)
<1> HIDE DEF p
<1>4. {i \in DOMAIN p : p[i].param} = {}
  BY <1>2, <1>3, SMTT(40)
<1>5. ParamNames(p) = {}
  BY <1>2, <1>3, <1>4, ZenonT(40) DEF ParamNames
<1>6. WellFormed(p)
  BY <1>1, <1>2, <1>3, <1>4, SMTT(40) DEF WellFormed
<1> QED
  BY <1>5, <1>6, ZenonT(40) DEF p, Takes

\* /containers/:handle.
LEMMA PathWP ==
  ASSUME NEW a, NEW b
  PROVE  Takes(<<Word(a), Param(b)>>, {b})
<1> DEFINE p == <<Word(a), Param(b)>>
<1>1. Len(p) = 2
  OBVIOUS
<1>2. DOMAIN p = 1 .. 2
  OBVIOUS
<1>3. ~p[1].param /\ p[2].param /\ p[2].name = b
  BY Segments, ZenonT(40)
<1> HIDE DEF p
<1>4. {i \in DOMAIN p : p[i].param} = {2}
  BY <1>2, <1>3, SMTT(40)
<1>5. ParamNames(p) = {b}
  BY <1>2, <1>3, <1>4, ZenonT(40) DEF ParamNames
<1>6. WellFormed(p)
  BY <1>1, <1>2, <1>3, <1>4, SMTT(40) DEF WellFormed
<1> QED
  BY <1>5, <1>6, ZenonT(40) DEF p, Takes

\* /containers/:handle/info.
LEMMA PathWPW ==
  ASSUME NEW a, NEW b, NEW c
  PROVE  Takes(<<Word(a), Param(b), Word(c)>>, {b})
<1> DEFINE p == <<Word(a), Param(b), Word(c)>>
<1>1. Len(p) = 3
  OBVIOUS
<1>2. DOMAIN p = 1 .. 3
  BY SMTT(40)
<1>3. ~p[1].param /\ p[2].param /\ ~p[3].param /\ p[2].name = b
  BY Segments, ZenonT(40)
<1> HIDE DEF p
<1>4. {i \in DOMAIN p : p[i].param} = {2}
  BY <1>2, <1>3, SMTT(40)
<1>5. ParamNames(p) = {b}
  BY <1>2, <1>3, <1>4, ZenonT(40) DEF ParamNames
<1>6. WellFormed(p)
  BY <1>1, <1>2, <1>3, <1>4, SMTT(40) DEF WellFormed
<1> QED
  BY <1>5, <1>6, ZenonT(40) DEF p, Takes

\* /containers/:handle/limits/cpu.
LEMMA PathWPWW ==
  ASSUME NEW a, NEW b, NEW c, NEW d
  PROVE  Takes(<<Word(a), Param(b), Word(c), Word(d)>>, {b})
<1> DEFINE p == <<Word(a), Param(b), Word(c), Word(d)>>
<1>1. Len(p) = 4
  OBVIOUS
<1>2. DOMAIN p = 1 .. 4
  BY SMTT(40)
<1>3. ~p[1].param /\ p[2].param /\ ~p[3].param /\ ~p[4].param /\ p[2].name = b
  BY Segments, ZenonT(40)
<1> HIDE DEF p
<1>4. {i \in DOMAIN p : p[i].param} = {2}
  BY <1>2, <1>3, SMTT(40)
<1>5. ParamNames(p) = {b}
  BY <1>2, <1>3, <1>4, ZenonT(40) DEF ParamNames
<1>6. WellFormed(p)
  BY <1>1, <1>2, <1>3, <1>4, SMTT(40) DEF WellFormed
<1> QED
  BY <1>5, <1>6, ZenonT(40) DEF p, Takes

\* /containers/:handle/processes/:pid.
LEMMA PathWPWP ==
  ASSUME NEW a, NEW b, NEW c, NEW d, b # d
  PROVE  Takes(<<Word(a), Param(b), Word(c), Param(d)>>, {b, d})
<1> DEFINE p == <<Word(a), Param(b), Word(c), Param(d)>>
<1>1. Len(p) = 4
  BY ZenonT(40)
<1>2. DOMAIN p = 1 .. 4
  BY SMTT(40)
<1>3. ~p[1].param /\ p[2].param /\ ~p[3].param /\ p[4].param /\ p[2].name = b /\ p[4].name = d
  BY Segments, ZenonT(40)
<1> HIDE DEF p
<1>4. {i \in DOMAIN p : p[i].param} = {2, 4}
  BY <1>2, <1>3, SMTT(40)
<1>5. ParamNames(p) = {b, d}
  BY <1>2, <1>3, <1>4, SMTT(40) DEF ParamNames
<1>6. WellFormed(p)
  BY <1>1, <1>2, <1>3, <1>4, SMTT(40) DEF WellFormed
<1> QED
  BY <1>5, <1>6, ZenonT(40) DEF p, Takes

\* /containers/:handle/net/out/bulk.
LEMMA PathWPWWW ==
  ASSUME NEW a, NEW b, NEW c, NEW d, NEW e
  PROVE  Takes(<<Word(a), Param(b), Word(c), Word(d), Word(e)>>, {b})
<1> DEFINE p == <<Word(a), Param(b), Word(c), Word(d), Word(e)>>
<1>1. Len(p) = 5
  OBVIOUS
<1>2. DOMAIN p = 1 .. 5
  BY SMTT(40)
<1>3. ~p[1].param /\ p[2].param /\ ~p[3].param /\ ~p[4].param /\ ~p[5].param /\ p[2].name = b
  BY Segments, ZenonT(40)
<1> HIDE DEF p
<1>4. {i \in DOMAIN p : p[i].param} = {2}
  BY <1>2, <1>3, SMTT(40)
<1>5. ParamNames(p) = {b}
  BY <1>2, <1>3, <1>4, ZenonT(40) DEF ParamNames
<1>6. WellFormed(p)
  BY <1>1, <1>2, <1>3, <1>4, SMTT(40) DEF WellFormed
<1> QED
  BY <1>5, <1>6, SMTT(40) DEF p, Takes

\* /containers/:handle/processes/:pid/attaches/:streamid/stdout.
LEMMA PathWPWPWPW ==
  ASSUME NEW a, NEW b, NEW c, NEW d, NEW e, NEW f, NEW g, b # d, b # f, d # f
  PROVE  Takes(<<Word(a), Param(b), Word(c), Param(d), Word(e), Param(f), Word(g)>>, {b, d, f})
<1> DEFINE p == <<Word(a), Param(b), Word(c), Param(d), Word(e), Param(f), Word(g)>>
<1>1. Len(p) = 7
  OBVIOUS
<1>2. DOMAIN p = 1 .. 7
  BY SMTT(40)
<1>3. ~p[1].param /\ p[2].param /\ ~p[3].param /\ p[4].param /\ ~p[5].param /\ p[6].param
        /\ ~p[7].param /\ p[2].name = b /\ p[4].name = d /\ p[6].name = f
  BY Segments, ZenonT(40)
<1> HIDE DEF p
<1>4. {i \in DOMAIN p : p[i].param} = {2, 4, 6}
  BY <1>2, <1>3, SMTT(40)
<1>5. ParamNames(p) = {b, d, f}
  BY <1>2, <1>3, <1>4, SMTT(40) DEF ParamNames
<1>6. WellFormed(p)
  BY <1>1, <1>2, <1>3, <1>4, SMTT(60) DEF WellFormed
<1> QED
  BY <1>5, <1>6, ZenonT(40) DEF p, Takes

\* The routes, one by one.
LEMMA RouteFacts ==
  ASSUME NEW P
  PROVE  \A k \in 1 .. 28 :
           /\ RouteNumber[Routes[k].Name] = k /\ Routes[k].Method # "none"
           /\ Takes(Routes[k].Path, Parameters(Routes[k].Name))
           /\ \A req : req.path \in Seq(P) /\ Matches(req, Routes[k]) => k = Candidate(req)
<1> DEFINE c == Word("containers")
           h == Param("handle")
           F(k) == /\ RouteNumber[Routes[k].Name] = k /\ Routes[k].Method # "none"
                   /\ Takes(Routes[k].Path, Parameters(Routes[k].Name))
                   /\ \A req : req.path \in Seq(P)
                        /\ Matches(req, Routes[k]) => k = Candidate(req)
<1>1. F(1)
  <2> DEFINE path == <<Word("ping")>>
  <2>1. Routes[1] = Route("Ping", "GET", path)
    BY ZenonT(40) DEF Routes
  <2>2. Routes[1].Name = "Ping" /\ Routes[1].Path = path /\ Routes[1].Method # "none"
    BY <2>1, SMTT(40) DEF Route
  <2>3. RouteNumber[Routes[1].Name] = 1
    BY <2>2, SMTT(60) DEF RouteNumber
  <2>4. Takes(path, {})
    BY PathW, Zenon
  <2>5. Parameters("Ping") = {}
    BY SMTT(40) DEF Parameters
  <2>6. ASSUME NEW req, req.path \in Seq(P), Matches(req, Routes[1])
        PROVE  1 = Candidate(req)
    <3>1. req.method = "GET" /\ Len(req.path) = 1 /\ req.path[1] = "ping"
      BY <2>1, <2>6, Matched, SMTT(40)
    <3> QED
      BY <3>1, ZenonT(40) DEF Candidate
  <2> QED
    BY <2>2, <2>3, <2>4, <2>5, <2>6, ZenonT(40)
<1>2. F(2)
  <2> DEFINE path == <<Word("capacity")>>
  <2>1. Routes[2] = Route("Capacity", "GET", path)
    BY ZenonT(40) DEF Routes
  <2>2. Routes[2].Name = "Capacity" /\ Routes[2].Path = path /\ Routes[2].Method # "none"
    BY <2>1, SMTT(40) DEF Route
  <2>3. RouteNumber[Routes[2].Name] = 2
    BY <2>2, SMTT(40) DEF RouteNumber
  <2>4. Takes(path, {})
    BY PathW, ZenonT(40)
  <2>5. Parameters("Capacity") = {}
    BY ZenonT(40) DEF Parameters
  <2>6. ASSUME NEW req, req.path \in Seq(P), Matches(req, Routes[2])
        PROVE  2 = Candidate(req)
    <3>1. req.method = "GET" /\ Len(req.path) = 1 /\ req.path[1] = "capacity"
      BY <2>1, <2>6, Matched, SMTT(40)
    <3> QED
      BY <3>1, ZenonT(40) DEF Candidate
  <2> QED
    BY <2>2, <2>3, <2>4, <2>5, <2>6, ZenonT(60)
<1>3. F(3)
  <2> DEFINE path == <<c>>
  <2>1. Routes[3] = Route("List", "GET", path)
    BY ZenonT(40) DEF Routes
  <2>2. Routes[3].Name = "List" /\ Routes[3].Path = path /\ Routes[3].Method # "none"
    BY <2>1, SMTT(40) DEF Route
  <2>3. RouteNumber[Routes[3].Name] = 3
    BY <2>2, SMTT(40) DEF RouteNumber
  <2>4. Takes(path, {})
    BY PathW, ZenonT(40)
  <2>5. Parameters("List") = {}
    BY ZenonT(40) DEF Parameters
  <2>6. ASSUME NEW req, req.path \in Seq(P), Matches(req, Routes[3])
        PROVE  3 = Candidate(req)
    <3>1. req.method = "GET" /\ Len(req.path) = 1 /\ req.path[1] = "containers"
      BY <2>1, <2>6, Matched, SMTT(40)
    <3> QED
      BY <3>1, ZenonT(40) DEF Candidate
  <2> QED
    BY <2>2, <2>3, <2>4, <2>5, <2>6, ZenonT(40)
<1>4. F(4)
  <2> DEFINE path == <<c>>
  <2>1. Routes[4] = Route("Create", "POST", path)
    BY ZenonT(40) DEF Routes
  <2>2. Routes[4].Name = "Create" /\ Routes[4].Path = path /\ Routes[4].Method # "none"
    BY <2>1, SMTT(40) DEF Route
  <2>3. RouteNumber[Routes[4].Name] = 4
    BY <2>2, SMTT(40) DEF RouteNumber
  <2>4. Takes(path, {})
    BY PathW, Zenon
  <2>5. Parameters("Create") = {}
    BY ZenonT(40) DEF Parameters
  <2>6. ASSUME NEW req, req.path \in Seq(P), Matches(req, Routes[4])
        PROVE  4 = Candidate(req)
    <3>1. req.method = "POST" /\ Len(req.path) = 1 /\ req.path[1] = "containers"
      BY <2>1, <2>6, Matched, SMTT(40)
    <3> QED
      BY <3>1, ZenonT(40) DEF Candidate
  <2> QED
    BY <2>2, <2>3, <2>4, <2>5, <2>6, ZenonT(40)
<1>5. F(5)
  <2> DEFINE path == <<c, h, Word("info")>>
  <2>1. Routes[5] = Route("Info", "GET", path)
    BY ZenonT(40) DEF Routes
  <2>2. Routes[5].Name = "Info" /\ Routes[5].Path = path /\ Routes[5].Method # "none"
    BY <2>1, SMTT(40) DEF Route
  <2>3. RouteNumber[Routes[5].Name] = 5
    BY <2>2, SMTT(40) DEF RouteNumber
  <2>4. Takes(path, {"handle"})
    BY PathWPW, ZenonT(40)
  <2>5. Parameters("Info") = {"handle"}
    BY ZenonT(40) DEF Parameters
  <2>6. ASSUME NEW req, req.path \in Seq(P), Matches(req, Routes[5])
        PROVE  5 = Candidate(req)
    <3>1. req.method = "GET" /\ Len(req.path) = 3 /\ req.path[3] = "info"
      BY <2>1, <2>6, Matched, SMTT(40)
    <3> QED
      BY <3>1, SMTT(40) DEF Candidate
  <2> QED
    BY <2>2, <2>3, <2>4, <2>5, <2>6, ZenonT(40)
<1>6. F(6)
  <2> DEFINE path == <<c, Word("bulk_info")>>
  <2>1. Routes[6] = Route("BulkInfo", "GET", path)
    BY ZenonT(40) DEF Routes
  <2>2. Routes[6].Name = "BulkInfo" /\ Routes[6].Path = path /\ Routes[6].Method # "none"
    BY <2>1, SMTT(40) DEF Route
  <2>3. RouteNumber[Routes[6].Name] = 6
    BY <2>2, SMTT(40) DEF RouteNumber
  <2>4. Takes(path, {})
    BY PathWW, ZenonT(40)
  <2>5. Parameters("BulkInfo") = {}
    BY SMTT(40) DEF Parameters
  <2>6. ASSUME NEW req, req.path \in Seq(P), Matches(req, Routes[6])
        PROVE  6 = Candidate(req)
    <3>1. req.method = "GET" /\ Len(req.path) = 2 /\ req.path[2] = "bulk_info"
      BY <2>1, <2>6, Matched, SMTT(40)
    <3> QED
      BY <3>1, SMTT(40) DEF Candidate
  <2> QED
    BY <2>2, <2>3, <2>4, <2>5, <2>6, ZenonT(40)
<1>7. F(7)
  <2> DEFINE path == <<c, Word("bulk_metrics")>>
  <2>1. Routes[7] = Route("BulkMetrics", "GET", path)
    BY ZenonT(40) DEF Routes
  <2>2. Routes[7].Name = "BulkMetrics" /\ Routes[7].Path = path /\ Routes[7].Method # "none"
    BY <2>1, SMTT(40) DEF Route
  <2>3. RouteNumber[Routes[7].Name] = 7
    BY <2>2, SMTT(40) DEF RouteNumber
  <2>4. Takes(path, {})
    BY PathWW, ZenonT(40)
  <2>5. Parameters("BulkMetrics") = {}
    BY ZenonT(40) DEF Parameters
  <2>6. ASSUME NEW req, req.path \in Seq(P), Matches(req, Routes[7])
        PROVE  7 = Candidate(req)
    <3>1. req.method = "GET" /\ Len(req.path) = 2 /\ req.path[2] = "bulk_metrics"
      BY <2>1, <2>6, Matched, SMTT(40)
    <3> QED
      BY <3>1, SMTT(40) DEF Candidate
  <2> QED
    BY <2>2, <2>3, <2>4, <2>5, <2>6, ZenonT(40)
<1>8. F(8)
  <2> DEFINE path == <<c, h>>
  <2>1. Routes[8] = Route("Destroy", "DELETE", path)
    BY Zenon DEF Routes
  <2>2. Routes[8].Name = "Destroy" /\ Routes[8].Path = path /\ Routes[8].Method # "none"
    BY <2>1, SMTT(40) DEF Route
  <2>3. RouteNumber[Routes[8].Name] = 8
    BY <2>2, SMTT(40) DEF RouteNumber
  <2>4. Takes(path, {"handle"})
    BY PathWP, Zenon
  <2>5. Parameters("Destroy") = {"handle"}
    BY ZenonT(40) DEF Parameters
  <2>6. ASSUME NEW req, req.path \in Seq(P), Matches(req, Routes[8])
        PROVE  8 = Candidate(req)
    <3>1. req.method = "DELETE" /\ Len(req.path) = 2
      BY <2>1, <2>6, Matched, SMTT(40)
    <3> QED
      BY <3>1, ZenonT(40) DEF Candidate
  <2> QED
    BY <2>2, <2>3, <2>4, <2>5, <2>6, ZenonT(40)
<1>9. F(9)
  <2> DEFINE path == <<c, h, Word("stop")>>
  <2>1. Routes[9] = Route("Stop", "PUT", path)
    BY Zenon DEF Routes
  <2>2. Routes[9].Name = "Stop" /\ Routes[9].Path = path /\ Routes[9].Method # "none"
    BY <2>1, SMTT(40) DEF Route
  <2>3. RouteNumber[Routes[9].Name] = 9
    BY <2>2 DEF RouteNumber
  <2>4. Takes(path, {"handle"})
    BY PathWPW, Zenon
  <2>5. Parameters("Stop") = {"handle"}
    BY ZenonT(40) DEF Parameters
  <2>6. ASSUME NEW req, req.path \in Seq(P), Matches(req, Routes[9])
        PROVE  9 = Candidate(req)
    <3>1. req.method = "PUT" /\ Len(req.path) = 3 /\ req.path[3] = "stop"
      BY <2>1, <2>6, Matched, SMTT(40)
    <3> QED
      BY <3>1, ZenonT(40) DEF Candidate
  <2> QED
    BY <2>2, <2>3, <2>4, <2>5, <2>6, ZenonT(40)
<1>10. F(10)
  <2> DEFINE path == <<c, h, Word("files")>>
  <2>1. Routes[10] = Route("StreamIn", "PUT", path)
    BY Zenon DEF Routes
  <2>2. Routes[10].Name = "StreamIn" /\ Routes[10].Path = path /\ Routes[10].Method # "none"
    BY <2>1, SMTT(40) DEF Route
  <2>3. RouteNumber[Routes[10].Name] = 10
    BY <2>2, SMTT(60) DEF RouteNumber
  <2>4. Takes(path, {"handle"})
    BY PathWPW, Zenon
  <2>5. Parameters("StreamIn") = {"handle"}
    BY ZenonT(40) DEF Parameters
  <2>6. ASSUME NEW req, req.path \in Seq(P), Matches(req, Routes[10])
        PROVE  10 = Candidate(req)
    <3>1. req.method = "PUT" /\ Len(req.path) = 3 /\ req.path[3] = "files"
      BY <2>1, <2>6, Matched, SMTT(40)
    <3> QED
      BY <3>1, ZenonT(40) DEF Candidate
  <2> QED
    BY <2>2, <2>3, <2>4, <2>5, <2>6, ZenonT(40)
<1>11. F(11)
  <2> DEFINE path == <<c, h, Word("files")>>
  <2>1. Routes[11] = Route("StreamOut", "GET", path)
    BY Zenon DEF Routes
  <2>2. Routes[11].Name = "StreamOut" /\ Routes[11].Path = path /\ Routes[11].Method # "none"
    BY <2>1, SMTT(40) DEF Route
  <2>3. RouteNumber[Routes[11].Name] = 11
    BY <2>2, SMTT(40) DEF RouteNumber
  <2>4. Takes(path, {"handle"})
    BY PathWPW, Zenon
  <2>5. Parameters("StreamOut") = {"handle"}
    BY ZenonT(40) DEF Parameters
  <2>6. ASSUME NEW req, req.path \in Seq(P), Matches(req, Routes[11])
        PROVE  11 = Candidate(req)
    <3>1. req.method = "GET" /\ Len(req.path) = 3 /\ req.path[3] = "files"
      BY <2>1, <2>6, Matched, SMTT(60)
    <3> QED
      BY <3>1, SMTT(40) DEF Candidate
  <2> QED
    BY <2>2, <2>3, <2>4, <2>5, <2>6, Zenon
<1>12. F(12)
  <2> DEFINE path == <<c, h, Word("limits"), Word("bandwidth")>>
  <2>1. Routes[12] = Route("CurrentBandwidthLimits", "GET", path)
    BY Zenon DEF Routes
  <2>2. Routes[12].Name = "CurrentBandwidthLimits" /\ Routes[12].Path = path
          /\ Routes[12].Method # "none"
    BY <2>1, SMTT(40) DEF Route
  <2>3. RouteNumber[Routes[12].Name] = 12
    BY <2>2 DEF RouteNumber
  <2>4. Takes(path, {"handle"})
    BY PathWPWW, Zenon
  <2>5. Parameters("CurrentBandwidthLimits") = {"handle"}
    BY ZenonT(40) DEF Parameters
  <2>6. ASSUME NEW req, req.path \in Seq(P), Matches(req, Routes[12])
        PROVE  12 = Candidate(req)
    <3>1. req.method = "GET" /\ Len(req.path) = 4 /\ req.path[3] = "limits"
            /\ req.path[4] = "bandwidth"
      BY <2>1, <2>6, Matched, SMTT(40)
    <3> QED
      BY <3>1, SMTT(40) DEF Candidate
  <2> QED
    BY <2>2, <2>3, <2>4, <2>5, <2>6, ZenonT(60)
<1>13. F(13)
  <2> DEFINE path == <<c, h, Word("limits"), Word("cpu")>>
  <2>1. Routes[13] = Route("CurrentCPULimits", "GET", path)
    BY Zenon DEF Routes
  <2>2. Routes[13].Name = "CurrentCPULimits" /\ Routes[13].Path = path
          /\ Routes[13].Method # "none"
    BY <2>1, SMTT(40) DEF Route
  <2>3. RouteNumber[Routes[13].Name] = 13
    BY <2>2, SMTT(60) DEF RouteNumber
  <2>4. Takes(path, {"handle"})
    BY PathWPWW, Zenon
  <2>5. Parameters("CurrentCPULimits") = {"handle"}
    BY DEF Parameters
  <2>6. ASSUME NEW req, req.path \in Seq(P), Matches(req, Routes[13])
        PROVE  13 = Candidate(req)
    <3>1. req.method = "GET" /\ Len(req.path) = 4 /\ req.path[3] = "limits" /\ req.path[4] = "cpu"
      BY <2>1, <2>6, Matched, SMTT(40)
    <3> QED
      BY <3>1, SMTT(40) DEF Candidate
  <2> QED
    BY <2>2, <2>3, <2>4, <2>5, <2>6, ZenonT(60)
<1>14. F(14)
  <2> DEFINE path == <<c, h, Word("limits"), Word("disk")>>
  <2>1. Routes[14] = Route("CurrentDiskLimits", "GET", path)
    BY Zenon DEF Routes
  <2>2. Routes[14].Name = "CurrentDiskLimits" /\ Routes[14].Path = path
          /\ Routes[14].Method # "none"
    BY <2>1, SMTT(40) DEF Route
  <2>3. RouteNumber[Routes[14].Name] = 14
    BY <2>2 DEF RouteNumber
  <2>4. Takes(path, {"handle"})
    BY PathWPWW, Zenon
  <2>5. Parameters("CurrentDiskLimits") = {"handle"}
    BY DEF Parameters
  <2>6. ASSUME NEW req, req.path \in Seq(P), Matches(req, Routes[14])
        PROVE  14 = Candidate(req)
    <3>1. req.method = "GET" /\ Len(req.path) = 4 /\ req.path[3] = "limits"
            /\ req.path[4] = "disk"
      BY <2>1, <2>6, Matched, SMTT(40)
    <3> QED
      BY <3>1, SMTT(40) DEF Candidate
  <2> QED
    BY <2>2, <2>3, <2>4, <2>5, <2>6, ZenonT(40)
<1>15. F(15)
  <2> DEFINE path == <<c, h, Word("limits"), Word("memory")>>
  <2>1. Routes[15] = Route("CurrentMemoryLimits", "GET", path)
    BY Zenon DEF Routes
  <2>2. Routes[15].Name = "CurrentMemoryLimits" /\ Routes[15].Path = path
          /\ Routes[15].Method # "none"
    BY <2>1, SMTT(40) DEF Route
  <2>3. RouteNumber[Routes[15].Name] = 15
    BY <2>2, SMTT(60) DEF RouteNumber
  <2>4. Takes(path, {"handle"})
    BY PathWPWW, Zenon
  <2>5. Parameters("CurrentMemoryLimits") = {"handle"}
    BY DEF Parameters
  <2>6. ASSUME NEW req, req.path \in Seq(P), Matches(req, Routes[15])
        PROVE  15 = Candidate(req)
    <3>1. req.method = "GET" /\ Len(req.path) = 4 /\ req.path[3] = "limits"
            /\ req.path[4] = "memory"
      BY <2>1, <2>6, Matched, SMTT(40)
    <3> QED
      BY <3>1 DEF Candidate
  <2> QED
    BY <2>2, <2>3, <2>4, <2>5, <2>6, ZenonT(40)
<1>16. F(16)
  <2> DEFINE path == <<c, h, Word("net"), Word("in")>>
  <2>1. Routes[16] = Route("NetIn", "POST", path)
    BY Zenon DEF Routes
  <2>2. Routes[16].Name = "NetIn" /\ Routes[16].Path = path /\ Routes[16].Method # "none"
    BY <2>1, SMTT(40) DEF Route
  <2>3. RouteNumber[Routes[16].Name] = 16
    BY <2>2 DEF RouteNumber
  <2>4. Takes(path, {"handle"})
    BY PathWPWW, Zenon
  <2>5. Parameters("NetIn") = {"handle"}
    BY SMTT(40) DEF Parameters
  <2>6. ASSUME NEW req, req.path \in Seq(P), Matches(req, Routes[16])
        PROVE  16 = Candidate(req)
    <3>1. req.method = "POST" /\ Len(req.path) = 4 /\ req.path[3] = "net" /\ req.path[4] = "in"
      BY <2>1, <2>6, Matched, SMTT(40)
    <3> QED
      BY <3>1, SMTT(40) DEF Candidate
  <2> QED
    BY <2>2, <2>3, <2>4, <2>5, <2>6, ZenonT(40)
<1>17. F(17)
  <2> DEFINE path == <<c, h, Word("net"), Word("out")>>
  <2>1. Routes[17] = Route("NetOut", "POST", path)
    BY Zenon DEF Routes
  <2>2. Routes[17].Name = "NetOut" /\ Routes[17].Path = path /\ Routes[17].Method # "none"
    BY <2>1, SMTT(40) DEF Route
  <2>3. RouteNumber[Routes[17].Name] = 17
    BY <2>2 DEF RouteNumber
  <2>4. Takes(path, {"handle"})
    BY PathWPWW, Zenon
  <2>5. Parameters("NetOut") = {"handle"}
    BY SMTT(40) DEF Parameters
  <2>6. ASSUME NEW req, req.path \in Seq(P), Matches(req, Routes[17])
        PROVE  17 = Candidate(req)
    <3>1. req.method = "POST" /\ Len(req.path) = 4 /\ req.path[3] = "net" /\ req.path[4] = "out"
      BY <2>1, <2>6, Matched, SMTT(40)
    <3> QED
      BY <3>1, SMTT(40) DEF Candidate
  <2> QED
    BY <2>2, <2>3, <2>4, <2>5, <2>6, ZenonT(40)
<1>18. F(18)
  <2> DEFINE path == <<c, h, Word("net"), Word("out"), Word("bulk")>>
  <2>1. Routes[18] = Route("BulkNetOut", "POST", path)
    BY Zenon DEF Routes
  <2>2. Routes[18].Name = "BulkNetOut" /\ Routes[18].Path = path /\ Routes[18].Method # "none"
    BY <2>1, SMTT(40) DEF Route
  <2>3. RouteNumber[Routes[18].Name] = 18
    BY <2>2 DEF RouteNumber
  <2>4. Takes(path, {"handle"})
    BY PathWPWWW, Zenon
  <2>5. Parameters("BulkNetOut") = {"handle"}
    BY ZenonT(40) DEF Parameters
  <2>6. ASSUME NEW req, req.path \in Seq(P), Matches(req, Routes[18])
        PROVE  18 = Candidate(req)
    <3>1. req.method = "POST" /\ Len(req.path) = 5 /\ req.path[3] = "net"
            /\ req.path[4] = "out" /\ req.path[5] = "bulk"
      BY <2>1, <2>6, Matched, SMTT(60)
    <3> QED
      BY <3>1, SMTT(40) DEF Candidate
  <2> QED
    BY <2>2, <2>3, <2>4, <2>5, <2>6, ZenonT(40)
<1>19. F(19)
  <2> DEFINE path == <<c, h, Word("processes"), Param("pid"), Word("attaches"),
          Param("streamid"), Word("stdout")>>
  <2>1. Routes[19] = Route("Stdout", "GET", path)
    BY Zenon DEF Routes
  <2>2. Routes[19].Name = "Stdout" /\ Routes[19].Path = path /\ Routes[19].Method # "none"
    BY <2>1, SMTT(40) DEF Route
  <2>3. RouteNumber[Routes[19].Name] = 19
    BY <2>2, SMTT(60) DEF RouteNumber
  <2>4. Takes(path, {"handle", "pid", "streamid"})
    BY PathWPWPWPW, Zenon
  <2>5. Parameters("Stdout") = {"handle", "pid", "streamid"}
    BY ZenonT(40) DEF Parameters
  <2>6. ASSUME NEW req, req.path \in Seq(P), Matches(req, Routes[19])
        PROVE  19 = Candidate(req)
    <3>1. req.method = "GET" /\ Len(req.path) = 7 /\ req.path[3] = "processes"
            /\ req.path[5] = "attaches" /\ req.path[7] = "stdout"
      BY <2>1, <2>6, Matched, SMTT(60)
    <3> QED
      BY <3>1, SMTT(40) DEF Candidate
  <2> QED
    BY <2>2, <2>3, <2>4, <2>5, <2>6, Zenon
<1>20. F(20)
  <2> DEFINE path == <<c, h, Word("processes"), Param("pid"), Word("attaches"),
          Param("streamid"), Word("stderr")>>
  <2>1. Routes[20] = Route("Stderr", "GET", path)
    BY Zenon DEF Routes
  <2>2. Routes[20].Name = "Stderr" /\ Routes[20].Path = path /\ Routes[20].Method # "none"
    BY <2>1 DEF Route
  <2>3. RouteNumber[Routes[20].Name] = 20
    BY <2>2 DEF RouteNumber
  <2>4. Takes(path, {"handle", "pid", "streamid"})
    BY PathWPWPWPW, Zenon
  <2>5. Parameters("Stderr") = {"handle", "pid", "streamid"}
    BY ZenonT(40) DEF Parameters
  <2>6. ASSUME NEW req, req.path \in Seq(P), Matches(req, Routes[20])
        PROVE  20 = Candidate(req)
    <3>1. req.method = "GET" /\ Len(req.path) = 7 /\ req.path[3] = "processes"
            /\ req.path[5] = "attaches" /\ req.path[7] = "stderr"
      BY <2>1, <2>6, Matched, SMTT(60)
    <3> QED
      BY <3>1, SMTT(40) DEF Candidate
  <2> QED
    BY <2>2, <2>3, <2>4, <2>5, <2>6, Zenon
<1>21. F(21)
  <2> DEFINE path == <<c, h, Word("processes")>>
  <2>1. Routes[21] = Route("Run", "POST", path)
    BY Zenon DEF Routes
  <2>2. Routes[21].Name = "Run" /\ Routes[21].Path = path /\ Routes[21].Method # "none"
    BY <2>1, SMTT(40) DEF Route
  <2>3. RouteNumber[Routes[21].Name] = 21
    BY <2>2, SMTT(40) DEF RouteNumber
  <2>4. Takes(path, {"handle"})
    BY PathWPW, Zenon
  <2>5. Parameters("Run") = {"handle"}
    BY ZenonT(40) DEF Parameters
  <2>6. ASSUME NEW req, req.path \in Seq(P), Matches(req, Routes[21])
        PROVE  21 = Candidate(req)
    <3>1. req.method = "POST" /\ Len(req.path) = 3 /\ req.path[3] = "processes"
      BY <2>1, <2>6, Matched, SMTT(40)
    <3> QED
      BY <3>1, SMTT(40) DEF Candidate
  <2> QED
    BY <2>2, <2>3, <2>4, <2>5, <2>6, Zenon
<1>22. F(22)
  <2> DEFINE path == <<c, h, Word("processes"), Param("pid")>>
  <2>1. Routes[22] = Route("Attach", "GET", path)
    BY Zenon DEF Routes
  <2>2. Routes[22].Name = "Attach" /\ Routes[22].Path = path /\ Routes[22].Method # "none"
    BY <2>1, SMTT(40) DEF Route
  <2>3. RouteNumber[Routes[22].Name] = 22
    BY <2>2, SMTT(40) DEF RouteNumber
  <2>4. Takes(path, {"handle", "pid"})
    BY PathWPWP, Zenon
  <2>5. Parameters("Attach") = {"handle", "pid"}
    BY ZenonT(40) DEF Parameters
  <2>6. ASSUME NEW req, req.path \in Seq(P), Matches(req, Routes[22])
        PROVE  22 = Candidate(req)
    <3>1. req.method = "GET" /\ Len(req.path) = 4 /\ req.path[3] = "processes"
      BY <2>1, <2>6, Matched, SMTT(40)
    <3> QED
      BY <3>1, SMTT(40) DEF Candidate
  <2> QED
    BY <2>2, <2>3, <2>4, <2>5, <2>6, Zenon
<1>23. F(23)
  <2> DEFINE path == <<c, h, Word("grace_time")>>
  <2>1. Routes[23] = Route("SetGraceTime", "PUT", path)
    BY Zenon DEF Routes
  <2>2. Routes[23].Name = "SetGraceTime" /\ Routes[23].Path = path /\ Routes[23].Method # "none"
    BY <2>1, SMTT(40) DEF Route
  <2>3. RouteNumber[Routes[23].Name] = 23
    BY <2>2 DEF RouteNumber
  <2>4. Takes(path, {"handle"})
    BY PathWPW, Zenon
  <2>5. Parameters("SetGraceTime") = {"handle"}
    BY ZenonT(40) DEF Parameters
  <2>6. ASSUME NEW req, req.path \in Seq(P), Matches(req, Routes[23])
        PROVE  23 = Candidate(req)
    <3>1. req.method = "PUT" /\ Len(req.path) = 3 /\ req.path[3] = "grace_time"
      BY <2>1, <2>6, Matched, SMTT(40)
    <3> QED
      BY <3>1, ZenonT(40) DEF Candidate
  <2> QED
    BY <2>2, <2>3, <2>4, <2>5, <2>6, ZenonT(40)
<1>24. F(24)
  <2> DEFINE path == <<c, h, Word("properties")>>
  <2>1. Routes[24] = Route("Properties", "GET", path)
    BY Zenon DEF Routes
  <2>2. Routes[24].Name = "Properties" /\ Routes[24].Path = path /\ Routes[24].Method # "none"
    BY <2>1, SMTT(40) DEF Route
  <2>3. RouteNumber[Routes[24].Name] = 24
    BY <2>2 DEF RouteNumber
  <2>4. Takes(path, {"handle"})
    BY PathWPW, Zenon
  <2>5. Parameters("Properties") = {"handle"}
    BY ZenonT(40) DEF Parameters
  <2>6. ASSUME NEW req, req.path \in Seq(P), Matches(req, Routes[24])
        PROVE  24 = Candidate(req)
    <3>1. req.method = "GET" /\ Len(req.path) = 3 /\ req.path[3] = "properties"
      BY <2>1, <2>6, Matched, SMTT(40)
    <3> QED
      BY <3>1, SMTT(40) DEF Candidate
  <2> QED
    BY <2>2, <2>3, <2>4, <2>5, <2>6, ZenonT(40)
<1>25. F(25)
  <2> DEFINE path == <<c, h, Word("properties"), Param("key")>>
  <2>1. Routes[25] = Route("Property", "GET", path)
    BY Zenon DEF Routes
  <2>2. Routes[25].Name = "Property" /\ Routes[25].Path = path /\ Routes[25].Method # "none"
    BY <2>1, SMTT(40) DEF Route
  <2>3. RouteNumber[Routes[25].Name] = 25
    BY <2>2 DEF RouteNumber
  <2>4. Takes(path, {"handle", "key"})
    BY PathWPWP, Zenon
  <2>5. Parameters("Property") = {"handle", "key"}
    BY ZenonT(40) DEF Parameters
  <2>6. ASSUME NEW req, req.path \in Seq(P), Matches(req, Routes[25])
        PROVE  25 = Candidate(req)
    <3>1. req.method = "GET" /\ Len(req.path) = 4 /\ req.path[3] = "properties"
      BY <2>1, <2>6, Matched, SMTT(40)
    <3> QED
      BY <3>1, SMTT(40) DEF Candidate
  <2> QED
    BY <2>2, <2>3, <2>4, <2>5, <2>6, ZenonT(60)
<1>26. F(26)
  <2> DEFINE path == <<c, h, Word("properties"), Param("key")>>
  <2>1. Routes[26] = Route("SetProperty", "PUT", path)
    BY Zenon DEF Routes
  <2>2. Routes[26].Name = "SetProperty" /\ Routes[26].Path = path /\ Routes[26].Method # "none"
    BY <2>1, SMTT(40) DEF Route
  <2>3. RouteNumber[Routes[26].Name] = 26
    BY <2>2, SMTT(60) DEF RouteNumber
  <2>4. Takes(path, {"handle", "key"})
    BY PathWPWP, Zenon
  <2>5. Parameters("SetProperty") = {"handle", "key"}
    BY ZenonT(40) DEF Parameters
  <2>6. ASSUME NEW req, req.path \in Seq(P), Matches(req, Routes[26])
        PROVE  26 = Candidate(req)
    <3>1. req.method = "PUT" /\ Len(req.path) = 4 /\ req.path[3] = "properties"
      BY <2>1, <2>6, Matched, SMTT(40)
    <3> QED
      BY <3>1, SMTT(40) DEF Candidate
  <2> QED
    BY <2>2, <2>3, <2>4, <2>5, <2>6, ZenonT(40)
<1>27. F(27)
  <2> DEFINE path == <<c, h, Word("properties"), Param("key")>>
  <2>1. Routes[27] = Route("RemoveProperty", "DELETE", path)
    BY Zenon DEF Routes
  <2>2. Routes[27].Name = "RemoveProperty" /\ Routes[27].Path = path /\ Routes[27].Method # "none"
    BY <2>1, SMTT(40) DEF Route
  <2>3. RouteNumber[Routes[27].Name] = 27
    BY <2>2, SMTT(40) DEF RouteNumber
  <2>4. Takes(path, {"handle", "key"})
    BY PathWPWP, Zenon
  <2>5. Parameters("RemoveProperty") = {"handle", "key"}
    BY ZenonT(40) DEF Parameters
  <2>6. ASSUME NEW req, req.path \in Seq(P), Matches(req, Routes[27])
        PROVE  27 = Candidate(req)
    <3>1. req.method = "DELETE" /\ Len(req.path) = 4 /\ req.path[3] = "properties"
      BY <2>1, <2>6, Matched, SMTT(40)
    <3> QED
      BY <3>1, SMTT(40) DEF Candidate
  <2> QED
    BY <2>2, <2>3, <2>4, <2>5, <2>6, ZenonT(40)
<1>28. F(28)
  <2> DEFINE path == <<c, h, Word("metrics")>>
  <2>1. Routes[28] = Route("Metrics", "GET", path)
    BY Zenon DEF Routes
  <2>2. Routes[28].Name = "Metrics" /\ Routes[28].Path = path /\ Routes[28].Method # "none"
    BY <2>1, SMTT(40) DEF Route
  <2>3. RouteNumber[Routes[28].Name] = 28
    BY <2>2 DEF RouteNumber
  <2>4. Takes(path, {"handle"})
    BY PathWPW, Zenon
  <2>5. Parameters("Metrics") = {"handle"}
    BY ZenonT(40) DEF Parameters
  <2>6. ASSUME NEW req, req.path \in Seq(P), Matches(req, Routes[28])
        PROVE  28 = Candidate(req)
    <3>1. req.method = "GET" /\ Len(req.path) = 3 /\ req.path[3] = "metrics"
      BY <2>1, <2>6, Matched, SMTT(40)
    <3> QED
      BY <3>1, SMTT(40) DEF Candidate
  <2> QED
    BY <2>2, <2>3, <2>4, <2>5, <2>6, ZenonT(40)
<1> HIDE DEF F
<1>29. \A k \in 1 .. 28 :
         \/ k = 1 \/ k = 2 \/ k = 3 \/ k = 4 \/ k = 5 \/ k = 6 \/ k = 7
         \/ k = 8 \/ k = 9 \/ k = 10 \/ k = 11 \/ k = 12 \/ k = 13 \/ k = 14
         \/ k = 15 \/ k = 16 \/ k = 17 \/ k = 18 \/ k = 19 \/ k = 20 \/ k = 21
         \/ k = 22 \/ k = 23 \/ k = 24 \/ k = 25 \/ k = 26 \/ k = 27 \/ k = 28
  OBVIOUS
<1>30. \A k \in 1 .. 28 : F(k)
  BY <1>1, <1>2, <1>3, <1>4, <1>5, <1>6, <1>7, <1>8, <1>9, <1>10, <1>11, <1>12, <1>13, <1>14,
     <1>15, <1>16, <1>17, <1>18, <1>19, <1>20, <1>21, <1>22, <1>23, <1>24, <1>25, <1>26,
     <1>27, <1>28, <1>29, SMTT(60)
<1> QED
  BY <1>30, Zenon DEF F

\* A request matches one route at most: the order in which the router tries them is of no
\* consequence.
THEOREM OneRoute ==
  ASSUME NEW P, NEW req, req.path \in Seq(P)
  PROVE  \A i, j \in DOMAIN Routes : Matches(req, Routes[i]) /\ Matches(req, Routes[j]) => i = j
<1>1. \A k \in 1 .. 28 : Matches(req, Routes[k]) => k = Candidate(req)
  BY RouteFacts, Zenon
<1> QED
  BY <1>1, RouteCount, Zenon

\* A route is found by its name.
LEMMA FoundByName ==
  ASSUME NEW k \in 1 .. 28
  PROVE  FindRouteByName(Routes[k].Name) = Routes[k]
<1>1. \A i \in 1 .. 28 : RouteNumber[Routes[i].Name] = i
  BY RouteFacts, Zenon
<1>2. ASSUME NEW i \in DOMAIN Routes, Routes[i].Name = Routes[k].Name
      PROVE  i = k
  <2>1. RouteNumber[Routes[i].Name] = i /\ RouteNumber[Routes[k].Name] = k
    BY <1>1, RouteCount, Zenon
  <2> QED
    BY <1>2, <2>1, Zenon
<1>3. Routes[k] \in {Routes[i] : i \in DOMAIN Routes}
  BY RouteCount, Zenon
<1>4. \A r \in {Routes[i] : i \in DOMAIN Routes} : r.Name = Routes[k].Name => r = Routes[k]
  BY <1>2, Zenon
<1> QED
  BY <1>3, <1>4, Zenon DEF FindRouteByName

\* The request that is made for a route matches it, and no other.
LEMMA FoundAgain ==
  ASSUME NEW k \in 1 .. 28, NEW params, \A p \in ParamNames(Routes[k].Path) : params[p] # EmptyName,
         NEW req, req.method = Routes[k].Method, req.path = CreatePath(Routes[k], params)
  PROVE  FirstMatch(req) = Routes[k]
<1> DEFINE path == Routes[k].Path
           P == {req.path[i] : i \in DOMAIN path}
<1>1. Len(path) \in Nat /\ DOMAIN path = 1 .. Len(path)
  <2>1. Takes(path, Parameters(Routes[k].Name))
    BY RouteFacts, Zenon
  <2> QED
    BY <2>1, Zenon DEF Takes, WellFormed
<1>2. req.path = [i \in 1 .. Len(path) |->
                    IF path[i].param THEN params[path[i].name] ELSE path[i].name]
  BY <1>1, Zenon DEF CreatePath
<1>3. req.path \in Seq(P) /\ Len(req.path) = Len(path) /\ DOMAIN req.path = 1 .. Len(path)
  <2> DEFINE n == Len(path)
             q == req.path
  <2>1. n \in Nat /\ DOMAIN q = 1 .. n /\ q = [i \in 1 .. n |-> q[i]] /\ P = {q[i] : i \in 1 .. n}
    BY <1>1, <1>2, Zenon
  <2> HIDE DEF n, q, P
  <2>2. q \in [1 .. n -> P]
    BY <2>1, ZenonT(40)
  <2>3. q \in Seq(P) /\ Len(q) = n
    BY <2>1, <2>2, SMTT(60)
  <2> QED
    BY <2>1, <2>3, Zenon DEF n, q
<1>4. Matches(req, Routes[k])
  <2>1. \A i \in DOMAIN path : path[i].param => req.path[i] # EmptyName
    <3> SUFFICES ASSUME NEW i \in DOMAIN path, path[i].param
                 PROVE  req.path[i] # EmptyName
      OBVIOUS
    <3>1. path[i].name \in ParamNames(path)
      BY Zenon DEF ParamNames
    <3>2. i \in 1 .. Len(path)
      BY <1>1, Zenon
    <3> HIDE DEF path
    <3>3. req.path[i] = params[path[i].name]
      BY <1>2, <3>2, Zenon
    <3> QED
      BY <3>1, <3>3, Zenon DEF path
  <2>2. Len(path) \in DOMAIN path
    <3>1. Len(path) # 0
      BY RouteFacts, Zenon DEF Takes, WellFormed
    <3> QED
      BY <1>1, <3>1, SMTT(40)
  <2> QED
    BY <1>2, <1>3, <2>1, <2>2, Zenon DEF Matches
<1>5. \A i \in 1 .. 28 : Matches(req, Routes[i]) => i = k
  BY <1>3, <1>4, OneRoute, RouteCount, ZenonT(40)
<1>6. \A j \in 1 .. k - 1 : j \in 1 .. 28 /\ j # k
  OBVIOUS
<1>7. \A j \in 1 .. k - 1 : ~Matches(req, Routes[j])
  BY <1>5, <1>6, Zenon
<1> DEFINE First(i) == Matches(req, Routes[i]) /\ \A j \in 1 .. i - 1 : ~Matches(req, Routes[j])
<1>8. First(k) /\ \A i \in 1 .. 28 : First(i) => i = k
  BY <1>4, <1>5, <1>7, Zenon
<1>9. (CHOOSE i \in DOMAIN Routes : First(i)) = k
  BY <1>8, RouteCount, Zenon
<1> QED
  BY <1>9, Zenon DEF FirstMatch

\* The parameters come out of the path as they went in.
LEMMA ParamsComeBack ==
  ASSUME NEW k \in 1 .. 28, NEW values, NEW req,
         req.path = CreatePath(Routes[k], [p \in ParamNames(Routes[k].Path) |-> values[p]])
  PROVE  Params(req, Routes[k].Path) = [p \in ParamNames(Routes[k].Path) |-> values[p]]
<1> DEFINE path == Routes[k].Path
           names == ParamNames(path)
           at == {i \in DOMAIN path : path[i].param}
           Where(p) == CHOOSE i \in at : path[i].name = p
<1>1. \A i, j \in DOMAIN path : path[i].param /\ path[j].param
        /\ path[i].name = path[j].name => i = j
  <2>1. Takes(path, Parameters(Routes[k].Name))
    BY RouteFacts, Zenon
  <2> QED
    BY <2>1, Zenon DEF Takes, WellFormed
<1>2. names = {path[i].name : i \in at}
  BY Zenon DEF ParamNames
<1>3. \A i \in at : req.path[i] = values[path[i].name]
  BY <1>2, Zenon DEF CreatePath
<1>4. ASSUME NEW p \in names
      PROVE  req.path[Where(p)] = values[p]
  <2>1. \E i \in at : path[i].name = p
    BY <1>2, <1>4, Zenon
  <2>2. Where(p) \in at /\ path[Where(p)].name = p
    BY <2>1, Zenon
  <2> QED
    BY <1>3, <2>2, Zenon
<1> HIDE DEF Where
<1>5. Params(req, path) = [p \in names |-> req.path[Where(p)]]
  BY <1>2, Zenon DEF Params, Where
<1> QED
  BY <1>4, <1>5, Zenon

\* The server gets the name, the parameters, the query and the body that the client gave,
\* whatever the query and the body are and for all parameters that stand for themselves in a
\* path: rata's paths and pat's matches are inverse for the routes of routes/routes.go:47-86.
THEOREM RouteRoundTrip ==
  ASSUME NEW k \in DOMAIN Routes, NEW values, NEW query, NEW body,
         \A p \in ParamNames(Routes[k].Path) : values[p] \in Names
  PROVE  LET asked == do(Routes[k].Name, [p \in ParamNames(Routes[k].Path) |-> values[p]],
                           query, body)
         IN  ServeHTTP(CreateRequest(asked)) = asked
<1> DEFINE params == [p \in ParamNames(Routes[k].Path) |-> values[p]]
           asked == do(Routes[k].Name, params, query, body)
           req == CreateRequest(asked)
<1>1. k \in 1 .. 28
  BY RouteCount, Zenon
<1>2. req = [method |-> Routes[k].Method, path |-> CreatePath(Routes[k], params),
             query |-> query, body |-> body]
  BY <1>1, FoundByName, ZenonT(40) DEF CreateRequest, RequestFor, do
<1> HIDE DEF req
<1>3. FirstMatch(req) = Routes[k]
  <2>1. \A p \in ParamNames(Routes[k].Path) : params[p] # EmptyName
    BY NamesAssumption, Zenon
  <2> QED
    BY <1>1, <1>2, <2>1, FoundAgain, Zenon
<1>4. Params(req, Routes[k].Path) = params
  BY <1>1, <1>2, ParamsComeBack, ZenonT(40)
<1>5. ServeHTTP(req) = asked
  BY <1>2, <1>3, <1>4, ZenonT(40) DEF ServeHTTP, Handed, do
<1> QED
  BY <1>5, ZenonT(40) DEF req
-----------------------------------------------------------------------------
\* The commas stand at the even places.
LEMMA EvenNumbers ==
  ASSUME NEW n \in Nat
  PROVE  Cardinality({2 * j : j \in 1 .. n}) = n
<1> DEFINE f == [j \in 1 .. n |-> 2 * j]
           S == {2 * j : j \in 1 .. n}
<1>1. f \in Bijection(1 .. n, S)
  <2>1. f \in [1 .. n -> S]
    OBVIOUS
  <2>2. \A i, j \in 1 .. n : f[i] = f[j] => i = j
    OBVIOUS
  <2>3. \A t \in S : \E s \in 1 .. n : f[s] = t
    OBVIOUS
  <2> QED
    BY <2>1, <2>2, <2>3, Zenon DEF Bijection, Injection, Surjection, IsInjective
<1>2. IsFiniteSet(1 .. n) /\ Cardinality(1 .. n) = n
  BY FS_Interval, SMTT(40)
<1>3. ExistsBijection(1 .. n, S)
  BY <1>1, Zenon DEF ExistsBijection
<1> QED
  BY <1>2, <1>3, FS_Bijection, ZenonT(40)

\* The handles that BulkInfo and BulkMetrics join with commas are split again
\* (client/connection/connection.go:551-568, server/request_handling.go:1146-1152).
LEMMA HandlesCome ==
  ASSUME NEW handles, AreHandles(handles)
  PROVE  splitHandles(Join(handles)) = handles
<1> DEFINE n == Len(handles)
           q == Join(handles)
           commas == {i \in DOMAIN q : q[i] = ","}
           Before(i) == {j \in commas : j < i}
           Piece(k) == {i \in DOMAIN q \ commas : Cardinality(Before(i)) = k - 1}
<1>1. n \in Nat /\ DOMAIN handles = 1 .. n /\ handles = [i \in 1 .. n |-> handles[i]]
  <2>1. handles \in Seq(STRING)
    BY Zenon DEF AreHandles
  <2> QED
    BY <2>1
<1>0. \A i \in 1 .. n : handles[i] # "" /\ handles[i] # ","
  BY <1>1, Zenon DEF AreHandles
<1>2. CASE handles = <<>>
  <2>1. q = <<>>
    BY <1>2, SMTT(40) DEF Join
  <2> QED
    BY <1>2, <2>1, SMTT(40) DEF splitHandles
<1>3. CASE handles # <<>>
  <2>1. n > 0
    <3>1. handles \in Seq(STRING)
      BY Zenon DEF AreHandles
    <3> QED
      BY <1>3, <3>1, SMTT(40)
  <2>2. q = [i \in 1 .. 2 * n - 1 |-> IF i % 2 = 1 THEN handles[(i + 1) \div 2] ELSE ","]
    BY <1>3 DEF Join
  <2>3. DOMAIN q = 1 .. 2 * n - 1
    BY <2>2, Zenon
  <2>4. ASSUME NEW k \in 1 .. n
        PROVE  2 * k - 1 \in DOMAIN q /\ q[2 * k - 1] = handles[k] /\ 2 * k - 1 \notin commas
    <3>1. 2 * k - 1 \in 1 .. 2 * n - 1 /\ (2 * k - 1) % 2 = 1 /\ (2 * k - 1 + 1) \div 2 = k
      BY <1>1, SMTT(40)
    <3> QED
      BY <1>0, <2>2, <3>1, ZenonT(40)
  <2>5. ASSUME NEW i \in DOMAIN q
        PROVE  \/ \E k \in 1 .. n : i = 2 * k - 1
               \/ i \in commas /\ \E k \in 1 .. n - 1 : i = 2 * k
    <3>1. CASE i % 2 = 1
      <4>1. i = 2 * ((i + 1) \div 2) - 1 /\ (i + 1) \div 2 \in 1 .. n
        BY <1>1, <2>3, <3>1, SMTT(40)
      <4> QED
        BY <4>1, Zenon
    <3>2. CASE i % 2 # 1
      <4>1. i = 2 * (i \div 2) /\ i \div 2 \in 1 .. n - 1
        BY <1>1, <2>3, <3>2, SMTT(40)
      <4>2. q[i] = ","
        BY <2>2, <2>3, <3>2, Zenon
      <4> QED
        BY <4>1, <4>2, Zenon
    <3> QED
      BY <3>1, <3>2, Zenon
  <2>6. ASSUME NEW k \in 1 .. n - 1
        PROVE  2 * k \in commas
    <3>1. 2 * k \in 1 .. 2 * n - 1 /\ (2 * k) % 2 # 1
      BY <1>1, SMTT(40)
    <3> QED
      BY <2>2, <3>1, Zenon
  <2> HIDE DEF q, commas, n
  <2>7. commas = {2 * j : j \in 1 .. n - 1}
    <3>1. ASSUME NEW i \in commas  PROVE i \in {2 * j : j \in 1 .. n - 1}
      <4>1. i \in DOMAIN q
        BY <3>1, Zenon DEF commas
      <4> QED
        BY <2>4, <2>5, <3>1, <4>1, ZenonT(40)
    <3> QED
      BY <2>6, <3>1, ZenonT(40)
  <2>8. Cardinality(commas) + 1 = n
    <3>1. n - 1 \in Nat
      BY <1>1, <2>1, SMTT(40)
    <3>2. Cardinality(commas) = n - 1
      BY <2>7, <3>1, EvenNumbers, Zenon
    <3> QED
      BY <1>1, <3>2, SMTT(40)
  <2>9. ASSUME NEW k \in 1 .. n
        PROVE  Cardinality(Before(2 * k - 1)) = k - 1
    <3>1. Before(2 * k - 1) = {2 * j : j \in 1 .. k - 1}
      BY <1>1, <2>7, SMTT(40)
    <3>2. k - 1 \in Nat
      BY <1>1, SMTT(40)
    <3> QED
      BY <3>1, <3>2, EvenNumbers, ZenonT(40)
  <2>10. ASSUME NEW k \in 1 .. n
         PROVE  Piece(k) = {2 * k - 1}
    <3>1. 2 * k - 1 \in Piece(k)
      BY <2>4, <2>9, ZenonT(40)
    <3>2. ASSUME NEW i \in Piece(k)  PROVE i = 2 * k - 1
      <4>1. PICK m \in 1 .. n : i = 2 * m - 1
        BY <2>5, <3>2, ZenonT(40)
      <4>2. m - 1 = k - 1
        BY <2>9, <3>2, <4>1, ZenonT(40)
      <4> QED
        BY <1>1, <4>1, <4>2, SMTT(40)
    <3> QED
      BY <3>1, <3>2, ZenonT(40)
  <2>11. ASSUME NEW k \in 1 .. n
         PROVE  (IF Piece(k) = {} THEN "" ELSE q[CHOOSE i \in Piece(k) : TRUE]) = handles[k]
    <3>1. (CHOOSE i \in Piece(k) : TRUE) = 2 * k - 1 /\ Piece(k) # {}
      BY <2>10, Zenon
    <3> QED
      BY <2>4, <3>1, Zenon
  <2>12. q \notin {<<>>, <<"">>}
    <3>1. 1 \in DOMAIN q /\ q[1] # ""
      <4>1. 1 \in 1 .. n /\ 2 * 1 - 1 = 1
        BY <1>1, <2>1, SMTT(40)
      <4> QED
        BY <1>0, <2>4, <4>1, Zenon
    <3>2. DOMAIN <<>> = {} /\ \A v : <<v>>[1] = v
      OBVIOUS
    <3>3. q # <<>>
      BY <3>1, <3>2, Zenon
    <3>4. q # <<"">>
      BY <3>1, <3>2, Zenon
    <3> QED
      BY <3>3, <3>4, ZenonT(40)
  <2>13. splitHandles(q) = [k \in 1 .. Cardinality(commas) + 1 |->
                              IF Piece(k) = {} THEN "" ELSE q[CHOOSE i \in Piece(k) : TRUE]]
    BY <2>12, Zenon DEF splitHandles, commas
  <2>14. splitHandles(q) = [k \in 1 .. n |-> handles[k]]
    <3> HIDE DEF Piece
    <3> QED
      BY <2>8, <2>11, <2>13, Zenon
  <2> QED
    BY <1>1, <2>14, SMTT(40) DEF q
<1> QED
  BY <1>2, <1>3, SMTT(40)

\* A value comes back from the wire as it was: what was left out had its zero value.
LEMMA Comes ==
  ASSUME NEW zero, NEW v, IsOf(zero, v)
  PROVE  Unmarshal(zero, Marshal(zero, v)) = v
<1> DEFINE wire == Marshal(zero, v)
<1>1. /\ \A f \in DOMAIN zero : f \in DOMAIN wire <=> v[f] # zero[f]
      /\ \A f \in DOMAIN wire : wire[f] = v[f]
  BY SMTT(40) DEF Marshal
<1> HIDE DEF wire
<1>2. Unmarshal(zero, wire) = [f \in DOMAIN zero |-> v[f]]
  BY <1>1, ZenonT(40) DEF Unmarshal
<1> QED
  BY <1>2, ZenonT(40) DEF IsOf, HasFields, wire

\* So does a list of such values, and a struct of them.
LEMMA AllCome ==
  ASSUME NEW zero, NEW vs, AllOf(zero, vs)
  PROVE  UnmarshalAll(zero, MarshalAll(zero, vs)) = vs
<1> DEFINE ws == MarshalAll(zero, vs)
<1>1. DOMAIN ws = DOMAIN vs /\ \A i \in DOMAIN vs : ws[i] = Marshal(zero, vs[i])
  BY SMTT(40) DEF MarshalAll
<1> HIDE DEF ws
<1>2. UnmarshalAll(zero, ws) = [i \in DOMAIN vs |-> Unmarshal(zero, ws[i])]
  BY <1>1, ZenonT(40) DEF UnmarshalAll
<1>3. \A i \in DOMAIN vs : Unmarshal(zero, ws[i]) = vs[i]
  BY <1>1, Comes, ZenonT(40) DEF AllOf
<1>4. UnmarshalAll(zero, ws) = [i \in DOMAIN vs |-> vs[i]]
  BY <1>2, <1>3, ZenonT(40)
<1> QED
  BY <1>4, Zenon DEF AllOf, HasFields, ws

\* A struct of structs, each of which comes back.
LEMMA FieldsCome ==
  ASSUME NEW zero, NEW v, FieldsOf(zero, v)
  PROVE  UnmarshalFields(zero, MarshalFields(zero, v)) = v
<1> DEFINE wire == MarshalFields(zero, v)
<1>1. \A f \in DOMAIN zero : wire[f] = Marshal(zero[f], v[f])
  BY DEF MarshalFields
<1> HIDE DEF wire
<1>2. \A f \in DOMAIN zero : Unmarshal(zero[f], wire[f]) = v[f]
  BY <1>1, Comes, ZenonT(40) DEF FieldsOf
<1>3. UnmarshalFields(zero, wire) = [f \in DOMAIN zero |-> v[f]]
  BY <1>2, Zenon DEF UnmarshalFields
<1> QED
  BY <1>3, ZenonT(40) DEF FieldsOf, IsOf, HasFields, wire

\* A field of a struct may be put into its wire form and taken out of it again.
LEMMA RuleComes ==
  ASSUME NEW rule, IsRule(rule)
  PROVE  UnmarshalRule(MarshalRule(rule)) = rule
<1> DEFINE sent == [rule EXCEPT !.icmps = MarshalAll(ICMPControl, @)]
<1>1. IsOf(NetOutRule, rule)
        /\ UnmarshalAll(ICMPControl, MarshalAll(ICMPControl, rule.icmps)) = rule.icmps
  BY AllCome, ZenonT(40) DEF IsRule
<1>2. IsOf(NetOutRule, sent)
  BY <1>1, ZenonT(40) DEF IsOf, HasFields
<1>3. Unmarshal(NetOutRule, Marshal(NetOutRule, sent)) = sent
  BY <1>2, Comes, ZenonT(40)
<1>4. UnmarshalRule(MarshalRule(rule)) = [sent EXCEPT !.icmps = UnmarshalAll(ICMPControl, @)]
  BY <1>3, ZenonT(40) DEF UnmarshalRule, MarshalRule
<1>5. DOMAIN rule = DOMAIN NetOutRule /\ "icmps" \in DOMAIN rule
        /\ rule = [f \in DOMAIN rule |-> rule[f]]
  BY <1>1, ZenonT(40) DEF IsOf, HasFields, NetOutRule
<1> QED
  BY <1>1, <1>4, <1>5, ZenonT(40)

\* The rules of BulkNetOut, and of a container's spec.
LEMMA RulesCome ==
  ASSUME NEW rules, AreRules(rules)
  PROVE  LET ws == [i \in DOMAIN rules |-> MarshalRule(rules[i])]
         IN  [i \in DOMAIN ws |-> UnmarshalRule(ws[i])] = rules
<1> DEFINE ws == [i \in DOMAIN rules |-> MarshalRule(rules[i])]
<1>1. DOMAIN ws = DOMAIN rules /\ \A i \in DOMAIN rules : ws[i] = MarshalRule(rules[i])
  OBVIOUS
<1> HIDE DEF ws
<1>2. \A i \in DOMAIN rules : UnmarshalRule(ws[i]) = rules[i]
  BY <1>1, RuleComes, ZenonT(40) DEF AreRules
<1>3. [i \in DOMAIN ws |-> UnmarshalRule(ws[i])] = [i \in DOMAIN rules |-> rules[i]]
  BY <1>1, <1>2, ZenonT(40)
<1> QED
  BY <1>3, Zenon DEF AreRules, HasFields, ws

\* The spec of a container reaches the server as the client has it (client.go:62-168).
LEMMA ContainerComes ==
  ASSUME NEW spec, IsContainer(spec)
  PROVE  UnmarshalContainer(MarshalContainer(spec)) = spec
<1> DEFINE rules(list) == [i \in DOMAIN list |-> MarshalRule(list[i])]
           read(list) == [i \in DOMAIN list |-> UnmarshalRule(list[i])]
           sent == [spec EXCEPT !.image = Marshal(ImageRef, @),
                                !.bind_mounts = MarshalAll(BindMount, @),
                                !.limits = MarshalFields(Limits, @),
                                !.netout_rules = rules(@)]
<1>1. /\ Unmarshal(ImageRef, Marshal(ImageRef, spec.image)) = spec.image
      /\ UnmarshalAll(BindMount, MarshalAll(BindMount, spec.bind_mounts)) = spec.bind_mounts
      /\ UnmarshalFields(Limits, MarshalFields(Limits, spec.limits)) = spec.limits
      /\ read(rules(spec.netout_rules)) = spec.netout_rules
  BY Comes, AllCome, FieldsCome, RulesCome, Zenon DEF IsContainer
<1>2. /\ DOMAIN spec = DOMAIN ContainerSpec /\ spec = [f \in DOMAIN spec |-> spec[f]]
      /\ {"image", "bind_mounts", "limits", "netout_rules"} \subseteq DOMAIN spec
  BY DEF IsContainer, IsOf, HasFields, ContainerSpec
<1> HIDE DEF rules, read
<1>3. IsOf(ContainerSpec, sent)
  BY <1>2, Zenon DEF IsOf, HasFields
<1>4. Unmarshal(ContainerSpec, Marshal(ContainerSpec, sent)) = sent
  BY <1>3, Comes, ZenonT(40)
<1>5. UnmarshalContainer(MarshalContainer(spec)) =
        [sent EXCEPT !.image = Unmarshal(ImageRef, @),
                     !.bind_mounts = UnmarshalAll(BindMount, @),
                     !.limits = UnmarshalFields(Limits, @),
                     !.netout_rules = read(@)]
  BY <1>4, Zenon DEF UnmarshalContainer, MarshalContainer, rules, read
<1>6. /\ DOMAIN sent = DOMAIN spec
      /\ sent.image = Marshal(ImageRef, spec.image)
      /\ sent.bind_mounts = MarshalAll(BindMount, spec.bind_mounts)
      /\ sent.limits = MarshalFields(Limits, spec.limits)
      /\ sent.netout_rules = rules(spec.netout_rules)
      /\ \A f \in DOMAIN spec \ {"image", "bind_mounts", "limits", "netout_rules"} :
           sent[f] = spec[f]
  BY <1>2, ZenonT(60)
<1> HIDE DEF sent
<1>7. UnmarshalContainer(MarshalContainer(spec)) = [f \in DOMAIN spec |-> spec[f]]
  BY <1>1, <1>2, <1>5, <1>6, ZenonT(60)
<1> QED
  BY <1>2, <1>7, ZenonT(40)

\* The terminal that a process asks for.
LEMMA TTYComes ==
  ASSUME NEW tty, IsTTY(tty)
  PROVE  UnmarshalTTY(MarshalTTY(tty)) = tty
<1> DEFINE sent == [tty EXCEPT !.window_size = MarshalAll(WindowSize, @)]
<1>1. IsOf(TTYSpec, tty)
        /\ UnmarshalAll(WindowSize, MarshalAll(WindowSize, tty.window_size)) = tty.window_size
  BY AllCome, ZenonT(40) DEF IsTTY
<1>2. IsOf(TTYSpec, sent)
  BY <1>1, ZenonT(40) DEF IsOf, HasFields
<1>3. Unmarshal(TTYSpec, Marshal(TTYSpec, sent)) = sent
  BY <1>2, Comes, ZenonT(40)
<1>4. UnmarshalTTY(MarshalTTY(tty)) = [sent EXCEPT !.window_size = UnmarshalAll(WindowSize, @)]
  BY <1>3, ZenonT(40) DEF UnmarshalTTY, MarshalTTY
<1>5. DOMAIN tty = DOMAIN TTYSpec /\ "window_size" \in DOMAIN tty
        /\ tty = [f \in DOMAIN tty |-> tty[f]]
  BY <1>1, ZenonT(40) DEF IsOf, HasFields, TTYSpec
<1> QED
  BY <1>1, <1>4, <1>5, Zenon

\* The spec of a process reaches the server as the client has it (container.go:136-172).
LEMMA ProcessComes ==
  ASSUME NEW spec, IsProcess(spec)
  PROVE  UnmarshalProcess(MarshalProcess(spec)) = spec
<1> DEFINE limits(list) == [i \in DOMAIN list |-> MarshalFields(ProcessLimits, list[i])]
           readLimits(list) == [i \in DOMAIN list |-> UnmarshalFields(ProcessLimits, list[i])]
           tty(list) == [i \in DOMAIN list |-> MarshalTTY(list[i])]
           readTTY(list) == [i \in DOMAIN list |-> UnmarshalTTY(list[i])]
           sent == [spec EXCEPT !.rlimits = Marshal(ResourceLimits, @),
                                !.limits = limits(@),
                                !.tty = tty(@),
                                !.image = Marshal(ImageRef, @),
                                !.bind_mounts = MarshalAll(BindMount, @)]
<1>1. /\ Unmarshal(ImageRef, Marshal(ImageRef, spec.image)) = spec.image
      /\ UnmarshalAll(BindMount, MarshalAll(BindMount, spec.bind_mounts)) = spec.bind_mounts
      /\ Unmarshal(ResourceLimits, Marshal(ResourceLimits, spec.rlimits)) = spec.rlimits
  BY Comes, AllCome, ZenonT(40) DEF IsProcess
<1>2. readLimits(limits(spec.limits)) = spec.limits
  <2>1. \A i \in DOMAIN spec.limits :
          UnmarshalFields(ProcessLimits, MarshalFields(ProcessLimits, spec.limits[i]))
               = spec.limits[i]
    BY FieldsCome, Zenon DEF IsProcess
  <2>2. readLimits(limits(spec.limits)) = [i \in DOMAIN spec.limits |-> spec.limits[i]]
    BY <2>1, ZenonT(40)
  <2> QED
    BY <2>2, Zenon DEF IsProcess, HasFields
<1>3. readTTY(tty(spec.tty)) = spec.tty
  <2>1. \A i \in DOMAIN spec.tty : UnmarshalTTY(MarshalTTY(spec.tty[i])) = spec.tty[i]
    BY TTYComes, ZenonT(40) DEF IsProcess
  <2>2. readTTY(tty(spec.tty)) = [i \in DOMAIN spec.tty |-> spec.tty[i]]
    BY <2>1, ZenonT(40)
  <2> QED
    BY <2>2, Zenon DEF IsProcess, HasFields
<1>4. /\ DOMAIN spec = DOMAIN ProcessSpec /\ spec = [f \in DOMAIN spec |-> spec[f]]
      /\ {"rlimits", "limits", "tty", "image", "bind_mounts"} \subseteq DOMAIN spec
  BY DEF IsProcess, IsOf, HasFields, ProcessSpec
<1> HIDE DEF limits, readLimits, tty, readTTY
<1>5. IsOf(ProcessSpec, sent)
  BY <1>4, Zenon DEF IsOf, HasFields
<1>6. Unmarshal(ProcessSpec, Marshal(ProcessSpec, sent)) = sent
  BY <1>5, Comes, ZenonT(40)
<1>7. UnmarshalProcess(MarshalProcess(spec)) =
        [sent EXCEPT !.rlimits = Unmarshal(ResourceLimits, @),
                     !.limits = readLimits(@),
                     !.tty = readTTY(@),
                     !.image = Unmarshal(ImageRef, @),
                     !.bind_mounts = UnmarshalAll(BindMount, @)]
  BY <1>6, ZenonT(60) DEF UnmarshalProcess, MarshalProcess, limits, readLimits, tty, readTTY
<1>8. /\ DOMAIN sent = DOMAIN spec
      /\ sent.rlimits = Marshal(ResourceLimits, spec.rlimits) /\ sent.limits = limits(spec.limits)
      /\ sent.tty = tty(spec.tty) /\ sent.image = Marshal(ImageRef, spec.image)
      /\ sent.bind_mounts = MarshalAll(BindMount, spec.bind_mounts)
      /\ \A f \in DOMAIN spec \ {"rlimits", "limits", "tty", "image", "bind_mounts"} :
           sent[f] = spec[f]
  BY <1>4, Zenon
<1> HIDE DEF sent
<1>9. UnmarshalProcess(MarshalProcess(spec)) = [f \in DOMAIN spec |-> spec[f]]
  BY <1>1, <1>2, <1>3, <1>4, <1>7, <1>8, ZenonT(60)
<1> QED
  BY <1>4, <1>9, ZenonT(40)
-----------------------------------------------------------------------------
\* The names of the routes.
LEMMA RouteNames ==
  /\ Routes[1].Name = "Ping"
  /\ Routes[2].Name = "Capacity"
  /\ Routes[3].Name = "List"
  /\ Routes[4].Name = "Create"
  /\ Routes[5].Name = "Info"
  /\ Routes[6].Name = "BulkInfo"
  /\ Routes[7].Name = "BulkMetrics"
  /\ Routes[8].Name = "Destroy"
  /\ Routes[9].Name = "Stop"
  /\ Routes[10].Name = "StreamIn"
  /\ Routes[11].Name = "StreamOut"
  /\ Routes[12].Name = "CurrentBandwidthLimits"
  /\ Routes[13].Name = "CurrentCPULimits"
  /\ Routes[14].Name = "CurrentDiskLimits"
  /\ Routes[15].Name = "CurrentMemoryLimits"
  /\ Routes[16].Name = "NetIn"
  /\ Routes[17].Name = "NetOut"
  /\ Routes[18].Name = "BulkNetOut"
  /\ Routes[19].Name = "Stdout"
  /\ Routes[20].Name = "Stderr"
  /\ Routes[21].Name = "Run"
  /\ Routes[22].Name = "Attach"
  /\ Routes[23].Name = "SetGraceTime"
  /\ Routes[24].Name = "Properties"
  /\ Routes[25].Name = "Property"
  /\ Routes[26].Name = "SetProperty"
  /\ Routes[27].Name = "RemoveProperty"
  /\ Routes[28].Name = "Metrics"
BY ZenonT(60) DEF Routes, Route

\* The handler gets what the client asked for.
Served(asked) ==
  CreateRequest(asked) # NoRequest /\ Handled(CreateRequest(asked)) = Handler(asked)

\* So it does, on each route, when it gives the parameters of the path.
LEMMA Routed ==
  ASSUME NEW k \in 1 .. 28, NEW params, HasFields(Parameters(Routes[k].Name), params),
         NEW query, NEW body, Sendable(do(Routes[k].Name, params, query, body))
  PROVE  Served(do(Routes[k].Name, params, query, body))
<1> DEFINE asked == do(Routes[k].Name, params, query, body)
<1>1. params = [p \in ParamNames(Routes[k].Path) |-> params[p]]
  <2>1. Takes(Routes[k].Path, Parameters(Routes[k].Name))
    BY RouteFacts, Zenon
  <2> QED
    BY <2>1, Zenon DEF Takes, HasFields
<1>2. ServeHTTP(CreateRequest(asked)) = asked
  <2>1. k \in DOMAIN Routes
    BY RouteCount, Zenon
  <2> DEFINE again == do(Routes[k].Name, [p \in ParamNames(Routes[k].Path) |-> params[p]],
          query, body)
  <2>2. ServeHTTP(CreateRequest(again)) = again
    <3>1. \A p \in DOMAIN params : params[p] \in Names
      <4>1. asked.params = params
        BY ZenonT(40) DEF do
      <4> QED
        BY <4>1, ZenonT(40) DEF Sendable
    <3>2. ParamNames(Routes[k].Path) = DOMAIN params
      BY <1>1, ZenonT(40)
    <3> QED
      BY <2>1, <3>1, <3>2, RouteRoundTrip, ZenonT(40)
  <2>3. again = asked
    BY <1>1, ZenonT(40)
  <2> QED
    BY <2>2, <2>3, Zenon
<1>3. CreateRequest(asked) # NoRequest
  <2>1. FindRouteByName(Routes[k].Name) = Routes[k] /\ Routes[k].Method # "none"
    BY FoundByName, RouteFacts, ZenonT(40)
  <2>2. CreateRequest(asked).method = Routes[k].Method
    BY <2>1, ZenonT(40) DEF CreateRequest, RequestFor, do
  <2>3. NoRequest.method = "none"
    BY ZenonT(40) DEF NoRequest
  <2> QED
    BY <2>1, <2>2, <2>3, ZenonT(40)
<1> QED
  BY <1>2, <1>3, Zenon DEF Handled, Served

\* The parameters that the client gives.
LEMMA Given ==
  ASSUME NEW h, NEW x
  PROVE  /\ HasFields({}, Nothing) /\ HasFields({"handle"}, InPath(h))
         /\ HasFields({"handle", "pid"}, [handle |-> h, pid |-> x])
         /\ HasFields({"handle", "key"}, [handle |-> h, key |-> x])
BY DEF HasFields, Nothing, InPath

\* What reaches the backend of a call: the call itself, with the server's grace time if it
\* has none; a Lookup lists all containers.
Reaches(a) ==
  IF Method(a) = "Lookup" THEN <<"Containers", "", Nothing>>
  ELSE IF Method(a) = "Create" /\ Args(a).grace_time = "0"
  THEN <<"Create", "", [Args(a) EXCEPT !.grace_time = containerGraceTime]>>
  ELSE a

\* It does reach it.
Arrives(a) == Request(a) # NoRequest /\ Handled(Request(a)) = Reaches(a)

\* Ping of the client, to handlePing of the server.
LEMMA PingArrives ==
  ASSUME NEW a, IsCall(a), Method(a) = "Ping"
  PROVE  Arrives(a)
<1> DEFINE x == Args(a)
           asked == do("Ping", Nothing, Nothing, Nothing)
<1>1. Asked(a) = asked
  BY Zenon DEF Asked, OfClient, ClientRequest, Ping
<1>0. Sendable(asked)
  BY <1>1, Zenon DEF IsCall
<1>2. Served(asked)
  <2>1. 1 \in 1 .. 28 /\ Routes[1].Name = "Ping" /\ Parameters("Ping") = {}
    BY RouteNames, SMTT(40) DEF Parameters
  <2> QED
    BY <1>0, <2>1, Given, Routed, ZenonT(40)
<1>3. asked.name = "Ping"
  BY ZenonT(40) DEF do
<1> HIDE DEF asked
<1>4. Request(a) # NoRequest /\ Handled(Request(a)) = handlePing(asked)
  BY <1>1, <1>2, <1>3, ZenonT(40) DEF Served, Request, Handler
<1>5. handlePing(asked) = <<"Ping", "", <<>>>>
  BY <1>3, ZenonT(40) DEF handlePing
<1>6. <<>> = x
  BY Zenon DEF IsCall, TakesArgs, WithHandleOnly, Nothing
<1>7. a = <<"Ping", "", x>>
  BY Zenon DEF IsCall, OfClient
<1> QED
  BY <1>4, <1>5, <1>6, <1>7, ZenonT(40) DEF Arrives, Reaches

\* Capacity of the client, to handleCapacity of the server.
LEMMA CapacityArrives ==
  ASSUME NEW a, IsCall(a), Method(a) = "Capacity"
  PROVE  Arrives(a)
<1> DEFINE x == Args(a)
           asked == do("Capacity", Nothing, Nothing, Nothing)
<1>1. Asked(a) = asked
  BY Zenon DEF Asked, OfClient, ClientRequest, Capacity
<1>0. Sendable(asked)
  BY <1>1, Zenon DEF IsCall
<1>2. Served(asked)
  <2>1. 2 \in 1 .. 28 /\ Routes[2].Name = "Capacity" /\ Parameters("Capacity") = {}
    BY RouteNames, SMTT(40) DEF Parameters
  <2> QED
    BY <1>0, <2>1, Given, Routed, ZenonT(40)
<1>3. asked.name = "Capacity"
  BY DEF do
<1> HIDE DEF asked
<1>4. Request(a) # NoRequest /\ Handled(Request(a)) = handleCapacity(asked)
  BY <1>1, <1>2, <1>3, ZenonT(40) DEF Served, Request, Handler
<1>5. handleCapacity(asked) = <<"Capacity", "", <<>>>>
  BY <1>3, ZenonT(40) DEF handleCapacity
<1>6. <<>> = x
  BY Zenon DEF IsCall, TakesArgs, WithHandleOnly, Nothing
<1>7. a = <<"Capacity", "", x>>
  BY Zenon DEF IsCall, OfClient
<1> QED
  BY <1>4, <1>5, <1>6, <1>7, ZenonT(40) DEF Arrives, Reaches

\* Create of the client, to handleCreate of the server.
LEMMA CreateArrives ==
  ASSUME NEW a, IsCall(a), Method(a) = "Create"
  PROVE  Arrives(a)
<1> DEFINE x == Args(a)
           asked == do("Create", Nothing, Nothing, MarshalContainer(x))
<1>1. Asked(a) = asked
  BY Zenon DEF Asked, OfClient, ClientRequest, Create
<1>0. Sendable(asked)
  BY <1>1, Zenon DEF IsCall
<1>2. Served(asked)
  <2>1. 4 \in 1 .. 28 /\ Routes[4].Name = "Create" /\ Parameters("Create") = {}
    BY RouteNames, SMTT(40) DEF Parameters
  <2> QED
    BY <1>0, <2>1, Given, Routed, Zenon
<1>3. asked.name = "Create" /\ asked.body = MarshalContainer(x)
  BY DEF do
<1> HIDE DEF asked
<1>4. Request(a) # NoRequest /\ Handled(Request(a)) = handleCreate(asked)
  BY <1>1, <1>2, <1>3, ZenonT(40) DEF Served, Request, Handler
<1>5. handleCreate(asked) = <<"Create", "",
        [UnmarshalContainer(MarshalContainer(x)) EXCEPT
           !.grace_time = IF @ = "0" THEN containerGraceTime ELSE @]>>
  BY <1>3, ZenonT(40) DEF handleCreate
<1>6. IsContainer(x) /\ UnmarshalContainer(MarshalContainer(x)) = x
  <2>1. IsContainer(x)
    BY Zenon DEF IsCall, TakesArgs, WithHandleOnly
  <2> QED
    BY <2>1, ContainerComes, ZenonT(40)
<1>7. a = <<"Create", "", x>>
  BY Zenon DEF IsCall, OfClient
<1>8. CASE x.grace_time = "0"
  <2>1. Reaches(a) = <<"Create", "", [x EXCEPT !.grace_time = containerGraceTime]>>
    BY <1>8, ZenonT(40) DEF Reaches
  <2> QED
    BY <1>4, <1>5, <1>6, <1>8, <2>1, Zenon DEF Arrives
<1>9. CASE x.grace_time # "0"
  <2>1. Reaches(a) = a
    BY <1>9, ZenonT(40) DEF Reaches
  <2>2. x = [x EXCEPT !.grace_time = x.grace_time]
    BY <1>6, ZenonT(40) DEF IsContainer, IsOf, HasFields
  <2> QED
    BY <1>4, <1>5, <1>6, <1>7, <1>9, <2>1, <2>2, ZenonT(60) DEF Arrives
<1> QED
  BY <1>8, <1>9, ZenonT(40)

\* Containers of the client, to handleList of the server.
LEMMA ContainersArrives ==
  ASSUME NEW a, IsCall(a), Method(a) = "Containers"
  PROVE  Arrives(a)
<1> DEFINE x == Args(a)
           asked == do("List", Nothing, x, Nothing)
<1>1. Asked(a) = asked
  BY Zenon DEF Asked, OfClient, ClientRequest, List
<1>0. Sendable(asked)
  BY <1>1, Zenon DEF IsCall
<1>2. Served(asked)
  <2>1. 3 \in 1 .. 28 /\ Routes[3].Name = "List" /\ Parameters("List") = {}
    BY RouteNames, SMTT(40) DEF Parameters
  <2> QED
    BY <1>0, <2>1, Given, Routed, ZenonT(40)
<1>3. asked.name = "List" /\ asked.query = x
  BY DEF do
<1> HIDE DEF asked
<1>4. Request(a) # NoRequest /\ Handled(Request(a)) = handleList(asked)
  BY <1>1, <1>2, <1>3, ZenonT(40) DEF Served, Request, Handler
<1>5. handleList(asked) = <<"Containers", "", x>>
  BY <1>3, ZenonT(40) DEF handleList
<1>6. a = <<"Containers", "", x>>
  BY Zenon DEF IsCall, OfClient
<1> QED
  BY <1>4, <1>5, <1>6, Zenon DEF Arrives, Reaches

\* Lookup of the client, to handleList of the server.
LEMMA LookupArrives ==
  ASSUME NEW a, IsCall(a), Method(a) = "Lookup"
  PROVE  Arrives(a)
<1> DEFINE asked == do("List", Nothing, Nothing, Nothing)
<1>1. Asked(a) = asked
  BY Zenon DEF Asked, OfClient, ClientRequest, List
<1>0. Sendable(asked)
  BY <1>1, Zenon DEF IsCall
<1>2. Served(asked)
  <2>1. 3 \in 1 .. 28 /\ Routes[3].Name = "List" /\ Parameters("List") = {}
    BY RouteNames, SMTT(40) DEF Parameters
  <2> QED
    BY <1>0, <2>1, Given, Routed, ZenonT(40)
<1>3. asked.name = "List" /\ asked.query = Nothing
  BY DEF do
<1> HIDE DEF asked
<1>4. Request(a) # NoRequest /\ Handled(Request(a)) = handleList(asked)
  BY <1>1, <1>2, <1>3, ZenonT(40) DEF Served, Request, Handler
<1>5. handleList(asked) = <<"Containers", "", Nothing>>
  BY <1>3, SMTT(40) DEF handleList
<1> QED
  BY <1>4, <1>5, Zenon DEF Arrives, Reaches

\* BulkInfo of the client, to handleBulkInfo of the server.
LEMMA BulkInfoArrives ==
  ASSUME NEW a, IsCall(a), Method(a) = "BulkInfo"
  PROVE  Arrives(a)
<1> DEFINE x == Args(a)
           asked == do("BulkInfo", Nothing, [handles |-> Join(x)], Nothing)
<1>1. Asked(a) = asked
  BY Zenon DEF Asked, OfClient, ClientRequest, BulkInfo
<1>0. Sendable(asked)
  BY <1>1, Zenon DEF IsCall
<1>2. Served(asked)
  <2>1. 6 \in 1 .. 28 /\ Routes[6].Name = "BulkInfo" /\ Parameters("BulkInfo") = {}
    BY RouteNames, SMTT(40) DEF Parameters
  <2> QED
    BY <1>0, <2>1, Given, Routed, ZenonT(40)
<1>3. asked.name = "BulkInfo" /\ asked.query = [handles |-> Join(x)]
  BY DEF do
<1> HIDE DEF asked
<1>4. Request(a) # NoRequest /\ Handled(Request(a)) = handleBulkInfo(asked)
  BY <1>1, <1>2, <1>3, ZenonT(40) DEF Served, Request, Handler
<1>5. handleBulkInfo(asked) = <<"BulkInfo", "", splitHandles(Join(x))>>
  BY <1>3, SMTT(40) DEF handleBulkInfo
<1>6. splitHandles(Join(x)) = x
  <2>1. AreHandles(x)
    BY Zenon DEF IsCall, TakesArgs, WithHandleOnly
  <2> QED
    BY <2>1, HandlesCome, Zenon
<1>7. a = <<"BulkInfo", "", x>>
  BY Zenon DEF IsCall, OfClient
<1> QED
  BY <1>4, <1>5, <1>6, <1>7, ZenonT(40) DEF Arrives, Reaches

\* BulkMetrics of the client, to handleBulkMetrics of the server.
LEMMA BulkMetricsArrives ==
  ASSUME NEW a, IsCall(a), Method(a) = "BulkMetrics"
  PROVE  Arrives(a)
<1> DEFINE x == Args(a)
           asked == do("BulkMetrics", Nothing, [handles |-> Join(x)], Nothing)
<1>1. Asked(a) = asked
  BY Zenon DEF Asked, OfClient, ClientRequest, BulkMetrics
<1>0. Sendable(asked)
  BY <1>1, Zenon DEF IsCall
<1>2. Served(asked)
  <2>1. 7 \in 1 .. 28 /\ Routes[7].Name = "BulkMetrics" /\ Parameters("BulkMetrics") = {}
    BY RouteNames, SMTT(40) DEF Parameters
  <2> QED
    BY <1>0, <2>1, Given, Routed, ZenonT(40)
<1>3. asked.name = "BulkMetrics" /\ asked.query = [handles |-> Join(x)]
  BY DEF do
<1> HIDE DEF asked
<1>4. Request(a) # NoRequest /\ Handled(Request(a)) = handleBulkMetrics(asked)
  BY <1>1, <1>2, <1>3, ZenonT(40) DEF Served, Request, Handler
<1>5. handleBulkMetrics(asked) = <<"BulkMetrics", "", splitHandles(Join(x))>>
  BY <1>3, SMTT(40) DEF handleBulkMetrics
<1>6. splitHandles(Join(x)) = x
  <2>1. AreHandles(x)
    BY Zenon DEF IsCall, TakesArgs, WithHandleOnly
  <2> QED
    BY <2>1, HandlesCome, Zenon
<1>7. a = <<"BulkMetrics", "", x>>
  BY Zenon DEF IsCall, OfClient
<1> QED
  BY <1>4, <1>5, <1>6, <1>7, Zenon DEF Arrives, Reaches

\* Destroy of the client, to handleDestroy of the server.
LEMMA DestroyArrives ==
  ASSUME NEW a, IsCall(a), Method(a) = "Destroy"
  PROVE  Arrives(a)
<1> DEFINE h == Handle(a)
           x == Args(a)
           asked == do("Destroy", InPath(h), Nothing, Nothing)
<1>1. Asked(a) = asked
  BY Zenon DEF Asked, OfClient, ClientRequest, Destroy
<1>0. Sendable(asked)
  BY <1>1, Zenon DEF IsCall
<1>2. Served(asked)
  <2>1. 8 \in 1 .. 28 /\ Routes[8].Name = "Destroy" /\ Parameters("Destroy") = {"handle"}
    BY RouteNames DEF Parameters
  <2> QED
    BY <1>0, <2>1, Given, Routed, ZenonT(40)
<1>3. asked.name = "Destroy" /\ asked.params = InPath(h)
  BY DEF do
<1> HIDE DEF asked
<1>4. Request(a) # NoRequest /\ Handled(Request(a)) = handleDestroy(asked)
  BY <1>1, <1>2, <1>3, Zenon DEF Served, Request, Handler
<1>5. handleDestroy(asked) = <<"Destroy", h, <<>>>>
  BY <1>3 DEF handleDestroy, Of, FormValue, InPath
<1>6. <<>> = x
  BY Zenon DEF IsCall, TakesArgs, WithHandleOnly, Nothing
<1>7. a = <<"Destroy", h, x>>
  BY DEF IsCall
<1> QED
  BY <1>4, <1>5, <1>6, <1>7, ZenonT(40) DEF Arrives, Reaches

\* Info of the client, to handleInfo of the server.
LEMMA InfoArrives ==
  ASSUME NEW a, IsCall(a), Method(a) = "Info"
  PROVE  Arrives(a)
<1> DEFINE h == Handle(a)
           x == Args(a)
           asked == do("Info", InPath(h), Nothing, Nothing)
<1>1. Asked(a) = asked
  BY Zenon DEF Asked, OfClient, ContainerRequest, Info
<1>0. Sendable(asked)
  BY <1>1, Zenon DEF IsCall
<1>2. Served(asked)
  <2>1. 5 \in 1 .. 28 /\ Routes[5].Name = "Info" /\ Parameters("Info") = {"handle"}
    BY RouteNames DEF Parameters
  <2> QED
    BY <1>0, <2>1, Given, Routed, ZenonT(60)
<1>3. asked.name = "Info" /\ asked.params = InPath(h)
  BY DEF do
<1> HIDE DEF asked
<1>4. Request(a) # NoRequest /\ Handled(Request(a)) = handleInfo(asked)
  BY <1>1, <1>2, <1>3, Zenon DEF Served, Request, Handler
<1>5. handleInfo(asked) = <<"Info", h, <<>>>>
  BY <1>3 DEF handleInfo, Of, FormValue, InPath
<1>6. <<>> = x
  BY Zenon DEF IsCall, TakesArgs, WithHandleOnly, Nothing
<1>7. a = <<"Info", h, x>>
  BY Zenon DEF IsCall
<1> QED
  BY <1>4, <1>5, <1>6, <1>7, Zenon DEF Arrives, Reaches

\* Metrics of the client, to handleMetrics of the server.
LEMMA MetricsArrives ==
  ASSUME NEW a, IsCall(a), Method(a) = "Metrics"
  PROVE  Arrives(a)
<1> DEFINE h == Handle(a)
           x == Args(a)
           asked == do("Metrics", InPath(h), Nothing, Nothing)
<1>1. Asked(a) = asked
  BY Zenon DEF Asked, OfClient, ContainerRequest, Metrics
<1>0. Sendable(asked)
  BY <1>1, Zenon DEF IsCall
<1>2. Served(asked)
  <2>1. 28 \in 1 .. 28 /\ Routes[28].Name = "Metrics" /\ Parameters("Metrics") = {"handle"}
    BY RouteNames DEF Parameters
  <2> QED
    BY <1>0, <2>1, Given, Routed, Zenon
<1>3. asked.name = "Metrics" /\ asked.params = InPath(h)
  BY DEF do
<1> HIDE DEF asked
<1>4. Request(a) # NoRequest /\ Handled(Request(a)) = handleMetrics(asked)
  BY <1>1, <1>2, <1>3, Zenon DEF Served, Request, Handler
<1>5. handleMetrics(asked) = <<"Metrics", h, <<>>>>
  BY <1>3 DEF handleMetrics, Of, FormValue, InPath
<1>6. <<>> = x
  BY Zenon DEF IsCall, TakesArgs, WithHandleOnly, Nothing
<1>7. a = <<"Metrics", h, x>>
  BY Zenon DEF IsCall
<1> QED
  BY <1>4, <1>5, <1>6, <1>7, Zenon DEF Arrives, Reaches

\* Properties of the client, to handleProperties of the server.
LEMMA PropertiesArrives ==
  ASSUME NEW a, IsCall(a), Method(a) = "Properties"
  PROVE  Arrives(a)
<1> DEFINE h == Handle(a)
           x == Args(a)
           asked == do("Properties", InPath(h), Nothing, Nothing)
<1>1. Asked(a) = asked
  BY Zenon DEF Asked, OfClient, ContainerRequest, Properties
<1>0. Sendable(asked)
  BY <1>1, Zenon DEF IsCall
<1>2. Served(asked)
  <2>1. 24 \in 1 .. 28 /\ Routes[24].Name = "Properties" /\ Parameters("Properties") = {"handle"}
    BY RouteNames DEF Parameters
  <2> QED
    BY <1>0, <2>1, Given, Routed, Zenon
<1>3. asked.name = "Properties" /\ asked.params = InPath(h)
  BY DEF do
<1> HIDE DEF asked
<1>4. Request(a) # NoRequest /\ Handled(Request(a)) = handleProperties(asked)
  BY <1>1, <1>2, <1>3, Zenon DEF Served, Request, Handler
<1>5. handleProperties(asked) = <<"Properties", h, <<>>>>
  BY <1>3 DEF handleProperties, Of, FormValue, InPath
<1>6. <<>> = x
  BY Zenon DEF IsCall, TakesArgs, WithHandleOnly, Nothing
<1>7. a = <<"Properties", h, x>>
  BY Zenon DEF IsCall
<1> QED
  BY <1>4, <1>5, <1>6, <1>7, Zenon DEF Arrives, Reaches

\* CurrentBandwidthLimits of the client, to handleCurrentBandwidthLimits of the server.
LEMMA CurrentBandwidthLimitsArrives ==
  ASSUME NEW a, IsCall(a), Method(a) = "CurrentBandwidthLimits"
  PROVE  Arrives(a)
<1> DEFINE h == Handle(a)
           x == Args(a)
           asked == do("CurrentBandwidthLimits", InPath(h), Nothing, Nothing)
<1>1. Asked(a) = asked
  BY Zenon DEF Asked, OfClient, ContainerRequest, CurrentBandwidthLimits
<1>0. Sendable(asked)
  BY <1>1, Zenon DEF IsCall
<1>2. Served(asked)
  <2>1. 12 \in 1 .. 28 /\ Routes[12].Name = "CurrentBandwidthLimits"
          /\ Parameters("CurrentBandwidthLimits") = {"handle"}
    BY RouteNames DEF Parameters
  <2> QED
    BY <1>0, <2>1, Given, Routed, Zenon
<1>3. asked.name = "CurrentBandwidthLimits" /\ asked.params = InPath(h)
  BY DEF do
<1> HIDE DEF asked
<1>4. Request(a) # NoRequest /\ Handled(Request(a)) = handleCurrentBandwidthLimits(asked)
  BY <1>1, <1>2, <1>3, Zenon DEF Served, Request, Handler
<1>5. handleCurrentBandwidthLimits(asked) = <<"CurrentBandwidthLimits", h, <<>>>>
  BY <1>3 DEF handleCurrentBandwidthLimits, Of, FormValue, InPath
<1>6. <<>> = x
  BY Zenon DEF IsCall, TakesArgs, WithHandleOnly, Nothing
<1>7. a = <<"CurrentBandwidthLimits", h, x>>
  BY Zenon DEF IsCall
<1> QED
  BY <1>4, <1>5, <1>6, <1>7, Zenon DEF Arrives, Reaches

\* CurrentCPULimits of the client, to handleCurrentCPULimits of the server.
LEMMA CurrentCPULimitsArrives ==
  ASSUME NEW a, IsCall(a), Method(a) = "CurrentCPULimits"
  PROVE  Arrives(a)
<1> DEFINE h == Handle(a)
           x == Args(a)
           asked == do("CurrentCPULimits", InPath(h), Nothing, Nothing)
<1>1. Asked(a) = asked
  BY Zenon DEF Asked, OfClient, ContainerRequest, CurrentCPULimits
<1>0. Sendable(asked)
  BY <1>1, Zenon DEF IsCall
<1>2. Served(asked)
  <2>1. 13 \in 1 .. 28 /\ Routes[13].Name = "CurrentCPULimits"
          /\ Parameters("CurrentCPULimits") = {"handle"}
    BY RouteNames DEF Parameters
  <2> QED
    BY <1>0, <2>1, Given, Routed, Zenon
<1>3. asked.name = "CurrentCPULimits" /\ asked.params = InPath(h)
  BY DEF do
<1> HIDE DEF asked
<1>4. Request(a) # NoRequest /\ Handled(Request(a)) = handleCurrentCPULimits(asked)
  BY <1>1, <1>2, <1>3, Zenon DEF Served, Request, Handler
<1>5. handleCurrentCPULimits(asked) = <<"CurrentCPULimits", h, <<>>>>
  BY <1>3 DEF handleCurrentCPULimits, Of, FormValue, InPath
<1>6. <<>> = x
  BY Zenon DEF IsCall, TakesArgs, WithHandleOnly, Nothing
<1>7. a = <<"CurrentCPULimits", h, x>>
  BY Zenon DEF IsCall
<1> QED
  BY <1>4, <1>5, <1>6, <1>7, Zenon DEF Arrives, Reaches

\* CurrentDiskLimits of the client, to handleCurrentDiskLimits of the server.
LEMMA CurrentDiskLimitsArrives ==
  ASSUME NEW a, IsCall(a), Method(a) = "CurrentDiskLimits"
  PROVE  Arrives(a)
<1> DEFINE h == Handle(a)
           x == Args(a)
           asked == do("CurrentDiskLimits", InPath(h), Nothing, Nothing)
<1>1. Asked(a) = asked
  BY Zenon DEF Asked, OfClient, ContainerRequest, CurrentDiskLimits
<1>0. Sendable(asked)
  BY <1>1, Zenon DEF IsCall
<1>2. Served(asked)
  <2>1. 14 \in 1 .. 28 /\ Routes[14].Name = "CurrentDiskLimits"
          /\ Parameters("CurrentDiskLimits") = {"handle"}
    BY RouteNames DEF Parameters
  <2> QED
    BY <1>0, <2>1, Given, Routed, ZenonT(40)
<1>3. asked.name = "CurrentDiskLimits" /\ asked.params = InPath(h)
  BY DEF do
<1> HIDE DEF asked
<1>4. Request(a) # NoRequest /\ Handled(Request(a)) = handleCurrentDiskLimits(asked)
  BY <1>1, <1>2, <1>3, Zenon DEF Served, Request, Handler
<1>5. handleCurrentDiskLimits(asked) = <<"CurrentDiskLimits", h, <<>>>>
  BY <1>3 DEF handleCurrentDiskLimits, Of, FormValue, InPath
<1>6. <<>> = x
  BY Zenon DEF IsCall, TakesArgs, WithHandleOnly, Nothing
<1>7. a = <<"CurrentDiskLimits", h, x>>
  BY Zenon DEF IsCall
<1> QED
  BY <1>4, <1>5, <1>6, <1>7, Zenon DEF Arrives, Reaches

\* CurrentMemoryLimits of the client, to handleCurrentMemoryLimits of the server.
LEMMA CurrentMemoryLimitsArrives ==
  ASSUME NEW a, IsCall(a), Method(a) = "CurrentMemoryLimits"
  PROVE  Arrives(a)
<1> DEFINE h == Handle(a)
           x == Args(a)
           asked == do("CurrentMemoryLimits", InPath(h), Nothing, Nothing)
<1>1. Asked(a) = asked
  BY Zenon DEF Asked, OfClient, ContainerRequest, CurrentMemoryLimits
<1>0. Sendable(asked)
  BY <1>1, Zenon DEF IsCall
<1>2. Served(asked)
  <2>1. 15 \in 1 .. 28 /\ Routes[15].Name = "CurrentMemoryLimits"
          /\ Parameters("CurrentMemoryLimits") = {"handle"}
    BY RouteNames, SMTT(40) DEF Parameters
  <2> QED
    BY <1>0, <2>1, Given, Routed, Zenon
<1>3. asked.name = "CurrentMemoryLimits" /\ asked.params = InPath(h)
  BY DEF do
<1> HIDE DEF asked
<1>4. Request(a) # NoRequest /\ Handled(Request(a)) = handleCurrentMemoryLimits(asked)
  BY <1>1, <1>2, <1>3, Zenon DEF Served, Request, Handler
<1>5. handleCurrentMemoryLimits(asked) = <<"CurrentMemoryLimits", h, <<>>>>
  BY <1>3 DEF handleCurrentMemoryLimits, Of, FormValue, InPath
<1>6. <<>> = x
  BY Zenon DEF IsCall, TakesArgs, WithHandleOnly, Nothing
<1>7. a = <<"CurrentMemoryLimits", h, x>>
  BY Zenon DEF IsCall
<1> QED
  BY <1>4, <1>5, <1>6, <1>7, Zenon DEF Arrives, Reaches

\* Stop of the client, to handleStop of the server.
LEMMA StopArrives ==
  ASSUME NEW a, IsCall(a), Method(a) = "Stop"
  PROVE  Arrives(a)
<1> DEFINE h == Handle(a)
           x == Args(a)
           asked == do("Stop", InPath(h), Nothing, [kill |-> x.kill])
<1>1. Asked(a) = asked
  BY Zenon DEF Asked, OfClient, ContainerRequest, Stop
<1>0. Sendable(asked)
  BY <1>1, Zenon DEF IsCall
<1>2. Served(asked)
  <2>1. 9 \in 1 .. 28 /\ Routes[9].Name = "Stop" /\ Parameters("Stop") = {"handle"}
    BY RouteNames, SMTT(40) DEF Parameters
  <2> QED
    BY <1>0, <2>1, Given, Routed, Zenon
<1>3. asked.name = "Stop" /\ asked.params = InPath(h) /\ asked.body = [kill |-> x.kill]
  BY DEF do
<1> HIDE DEF asked
<1>4. Request(a) # NoRequest /\ Handled(Request(a)) = handleStop(asked)
  BY <1>1, <1>2, <1>3, Zenon DEF Served, Request, Handler
<1>5. handleStop(asked) = <<"Stop", h, [kill |-> x.kill]>>
  BY <1>3 DEF handleStop, Of, FormValue, InPath
<1>6. [kill |-> x.kill] = x
  <2>1. HasFields({"kill"}, x)
    BY Zenon DEF IsCall, TakesArgs, WithHandleOnly
  <2> QED
    BY <2>1 DEF HasFields
<1>7. a = <<"Stop", h, x>>
  BY Zenon DEF IsCall
<1> QED
  BY <1>4, <1>5, <1>6, <1>7, Zenon DEF Arrives, Reaches

\* StreamIn of the client, to handleStreamIn of the server.
LEMMA StreamInArrives ==
  ASSUME NEW a, IsCall(a), Method(a) = "StreamIn"
  PROVE  Arrives(a)
<1> DEFINE h == Handle(a)
           x == Args(a)
           asked == do("StreamIn", InPath(h), [user |-> x.user, destination |-> x.path],
                [tar |-> x.tar])
<1>1. Asked(a) = asked
  BY Zenon DEF Asked, OfClient, ContainerRequest, StreamIn
<1>0. Sendable(asked)
  BY <1>1, Zenon DEF IsCall
<1>2. Served(asked)
  <2>1. 10 \in 1 .. 28 /\ Routes[10].Name = "StreamIn" /\ Parameters("StreamIn") = {"handle"}
    BY RouteNames, SMTT(40) DEF Parameters
  <2> QED
    BY <1>0, <2>1, Given, Routed, Zenon
<1>3. asked.name = "StreamIn" /\ asked.params = InPath(h)
        /\ asked.query = [user |-> x.user, destination |-> x.path] /\ asked.body = [tar |-> x.tar]
  BY DEF do
<1> HIDE DEF asked
<1>4. Request(a) # NoRequest /\ Handled(Request(a)) = handleStreamIn(asked)
  BY <1>1, <1>2, <1>3, Zenon DEF Served, Request, Handler
<1>5. handleStreamIn(asked) = <<"StreamIn", h, [user |-> x.user, path |-> x.path, tar |-> x.tar]>>
  BY <1>3 DEF handleStreamIn, Of, FormValue, InPath
<1>6. [user |-> x.user, path |-> x.path, tar |-> x.tar] = x
  <2>1. HasFields({"user", "path", "tar"}, x)
    BY Zenon DEF IsCall, TakesArgs, WithHandleOnly
  <2> QED
    BY <2>1 DEF HasFields
<1>7. a = <<"StreamIn", h, x>>
  BY Zenon DEF IsCall
<1> QED
  BY <1>4, <1>5, <1>6, <1>7, Zenon DEF Arrives, Reaches

\* StreamOut of the client, to handleStreamOut of the server.
LEMMA StreamOutArrives ==
  ASSUME NEW a, IsCall(a), Method(a) = "StreamOut"
  PROVE  Arrives(a)
<1> DEFINE h == Handle(a)
           x == Args(a)
           asked == do("StreamOut", InPath(h), [user |-> x.user, source |-> x.path], Nothing)
<1>1. Asked(a) = asked
  BY Zenon DEF Asked, OfClient, ContainerRequest, StreamOut
<1>0. Sendable(asked)
  BY <1>1, Zenon DEF IsCall
<1>2. Served(asked)
  <2>1. 11 \in 1 .. 28 /\ Routes[11].Name = "StreamOut" /\ Parameters("StreamOut") = {"handle"}
    BY RouteNames, SMTT(40) DEF Parameters
  <2> QED
    BY <1>0, <2>1, Given, Routed, Zenon
<1>3. asked.name = "StreamOut" /\ asked.params = InPath(h)
        /\ asked.query = [user |-> x.user, source |-> x.path]
  BY DEF do
<1> HIDE DEF asked
<1>4. Request(a) # NoRequest /\ Handled(Request(a)) = handleStreamOut(asked)
  BY <1>1, <1>2, <1>3, Zenon DEF Served, Request, Handler
<1>5. handleStreamOut(asked) = <<"StreamOut", h, [user |-> x.user, path |-> x.path]>>
  BY <1>3 DEF handleStreamOut, Of, FormValue, InPath
<1>6. [user |-> x.user, path |-> x.path] = x
  <2>1. HasFields({"user", "path"}, x)
    BY Zenon DEF IsCall, TakesArgs, WithHandleOnly
  <2> QED
    BY <2>1 DEF HasFields
<1>7. a = <<"StreamOut", h, x>>
  BY Zenon DEF IsCall
<1> QED
  BY <1>4, <1>5, <1>6, <1>7, Zenon DEF Arrives, Reaches

\* Run of the client, to handleRun of the server.
LEMMA RunArrives ==
  ASSUME NEW a, IsCall(a), Method(a) = "Run"
  PROVE  Arrives(a)
<1> DEFINE h == Handle(a)
           x == Args(a)
           asked == do("Run", InPath(h), Nothing, MarshalProcess(x))
<1>1. Asked(a) = asked
  BY Zenon DEF Asked, OfClient, ContainerRequest, Run
<1>0. Sendable(asked)
  BY <1>1, Zenon DEF IsCall
<1>2. Served(asked)
  <2>1. 21 \in 1 .. 28 /\ Routes[21].Name = "Run" /\ Parameters("Run") = {"handle"}
    BY RouteNames, SMTT(40) DEF Parameters
  <2> QED
    BY <1>0, <2>1, Given, Routed, Zenon
<1>3. asked.name = "Run" /\ asked.params = InPath(h) /\ asked.body = MarshalProcess(x)
  BY DEF do
<1> HIDE DEF asked
<1>4. Request(a) # NoRequest /\ Handled(Request(a)) = handleRun(asked)
  BY <1>1, <1>2, <1>3, Zenon DEF Served, Request, Handler
<1>5. handleRun(asked) = <<"Run", h, UnmarshalProcess(MarshalProcess(x))>>
  BY <1>3 DEF handleRun, Of, FormValue, InPath
<1>6. UnmarshalProcess(MarshalProcess(x)) = x
  <2>1. IsProcess(x)
    BY Zenon DEF IsCall, TakesArgs, WithHandleOnly
  <2> QED
    BY <2>1, ProcessComes, Zenon
<1>7. a = <<"Run", h, x>>
  BY Zenon DEF IsCall
<1> QED
  BY <1>4, <1>5, <1>6, <1>7, Zenon DEF Arrives, Reaches

\* Attach of the client, to handleAttach of the server.
LEMMA AttachArrives ==
  ASSUME NEW a, IsCall(a), Method(a) = "Attach"
  PROVE  Arrives(a)
<1> DEFINE h == Handle(a)
           x == Args(a)
           asked == do("Attach", [handle |-> h, pid |-> x.pid], Nothing, Nothing)
<1>1. Asked(a) = asked
  BY Zenon DEF Asked, OfClient, ContainerRequest, Attach
<1>0. Sendable(asked)
  BY <1>1, Zenon DEF IsCall
<1>2. Served(asked)
  <2>1. 22 \in 1 .. 28 /\ Routes[22].Name = "Attach" /\ Parameters("Attach") = {"handle", "pid"}
    BY RouteNames DEF Parameters
  <2> QED
    BY <1>0, <2>1, Given, Routed, Zenon
<1>3. asked.name = "Attach" /\ asked.params = [handle |-> h, pid |-> x.pid]
  BY DEF do
<1> HIDE DEF asked
<1>4. Request(a) # NoRequest /\ Handled(Request(a)) = handleAttach(asked)
  BY <1>1, <1>2, <1>3, Zenon DEF Served, Request, Handler
<1>5. handleAttach(asked) = <<"Attach", h, [pid |-> x.pid]>>
  BY <1>3 DEF handleAttach, Of, FormValue, InPath
<1>6. [pid |-> x.pid] = x
  <2>1. HasFields({"pid"}, x)
    BY Zenon DEF IsCall, TakesArgs, WithHandleOnly
  <2> QED
    BY <2>1, SMTT(40) DEF HasFields
<1>7. a = <<"Attach", h, x>>
  BY Zenon DEF IsCall
<1> QED
  BY <1>4, <1>5, <1>6, <1>7, Zenon DEF Arrives, Reaches

\* NetIn of the client, to handleNetIn of the server.
LEMMA NetInArrives ==
  ASSUME NEW a, IsCall(a), Method(a) = "NetIn"
  PROVE  Arrives(a)
<1> DEFINE h == Handle(a)
           x == Args(a)
           sent == [handle |-> h, host_port |-> x.host_port, container_port |-> x.container_port]
           asked == do("NetIn", InPath(h), Nothing, Marshal(NetInRequest, sent))
<1>1. Asked(a) = asked
  BY Zenon DEF Asked, OfClient, ContainerRequest, NetIn
<1>0. Sendable(asked)
  BY <1>1, Zenon DEF IsCall
<1>2. Served(asked)
  <2>1. 16 \in 1 .. 28 /\ Routes[16].Name = "NetIn" /\ Parameters("NetIn") = {"handle"}
    BY RouteNames DEF Parameters
  <2> QED
    BY <1>0, <2>1, Given, Routed, Zenon
<1>3. asked.name = "NetIn" /\ asked.params = InPath(h)
        /\ asked.body = Marshal(NetInRequest, sent)
  BY DEF do
<1> HIDE DEF asked
<1>4. Request(a) # NoRequest /\ Handled(Request(a)) = handleNetIn(asked)
  BY <1>1, <1>2, <1>3, ZenonT(40) DEF Served, Request, Handler
<1>5. handleNetIn(asked)
        = <<"NetIn", h, [host_port |-> x.host_port, container_port |-> x.container_port]>>
  <2>1. IsOf(NetInRequest, sent)
    BY DEF IsOf, HasFields, NetInRequest
  <2>2. Unmarshal(NetInRequest, asked.body) = sent
    BY <1>3, <2>1, Comes, ZenonT(40)
  <2> QED
    BY <1>3, <2>2, SMTT(40) DEF handleNetIn, Of, FormValue, InPath
<1>6. [host_port |-> x.host_port, container_port |-> x.container_port] = x
  <2>1. HasFields({"host_port", "container_port"}, x)
    BY Zenon DEF IsCall, TakesArgs, WithHandleOnly
  <2> QED
    BY <2>1 DEF HasFields
<1>7. a = <<"NetIn", h, x>>
  BY Zenon DEF IsCall
<1> QED
  BY <1>4, <1>5, <1>6, <1>7, Zenon DEF Arrives, Reaches

\* NetOut of the client, to handleNetOut of the server.
LEMMA NetOutArrives ==
  ASSUME NEW a, IsCall(a), Method(a) = "NetOut"
  PROVE  Arrives(a)
<1> DEFINE h == Handle(a)
           x == Args(a)
           asked == do("NetOut", InPath(h), Nothing, MarshalRule(x))
<1>1. Asked(a) = asked
  BY Zenon DEF Asked, OfClient, ContainerRequest, NetOut
<1>0. Sendable(asked)
  BY <1>1, Zenon DEF IsCall
<1>2. Served(asked)
  <2>1. 17 \in 1 .. 28 /\ Routes[17].Name = "NetOut" /\ Parameters("NetOut") = {"handle"}
    BY RouteNames DEF Parameters
  <2> QED
    BY <1>0, <2>1, Given, Routed, Zenon
<1>3. asked.name = "NetOut" /\ asked.params = InPath(h) /\ asked.body = MarshalRule(x)
  BY DEF do
<1> HIDE DEF asked
<1>4. Request(a) # NoRequest /\ Handled(Request(a)) = handleNetOut(asked)
  BY <1>1, <1>2, <1>3, Zenon DEF Served, Request, Handler
<1>5. handleNetOut(asked) = <<"NetOut", h, UnmarshalRule(MarshalRule(x))>>
  BY <1>3 DEF handleNetOut, Of, FormValue, InPath
<1>6. UnmarshalRule(MarshalRule(x)) = x
  <2>1. IsRule(x)
    BY Zenon DEF IsCall, TakesArgs, WithHandleOnly
  <2> QED
    BY <2>1, RuleComes, Zenon
<1>7. a = <<"NetOut", h, x>>
  BY Zenon DEF IsCall
<1> QED
  BY <1>4, <1>5, <1>6, <1>7, Zenon DEF Arrives, Reaches

\* BulkNetOut of the client, to handleBulkNetOut of the server.
LEMMA BulkNetOutArrives ==
  ASSUME NEW a, IsCall(a), Method(a) = "BulkNetOut"
  PROVE  Arrives(a)
<1> DEFINE h == Handle(a)
           x == Args(a)
           asked == do("BulkNetOut", InPath(h), Nothing, [i \in DOMAIN x |-> MarshalRule(x[i])])
<1>1. Asked(a) = asked
  BY Zenon DEF Asked, OfClient, ContainerRequest, BulkNetOut
<1>0. Sendable(asked)
  BY <1>1, Zenon DEF IsCall
<1>2. Served(asked)
  <2>1. 18 \in 1 .. 28 /\ Routes[18].Name = "BulkNetOut" /\ Parameters("BulkNetOut") = {"handle"}
    BY RouteNames DEF Parameters
  <2> QED
    BY <1>0, <2>1, Given, Routed, Zenon
<1>3. asked.name = "BulkNetOut" /\ asked.params = InPath(h)
        /\ asked.body = [i \in DOMAIN x |-> MarshalRule(x[i])]
  BY DEF do
<1> HIDE DEF asked
<1>4. Request(a) # NoRequest /\ Handled(Request(a)) = handleBulkNetOut(asked)
  BY <1>1, <1>2, <1>3, Zenon DEF Served, Request, Handler
<1>5. handleBulkNetOut(asked)
        = <<"BulkNetOut", h, [i \in DOMAIN asked.body |-> UnmarshalRule(asked.body[i])]>>
  BY <1>3 DEF handleBulkNetOut, Of, FormValue, InPath
<1>6. [i \in DOMAIN asked.body |-> UnmarshalRule(asked.body[i])] = x
  <2> DEFINE ws == [i \in DOMAIN x |-> MarshalRule(x[i])]
  <2>1. AreRules(x)
    BY Zenon DEF IsCall, TakesArgs, WithHandleOnly
  <2>2. [i \in DOMAIN ws |-> UnmarshalRule(ws[i])] = x
    BY <2>1, RulesCome, SMTT(40)
  <2>3. asked.body = ws
    BY <1>3
  <2> QED
    BY <2>2, <2>3, Zenon
<1>7. a = <<"BulkNetOut", h, x>>
  BY Zenon DEF IsCall
<1> QED
  BY <1>4, <1>5, <1>6, <1>7, Zenon DEF Arrives, Reaches

\* SetGraceTime of the client, to handleSetGraceTime of the server.
LEMMA SetGraceTimeArrives ==
  ASSUME NEW a, IsCall(a), Method(a) = "SetGraceTime"
  PROVE  Arrives(a)
<1> DEFINE h == Handle(a)
           x == Args(a)
           asked == do("SetGraceTime", InPath(h), Nothing, x)
<1>1. Asked(a) = asked
  BY Zenon DEF Asked, OfClient, ContainerRequest, SetGraceTime
<1>0. Sendable(asked)
  BY <1>1, Zenon DEF IsCall
<1>2. Served(asked)
  <2>1. 23 \in 1 .. 28 /\ Routes[23].Name = "SetGraceTime"
          /\ Parameters("SetGraceTime") = {"handle"}
    BY RouteNames DEF Parameters
  <2> QED
    BY <1>0, <2>1, Given, Routed, Zenon
<1>3. asked.name = "SetGraceTime" /\ asked.params = InPath(h) /\ asked.body = x
  BY DEF do
<1> HIDE DEF asked
<1>4. Request(a) # NoRequest /\ Handled(Request(a)) = handleSetGraceTime(asked)
  BY <1>1, <1>2, <1>3, Zenon DEF Served, Request, Handler
<1>5. handleSetGraceTime(asked) = <<"SetGraceTime", h, x>>
  BY <1>3 DEF handleSetGraceTime, Of, FormValue, InPath
<1>6. a = <<"SetGraceTime", h, x>>
  BY Zenon DEF IsCall
<1> QED
  BY <1>4, <1>5, <1>6, Zenon DEF Arrives, Reaches

\* Property of the client, to handleProperty of the server.
LEMMA PropertyArrives ==
  ASSUME NEW a, IsCall(a), Method(a) = "Property"
  PROVE  Arrives(a)
<1> DEFINE h == Handle(a)
           x == Args(a)
           asked == do("Property", [handle |-> h, key |-> x.name], Nothing, Nothing)
<1>1. Asked(a) = asked
  BY Zenon DEF Asked, OfClient, ContainerRequest, Property
<1>0. Sendable(asked)
  BY <1>1, Zenon DEF IsCall
<1>2. Served(asked)
  <2>1. 25 \in 1 .. 28 /\ Routes[25].Name = "Property"
          /\ Parameters("Property") = {"handle", "key"}
    BY RouteNames DEF Parameters
  <2> QED
    BY <1>0, <2>1, Given, Routed, ZenonT(40)
<1>3. asked.name = "Property" /\ asked.params = [handle |-> h, key |-> x.name]
  BY DEF do
<1> HIDE DEF asked
<1>4. Request(a) # NoRequest /\ Handled(Request(a)) = handleProperty(asked)
  BY <1>1, <1>2, <1>3, Zenon DEF Served, Request, Handler
<1>5. handleProperty(asked) = <<"Property", h, [name |-> x.name]>>
  BY <1>3 DEF handleProperty, Of, FormValue, InPath
<1>6. [name |-> x.name] = x
  <2>1. HasFields({"name"}, x)
    BY Zenon DEF IsCall, TakesArgs, WithHandleOnly
  <2> QED
    BY <2>1 DEF HasFields
<1>7. a = <<"Property", h, x>>
  BY Zenon DEF IsCall
<1> QED
  BY <1>4, <1>5, <1>6, <1>7, Zenon DEF Arrives, Reaches

\* RemoveProperty of the client, to handleRemoveProperty of the server.
LEMMA RemovePropertyArrives ==
  ASSUME NEW a, IsCall(a), Method(a) = "RemoveProperty"
  PROVE  Arrives(a)
<1> DEFINE h == Handle(a)
           x == Args(a)
           asked == do("RemoveProperty", [handle |-> h, key |-> x.name], Nothing, Nothing)
<1>1. Asked(a) = asked
  BY Zenon DEF Asked, OfClient, ContainerRequest, RemoveProperty
<1>0. Sendable(asked)
  BY <1>1, Zenon DEF IsCall
<1>2. Served(asked)
  <2>1. 27 \in 1 .. 28 /\ Routes[27].Name = "RemoveProperty"
          /\ Parameters("RemoveProperty") = {"handle", "key"}
    BY RouteNames, SMTT(60) DEF Parameters
  <2> QED
    BY <1>0, <2>1, Given, Routed, Zenon
<1>3. asked.name = "RemoveProperty" /\ asked.params = [handle |-> h, key |-> x.name]
  BY DEF do
<1> HIDE DEF asked
<1>4. Request(a) # NoRequest /\ Handled(Request(a)) = handleRemoveProperty(asked)
  BY <1>1, <1>2, <1>3, Zenon DEF Served, Request, Handler
<1>5. handleRemoveProperty(asked) = <<"RemoveProperty", h, [name |-> x.name]>>
  BY <1>3 DEF handleRemoveProperty, Of, FormValue, InPath
<1>6. [name |-> x.name] = x
  <2>1. HasFields({"name"}, x)
    BY Zenon DEF IsCall, TakesArgs, WithHandleOnly
  <2> QED
    BY <2>1 DEF HasFields
<1>7. a = <<"RemoveProperty", h, x>>
  BY Zenon DEF IsCall
<1> QED
  BY <1>4, <1>5, <1>6, <1>7, Zenon DEF Arrives, Reaches

\* SetProperty of the client, to handleSetProperty of the server.
LEMMA SetPropertyArrives ==
  ASSUME NEW a, IsCall(a), Method(a) = "SetProperty"
  PROVE  Arrives(a)
<1> DEFINE h == Handle(a)
           x == Args(a)
           asked == do("SetProperty", [handle |-> h, key |-> x.name], Nothing,
                [value |-> x.value])
<1>1. Asked(a) = asked
  BY Zenon DEF Asked, OfClient, ContainerRequest, SetProperty
<1>0. Sendable(asked)
  BY <1>1, Zenon DEF IsCall
<1>2. Served(asked)
  <2>1. 26 \in 1 .. 28 /\ Routes[26].Name = "SetProperty"
          /\ Parameters("SetProperty") = {"handle", "key"}
    BY RouteNames DEF Parameters
  <2> QED
    BY <1>0, <2>1, Given, Routed, Zenon
<1>3. asked.name = "SetProperty" /\ asked.params = [handle |-> h, key |-> x.name]
        /\ asked.body = [value |-> x.value]
  BY DEF do
<1> HIDE DEF asked
<1>4. Request(a) # NoRequest /\ Handled(Request(a)) = handleSetProperty(asked)
  BY <1>1, <1>2, <1>3, Zenon DEF Served, Request, Handler
<1>5. handleSetProperty(asked) = <<"SetProperty", h, [name |-> x.name, value |-> x.value]>>
  BY <1>3 DEF handleSetProperty, Of, FormValue, InPath
<1>6. [name |-> x.name, value |-> x.value] = x
  <2>1. HasFields({"name", "value"}, x)
    BY Zenon DEF IsCall, TakesArgs, WithHandleOnly
  <2> QED
    BY <2>1 DEF HasFields
<1>7. a = <<"SetProperty", h, x>>
  BY ZenonT(60) DEF IsCall
<1> QED
  BY <1>4, <1>5, <1>6, <1>7, Zenon DEF Arrives, Reaches

\* Every call of garden.Client and garden.Container whose handle and names stand for
\* themselves in a path (IsCall) reaches the backend as its caller meant it, with its handle
\* and arguments, through the request of client/connection/connection.go,
\* the routes of routes/routes.go and the handler of server/request_handling.go.
THEOREM CallArrives ==
  ASSUME NEW a, IsCall(a)
  PROVE  Arrives(a)
<1>1. Method(a) \in
        {"Ping", "Capacity", "Create", "Containers", "Lookup", "BulkInfo", "BulkMetrics",
         "Destroy", "Info", "Metrics", "Properties", "CurrentBandwidthLimits",
         "CurrentCPULimits", "CurrentDiskLimits", "CurrentMemoryLimits", "Stop", "StreamIn",
         "StreamOut", "Run", "Attach", "NetIn", "NetOut", "BulkNetOut", "SetGraceTime",
         "Property", "RemoveProperty", "SetProperty"}
  BY Zenon DEF IsCall, TakesArgs, WithHandleOnly
<1>2. QED
  BY <1>1,
     PingArrives, CapacityArrives, CreateArrives, ContainersArrives, LookupArrives,
     BulkInfoArrives, BulkMetricsArrives, DestroyArrives, InfoArrives,
     MetricsArrives, PropertiesArrives, CurrentBandwidthLimitsArrives,
     CurrentCPULimitsArrives, CurrentDiskLimitsArrives, CurrentMemoryLimitsArrives,
     StopArrives, StreamInArrives, StreamOutArrives, RunArrives, AttachArrives,
     NetInArrives, NetOutArrives, BulkNetOutArrives, SetGraceTimeArrives,
     PropertyArrives, RemovePropertyArrives, SetPropertyArrives,
     ZenonT(40)
=============================================================================
