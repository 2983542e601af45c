---------------------------- MODULE RemoteProofs ----------------------------
(***************************************************************************)
(* The API over the network is the API without a network, LocalApi:        *)
(* what errors.go keeps of an error, how each answer comes back to the     *)
(* caller of its request, and the steps of RemoteApi as steps of LocalApi. *)
(***************************************************************************)
EXTENDS RouteProofs, NetAccess, WellFoundedInduction

\* Marshalling keeps the type of an error that errors.go names.
LEMMA MarshalKeepsType ==
  ASSUME NEW type, NEW text
  PROVE  LET m == MarshalJSON(GoError(type, text))
         IN  /\ type \in NamedTypes => m.Type = type
             /\ type \notin NamedTypes => m.Type = ""
             /\ type = "ContainerNotFoundError" => m.Handle = text
             /\ type = "ProcessNotFoundError" => m.ProcessID = text
             /\ m.Message[2] = text
BY Zenon DEF MarshalJSON, GoError, Message

\* The caller on the other side gets the same error, field included, for the types that
\* errors.go names, and the message of any other (errors.go:50-100).
THEOREM RoundTrip ==
  ASSUME NEW type, NEW text
  PROVE  UnmarshalJSON(MarshalJSON(GoError(type, text))) = Known(GoError(type, text))
<1> DEFINE m == MarshalJSON(GoError(type, text))
<1>1. /\ type \in NamedTypes => m.Type = type
      /\ type \notin NamedTypes => m.Type = ""
      /\ type = "ContainerNotFoundError" => m.Handle = text
      /\ type = "ProcessNotFoundError" => m.ProcessID = text
      /\ m.Message[2] = text
  BY MarshalKeepsType, ZenonT(40)
<1>2. GoError(type, text).type = type /\ GoError(type, text).text = text
  BY DEF GoError
<1> HIDE DEF m
<1>3. CASE type = "ContainerNotFoundError"
  <2>1. UnmarshalJSON(m) = GoError(type, text)
    BY <1>1, <1>3, ZenonT(40) DEF UnmarshalJSON, NamedTypes, ContainerNotFoundError
  <2> QED
    BY <1>2, <1>3, <2>1 DEF Known, NamedTypes, m
<1>4. CASE type = "ProcessNotFoundError"
  <2>1. UnmarshalJSON(m) = GoError(type, text)
    BY <1>1, <1>4, ZenonT(40) DEF UnmarshalJSON, NamedTypes, ProcessNotFoundError
  <2> QED
    BY <1>2, <1>4, <2>1, ZenonT(40) DEF Known, NamedTypes, m
<1>5. CASE type \in NamedTypes \ {"ContainerNotFoundError", "ProcessNotFoundError"}
  <2>1. UnmarshalJSON(m) = GoError(type, text)
    BY <1>1, <1>5, ZenonT(40) DEF UnmarshalJSON
  <2> QED
    BY <1>2, <1>5, <2>1, ZenonT(40) DEF Known, m
<1>6. CASE type \notin NamedTypes
  <2>1. UnmarshalJSON(m) = Plain(text)
    BY <1>1, <1>6, ZenonT(40) DEF UnmarshalJSON, NamedTypes
  <2> QED
    BY <1>2, <1>6, <2>1, ZenonT(40) DEF Known, m
<1> QED
  BY <1>3, <1>4, <1>5, <1>6, ZenonT(40)

\* The status code and the error that the client decodes from the body agree on what was
\* not found (errors.go:39-48 and 77-100).
THEOREM NotFoundAgrees ==
  ASSUME NEW type, NEW text
  PROVE  StatusCode(GoError(type, text)) = 404
           <=> UnmarshalJSON(MarshalJSON(GoError(type, text))).type
                 \in {"ContainerNotFoundError", "ProcessNotFoundError"}
<1>1. UnmarshalJSON(MarshalJSON(GoError(type, text))) = Known(GoError(type, text))
  BY RoundTrip, ZenonT(40)
<1>2. GoError(type, text).type = type
  BY SMTT(40) DEF GoError
<1>3. StatusCode(GoError(type, text)) = 404
        <=> type \in {"ContainerNotFoundError", "ProcessNotFoundError"}
  BY <1>2, SMTT(40) DEF StatusCode
<1>4. Known(GoError(type, text)).type \in {"ContainerNotFoundError", "ProcessNotFoundError"}
        <=> type \in {"ContainerNotFoundError", "ProcessNotFoundError"}
  <2>1. CASE type \in NamedTypes
    BY <1>2, <2>1, ZenonT(40) DEF Known
  <2>2. CASE type \notin NamedTypes
    <3>1. Known(GoError(type, text)).type = "plain"
      BY <1>2, <2>2, ZenonT(40) DEF Known, Plain, GoError
    <3> QED
      BY <2>2, <3>1, ZenonT(40) DEF NamedTypes
  <2> QED
    BY <2>1, <2>2, ZenonT(40)
<1> QED
  BY <1>1, <1>3, <1>4, ZenonT(40)
-----------------------------------------------------------------------------
\* An error tells the two sides apart: what one writes is no error of the other's.
LEMMA ErrorFacts ==
  ASSUME NEW type, NEW text
  PROVE  /\ GoError(type, text).type = type /\ GoError(type, text).text = text
         /\ MarshalJSON(GoError(type, text)) # NoError
         /\ Known(GoError(type, text)).type \in NamedTypes \cup {"plain"}
         /\ Known(GoError(type, text)) # NoError
         /\ type \in NamedTypes \cup {"plain"} => Known(GoError(type, text)) = GoError(type, text)
<1>1. GoError(type, text).type = type /\ GoError(type, text).text = text
  BY DEF GoError
<1>2. MarshalJSON(GoError(type, text)) # NoError
  <2>1. "Handle" \in DOMAIN MarshalJSON(GoError(type, text))
    BY ZenonT(40) DEF MarshalJSON
  <2>2. "Handle" \notin DOMAIN NoError
    BY ZenonT(40) DEF NoError, GoError
  <2> QED
    BY <2>1, <2>2, ZenonT(40)
<1>3. Known(GoError(type, text)).type \in NamedTypes \cup {"plain"}
  BY <1>1, ZenonT(40) DEF Known, Plain, GoError
<1>4. NoError.type \notin NamedTypes \cup {"plain"}
  BY ZenonT(40) DEF NoError, GoError, NamedTypes
<1>5. type \in NamedTypes \cup {"plain"} => Known(GoError(type, text)) = GoError(type, text)
  <2>1. CASE type \in NamedTypes
    BY <1>1, <2>1, ZenonT(40) DEF Known
  <2>2. CASE type = "plain"
    <3>1. "plain" \notin NamedTypes
      BY ZenonT(40) DEF NamedTypes
    <3> QED
      BY <1>1, <2>2, <3>1, ZenonT(40) DEF Known, Plain
  <2> QED
    BY <2>1, <2>2, ZenonT(40)
<1> QED
  BY <1>1, <1>2, <1>3, <1>4, <1>5, ZenonT(40)

\* An answer is written for every call: a result with the status of its method, or an error.
LEMMA Written ==
  /\ \A m, E : /\ writeResponse(m, E) # NoResponse /\ writeResponse(m, E).status = StatusOf(m)
               /\ writeResponse(m, E).status \in {200, 201}
  /\ \A e : /\ writeError(e) # NoResponse /\ writeError(e).status \in {404, 500}
            /\ writeError(e).entries = {} /\ writeError(e).error = MarshalJSON(e)
<1>1. NoResponse.status = 0
  BY DEF NoResponse
<1>2. \A m, E : writeResponse(m, E).status = StatusOf(m)
  BY ZenonT(40) DEF writeResponse
<1>3. \A m : StatusOf(m) \in {200, 201}
  BY SMTT(40) DEF StatusOf
<1>4. \A e : writeError(e).status \in {404, 500} /\ writeError(e).entries = {}
        /\ writeError(e).error = MarshalJSON(e)
  BY DEF writeError, StatusCode
<1> QED
  BY <1>1, <1>2, <1>3, <1>4, SMTT(40)

\* The caller gets the error that the handler wrote, as far as errors.go knows it.
LEMMA ErrorReturns ==
  ASSUME NEW a, NEW type, NEW text
  PROVE  Returned(a, writeError(GoError(type, text))) = Failure(Known(GoError(type, text)))
<1> DEFINE e == GoError(type, text)
           r == writeError(e)
<1>1. r.status \notin 200 .. 299 /\ r.error = MarshalJSON(e)
  <2>1. r.status \in {404, 500} /\ r.error = MarshalJSON(e)
    BY Written, SMTT(40)
  <2> QED
    BY <2>1, SMTT(60)
<1>2. UnmarshalJSON(MarshalJSON(e)) = Known(e) /\ Known(e) # NoError
  BY RoundTrip, ErrorFacts, ZenonT(40)
<1> HIDE DEF e, r
<1>3. Receive(r) = Failure(Known(e))
  BY <1>1, <1>2, ZenonT(40) DEF Receive
<1>4. Failure(Known(e)).err = Known(e)
  BY DEF Failure, Result
<1>5. Lookup(Handle(a), Receive(r)) = Failure(Known(e))
  BY <1>2, <1>3, <1>4, ZenonT(40) DEF Lookup
<1>6. Decode(AnswerOf(Method(a)), Receive(r)) = Failure(Known(e))
  BY <1>2, <1>3, <1>4, ZenonT(40) DEF Decode
<1> QED
  BY <1>5, <1>6, ZenonT(40) DEF Returned, e, r

\* An entry of an answer, with an error of errors.go or none.
IsEntry(e) ==
  /\ e = [key |-> e.key, value |-> e.value, err |-> e.err]
  /\ e.err # NoError => e.err = GoError(e.err.type, e.err.text) /\ e.err.type \in NamedTypes

\* An entry as the server marshals it, and as the client reads it.
OnWire(e) == [e EXCEPT !.err = IF @.type = "nil" THEN @ ELSE MarshalJSON(@)]
OffWire(e) == [e EXCEPT !.err = IF @ = NoError THEN @ ELSE UnmarshalJSON(@)]

\* It comes back as it was.
LEMMA EntryReturns ==
  ASSUME NEW e, IsEntry(e)
  PROVE  OffWire(OnWire(e)) = e
<1>1. e = [key |-> e.key, value |-> e.value, err |-> e.err]
  BY SMTT(40) DEF IsEntry
<1>2. CASE e.err = NoError
  <2>1. NoError.type = "nil"
    BY ZenonT(40) DEF NoError, GoError
  <2>2. OnWire(e) = e
    BY <1>1, <1>2, <2>1, ZenonT(40) DEF OnWire
  <2> QED
    BY <1>1, <1>2, <2>2, ZenonT(40) DEF OffWire
<1>3. CASE e.err # NoError
  <2> DEFINE m == MarshalJSON(e.err)
  <2>1. e.err.type # "nil" /\ m # NoError /\ UnmarshalJSON(m) = e.err
    <3>1. e.err = GoError(e.err.type, e.err.text) /\ e.err.type \in NamedTypes
      BY <1>3, ZenonT(40) DEF IsEntry
    <3>2. e.err.type # "nil"
      BY <3>1, ZenonT(40) DEF NamedTypes
    <3>3. m # NoError /\ UnmarshalJSON(m) = Known(e.err) /\ Known(e.err) = e.err
      BY <3>1, RoundTrip, ErrorFacts, SMTT(60)
    <3> QED
      BY <3>2, <3>3, ZenonT(40)
  <2> HIDE DEF m
  <2>2. OnWire(e) = [key |-> e.key, value |-> e.value, err |-> m]
    BY <1>1, <2>1, SMTT(40) DEF OnWire, m
  <2>3. OffWire(OnWire(e)) = [key |-> e.key, value |-> e.value, err |-> e.err]
    BY <2>1, <2>2, SMTT(40) DEF OffWire
  <2> QED
    BY <1>1, <2>3, ZenonT(40)
<1> QED
  BY <1>2, <1>3, ZenonT(40)

\* An answer with these entries loses nothing on the way: each field of the struct that it
\* is decoded into has one entry.
Travels(method, entries) ==
  /\ \A e \in entries : IsEntry(e)
  /\ \A k \in DOMAIN AnswerOf(method) :
       \E v : Entry(k, v) \in entries /\ \A e \in entries : e.key = k => e = Entry(k, v)

\* The entries that the handler writes are those that the client reads, the ones with zero
\* values filled in.
LEMMA EntriesReturn ==
  ASSUME NEW method, NEW entries, Travels(method, entries)
  PROVE  /\ Decode(AnswerOf(method), Receive(writeResponse(method, entries))) = Success(entries)
         /\ DOMAIN AnswerOf(method) = {} =>
              Receive(writeResponse(method, entries)) = Success(entries)
<1> DEFINE zero == AnswerOf(method)
           written == {e \in entries : e.key \in DOMAIN zero => e.value # zero[e.key]}
           r == writeResponse(method, entries)
<1>1. r.status \in {200, 201} /\ r.entries = {OnWire(e) : e \in written}
  <2>1. r.entries = {OnWire(e) : e \in written}
    BY ZenonT(40) DEF writeResponse, OnWire
  <2>2. r.status \in {200, 201}
    <3> HIDE DEF r
    <3> QED
      BY Written, SMTT(40) DEF r
  <2> QED
    BY <2>1, <2>2, ZenonT(40)
<1> HIDE DEF r
<1>2. {OffWire(w) : w \in r.entries} = written
  <2>1. \A e \in written : OffWire(OnWire(e)) = e
    BY EntryReturns, ZenonT(40) DEF Travels
  <2> HIDE DEF written
  <2>2. \A w \in r.entries : OffWire(w) \in written
    BY <1>1, <2>1, SMTT(40)
  <2>3. \A e \in written : \E w \in r.entries : OffWire(w) = e
    BY <1>1, <2>1, ZenonT(40)
  <2> QED
    BY <2>2, <2>3, ZenonT(40)
<1>3. Receive(r) = Success(written)
  <2>1. r.status \in 200 .. 299
    BY <1>1, SMTT(40)
  <2> HIDE DEF written
  <2>2. Receive(r) = Success({OffWire(w) : w \in r.entries})
    BY <2>1, ZenonT(40) DEF Receive, OffWire
  <2> QED
    BY <1>2, <2>2, ZenonT(40)
<1>4. \A E : Success(E).err = NoError /\ Success(E).entries = E
  BY ZenonT(40) DEF Success, Result
<1> DEFINE missing == {Entry(k, zero[k]) : k \in DOMAIN zero \ {e.key : e \in written}}
<1>5. Decode(zero, Receive(r)) = Success(written \cup missing)
  <2> HIDE DEF zero, written
  <2> QED
    BY <1>3, <1>4, ZenonT(40) DEF Decode
<1>6. \A k, v : Entry(k, v).key = k /\ Entry(k, v).value = v
  BY ZenonT(40) DEF Entry
<1>7. missing \subseteq entries
  <2> SUFFICES ASSUME NEW k \in DOMAIN zero, k \notin {e.key : e \in written}
               PROVE  Entry(k, zero[k]) \in entries
    BY ZenonT(40)
  <2>1. PICK v : Entry(k, v) \in entries
    BY ZenonT(40) DEF Travels
  <2>2. Entry(k, v) \notin written
    BY <1>6, SMTT(40)
  <2>3. v = zero[k]
    BY <1>6, <2>1, <2>2, ZenonT(40)
  <2> QED
    BY <2>1, <2>3, ZenonT(40)
<1>8. entries \subseteq written \cup missing
  <2> SUFFICES ASSUME NEW e \in entries, e \notin written
               PROVE  e \in missing
    BY ZenonT(40)
  <2>1. e.key \in DOMAIN zero /\ e.value = zero[e.key]
    BY ZenonT(40)
  <2>2. PICK v : \A d \in entries : d.key = e.key => d = Entry(e.key, v)
    BY <2>1, ZenonT(40) DEF Travels
  <2>3. e = Entry(e.key, v)
    BY <2>2, ZenonT(40)
  <2>4. e = Entry(e.key, zero[e.key])
    BY <1>6, <2>1, <2>3, ZenonT(60)
  <2>5. \A d \in written : d.key # e.key
    BY <2>2, <2>3, ZenonT(40)
  <2>6. e.key \in DOMAIN zero \ {d.key : d \in written}
    BY <2>1, <2>5, ZenonT(40)
  <2> QED
    BY <2>4, <2>6, ZenonT(40)
<1>9. written \cup missing = entries
  BY <1>7, <1>8, ZenonT(40)
<1>10. DOMAIN zero = {} => written = entries
  BY ZenonT(40)
<1> QED
  BY <1>3, <1>5, <1>9, <1>10, ZenonT(60) DEF r

\* What a backend may return: an error that errors.go knows, or a result that travels.
Returnable(method, result) ==
  \/ \E type \in NamedTypes \cup {"plain"} : \E text : result = Failure(GoError(type, text))
  \/ \E entries : Travels(method, entries) /\ result = Success(entries)

\* What the handler writes comes back to the caller.
Response(method, result) ==
  IF result.err = NoError THEN writeResponse(method, result.entries) ELSE writeError(result.err)

\* The caller gets the result of the backend, whatever the method but for a Lookup.
LEMMA ResultReturns ==
  ASSUME NEW a, Method(a) # "Lookup", NEW result, Returnable(Method(a), result)
  PROVE  Returned(a, Response(Method(a), result)) = result
<1>1. ASSUME NEW type \in NamedTypes \cup {"plain"}, NEW text, result
        = Failure(GoError(type, text))
      PROVE  Returned(a, Response(Method(a), result)) = result
  <2> DEFINE e == GoError(type, text)
  <2>1. Known(e) = e /\ e # NoError
    BY ErrorFacts, SMTT(40)
  <2>2. result.err = e
    BY <1>1, ZenonT(40) DEF Failure, Result
  <2>3. Response(Method(a), result) = writeError(e)
    BY <2>1, <2>2, ZenonT(40) DEF Response
  <2>4. Returned(a, writeError(e)) = Failure(Known(e))
    BY ErrorReturns, ZenonT(40)
  <2> QED
    BY <1>1, <2>1, <2>3, <2>4, ZenonT(60)
<1>2. ASSUME NEW entries, Travels(Method(a), entries), result = Success(entries)
      PROVE  Returned(a, Response(Method(a), result)) = result
  <2>1. result.err = NoError /\ result.entries = entries
    BY <1>2, ZenonT(40) DEF Success, Result
  <2>2. Response(Method(a), result) = writeResponse(Method(a), entries)
    BY <2>1, Zenon DEF Response
  <2> QED
    BY <1>2, <2>2, EntriesReturn, ZenonT(40) DEF Returned
<1> QED
  BY <1>1, <1>2, ZenonT(40) DEF Returnable

\* The methods whose answer is a struct, with a zero value for each field.
Structured ==
  {"Capacity", "NetIn", "CurrentBandwidthLimits", "CurrentCPULimits", "CurrentDiskLimits",
   "CurrentMemoryLimits"}

\* The structs that answers are decoded into.
LEMMA Answers ==
  /\ AnswerOf("Capacity") = CapacityAnswer
  /\ AnswerOf("NetIn") = NetInResponse
  /\ AnswerOf("CurrentBandwidthLimits") = BandwidthLimits
  /\ AnswerOf("CurrentCPULimits") = CPULimits
  /\ AnswerOf("CurrentDiskLimits") = DiskLimits
  /\ AnswerOf("CurrentMemoryLimits") = MemoryLimits
  /\ \A m : m \notin Structured => DOMAIN AnswerOf(m) = {}
<1>1. /\ AnswerOf("Capacity") = CapacityAnswer
      /\ AnswerOf("NetIn") = NetInResponse
  BY Zenon DEF AnswerOf
<1>2. /\ AnswerOf("CurrentBandwidthLimits") = BandwidthLimits
      /\ AnswerOf("CurrentCPULimits") = CPULimits
  BY Zenon DEF AnswerOf
<1>3. /\ AnswerOf("CurrentDiskLimits") = DiskLimits
      /\ AnswerOf("CurrentMemoryLimits") = MemoryLimits
  BY Zenon DEF AnswerOf
<1>4. ASSUME NEW m, m \notin Structured
      PROVE  DOMAIN AnswerOf(m) = {}
  <2>1. AnswerOf(m) = <<>>
    BY <1>4, ZenonT(40) DEF AnswerOf, Structured
  <2> QED
    BY <2>1, SMTT(40)
<1> QED
  BY <1>1, <1>2, <1>3, <1>4, ZenonT(40)

\* The entries that the backend makes.
LEMMA EntriesMade ==
  /\ \A k, v : IsEntry(Entry(k, v))
  /\ \A k, h : IsEntry(ErrorEntry(k, ContainerNotFoundError(h)))
<1>1. \A k, v : IsEntry(Entry(k, v))
  BY DEF IsEntry, Entry
<1>2. ASSUME NEW k, NEW h
      PROVE  IsEntry(ErrorEntry(k, ContainerNotFoundError(h)))
  <2> DEFINE e == ErrorEntry(k, ContainerNotFoundError(h))
  <2>1. e = [key |-> e.key, value |-> e.value, err |-> e.err] /\ e.err = ContainerNotFoundError(h)
    BY DEF ErrorEntry
  <2>2. /\ ContainerNotFoundError(h).type \in NamedTypes
        /\ ContainerNotFoundError(h)
             = GoError(ContainerNotFoundError(h).type, ContainerNotFoundError(h).text)
    BY DEF ContainerNotFoundError, GoError, NamedTypes
  <2> QED
    BY <2>1, <2>2, ZenonT(40) DEF IsEntry
<1> QED
  BY <1>1, <1>2, ZenonT(40)

\* What a call returns whose answer is no struct, and one whose answer is.
LEMMA ListReturnable ==
  ASSUME NEW m, m \notin Structured, NEW entries, \A e \in entries : IsEntry(e)
  PROVE  Returnable(m, Success(entries))
BY Answers, Zenon DEF Returnable, Travels

\* The same for an answer that is a struct.
LEMMA StructReturnable ==
  ASSUME NEW m, NEW f, DOMAIN f = DOMAIN AnswerOf(m)
  PROVE  Returnable(m, Success(Entries(f)))
<1>1. \A e \in Entries(f) : IsEntry(e)
  BY EntriesMade, Zenon DEF Entries
<1>2. ASSUME NEW k \in DOMAIN AnswerOf(m)
      PROVE  \E v : Entry(k, v) \in Entries(f)
           /\ \A e \in Entries(f) : e.key = k => e = Entry(k, v)
  <2>1. Entry(k, f[k]) \in Entries(f)
    BY <1>2, Zenon DEF Entries
  <2>2. \A j : Entry(j, f[j]).key = j
    BY ZenonT(40) DEF Entry
  <2>3. \A e \in Entries(f) : e.key = k => e = Entry(k, f[k])
    BY <2>2, ZenonT(40) DEF Entries
  <2> QED
    BY <2>1, <2>3, ZenonT(40)
<1> QED
  BY <1>1, <1>2, ZenonT(40) DEF Returnable, Travels

\* The errors of the backend.
LEMMA ErrorReturnable ==
  ASSUME NEW m, NEW text
  PROVE  /\ Returnable(m, Failure(Plain(text)))
         /\ Returnable(m, Failure(ContainerNotFoundError(text)))
         /\ Returnable(m, Failure(ProcessNotFoundError(text)))
BY Zenon DEF Returnable, Plain, ContainerNotFoundError, ProcessNotFoundError, NamedTypes

\* What the parts of an outcome are.
LEMMA Outcomes ==
  /\ \A s, r : Outcome(s, r).result = r /\ Outcome(s, r).store = s
  /\ \A s, E : Reads(s, E).result = Success(E) /\ Reads(s, E).store = s
  /\ \A s, a, E : Acts(s, a, E).result = Success(E)
BY SMTT(40) DEF Reads, Acts, Outcome

\* The names of the calls that read limits.
LEMMA LimitNames ==
  ASSUME NEW h
  PROVE  /\ DOMAIN CurrentLimits(h) = {"CurrentBandwidthLimits", "CurrentCPULimits",
                                       "CurrentDiskLimits", "CurrentMemoryLimits"}
         /\ \A m \in DOMAIN CurrentLimits(h) : DOMAIN CurrentLimits(h)[m] = DOMAIN AnswerOf(m)
<1>1. DOMAIN CurrentLimits(h) = {"CurrentBandwidthLimits", "CurrentCPULimits",
                                 "CurrentDiskLimits", "CurrentMemoryLimits"}
  BY DEF CurrentLimits
<1>2. /\ DOMAIN CurrentLimits(h)["CurrentBandwidthLimits"] = DOMAIN BandwidthLimits
      /\ DOMAIN CurrentLimits(h)["CurrentCPULimits"] = DOMAIN CPULimits
      /\ DOMAIN CurrentLimits(h)["CurrentDiskLimits"] = DOMAIN DiskLimits
      /\ DOMAIN CurrentLimits(h)["CurrentMemoryLimits"] = DOMAIN MemoryLimits
  BY DEF CurrentLimits
<1> QED
  BY <1>1, <1>2, Answers, ZenonT(40)

\* The methods of garden.Container.
MethodsOfContainer ==
  {"Stop", "StreamIn", "NetOut", "BulkNetOut", "Run", "NetIn", "Attach", "StreamOut",
   "SetGraceTime", "Properties", "Property", "SetProperty", "RemoveProperty",
   "CurrentBandwidthLimits", "CurrentCPULimits", "CurrentDiskLimits", "CurrentMemoryLimits",
   "Info", "Metrics"}

\* The client's calls.
LEMMA ClientReturnable ==
  ASSUME NEW s, NEW b, Method(b) \in OfClient \ {"Lookup"}
  PROVE  Returnable(Method(b), OfBackend(s, b).result)
<1> DEFINE r == OfBackend(s, b).result
<1>1. CASE Method(b) = "Ping"
  <2>1. OfBackend(s, b) = Reads(s, {})
    BY <1>1, ZenonT(40) DEF OfBackend
  <2>2. r = Success({})
    BY <2>1, Outcomes, SMTT(40)
  <2>3. "Ping" \notin Structured
    BY DEF Structured
  <2> QED
    BY <1>1, <2>2, <2>3, ListReturnable, ZenonT(40)
<1>2. CASE Method(b) = "Capacity"
  <2> DEFINE f == [CapacityAnswer EXCEPT !.max_containers = "8"]
  <2>1. OfBackend(s, b) = Reads(s, Entries(f))
    BY <1>2, ZenonT(40) DEF OfBackend
  <2>2. r = Success(Entries(f))
    BY <2>1, Outcomes, ZenonT(40)
  <2>3. DOMAIN f = DOMAIN AnswerOf("Capacity")
    BY Answers, SMTT(40)
  <2> QED
    BY <1>2, <2>2, <2>3, StructReturnable, Zenon
<1>3. CASE Method(b) = "Create"
  <2> DEFINE h == Args(b).handle
             taken == Failure(Plain("handle already taken"))
  <2>1. OfBackend(s, b) = IF h \in DOMAIN s THEN Outcome(s, taken)
                          ELSE Outcome(Put(s, h, NewContainer(Args(b))),
                               Success({Entry("handle", h)}))
    BY <1>3, Zenon DEF OfBackend
  <2>2. Returnable("Create", taken)
    BY ErrorReturnable, Zenon
  <2> HIDE DEF taken
  <2>3. r = taken \/ r = Success({Entry("handle", h)})
    BY <2>1, Outcomes, SMTT(40)
  <2>4. "Create" \notin Structured
    BY DEF Structured
  <2>5. \A e \in {Entry("handle", h)} : IsEntry(e)
    BY EntriesMade, Zenon
  <2> QED
    BY <1>3, <2>2, <2>3, <2>4, <2>5, ListReturnable, ZenonT(60)
<1>4. CASE Method(b) = "Destroy"
  <2>1. OfBackend(s, b) = IF Handle(b) \in DOMAIN s
                          THEN Outcome(Restrict(s, DOMAIN s \ {Handle(b)}), Success({}))
                          ELSE Outcome(s, Failure(ContainerNotFoundError(Handle(b))))
    BY <1>4, ZenonT(40) DEF OfBackend
  <2>2. r = Failure(ContainerNotFoundError(Handle(b))) \/ r = Success({})
    BY <2>1, Outcomes, SMTT(40)
  <2>3. "Destroy" \notin Structured
    BY DEF Structured
  <2> QED
    BY <1>4, <2>2, <2>3, ListReturnable, ErrorReturnable, ZenonT(60)
<1>5. CASE Method(b) = "Containers"
  <2> DEFINE found == {k \in DOMAIN s : HasProperties(s[k], Args(b))}
  <2>1. OfBackend(s, b) = Reads(s, {Entry("handle", h) : h \in found})
    BY <1>5, Zenon DEF OfBackend
  <2>2. r = Success({Entry("handle", h) : h \in found})
    BY <2>1, Outcomes, SMTT(40)
  <2>3. "Containers" \notin Structured
    BY DEF Structured
  <2>4. \A e \in {Entry("handle", h) : h \in found} : IsEntry(e)
    BY EntriesMade, Zenon
  <2> QED
    BY <1>5, <2>2, <2>3, <2>4, ListReturnable, ZenonT(60)
<1>6. CASE Method(b) \in {"BulkInfo", "BulkMetrics"}
  <2>1. \E value : OfBackend(s, b) = Reads(s, BulkEntries(s, Args(b), value))
    BY <1>6, ZenonT(40) DEF OfBackend
  <2>2. PICK value : r = Success(BulkEntries(s, Args(b), value))
    BY <2>1, Outcomes, SMTT(40)
  <2>3. Method(b) \notin Structured
    BY <1>6, SMTT(40) DEF Structured
  <2>4. \A e \in BulkEntries(s, Args(b), value) : IsEntry(e)
    BY EntriesMade, Zenon DEF BulkEntries
  <2> QED
    BY <2>2, <2>3, <2>4, ListReturnable, ZenonT(60)
<1> QED
  BY <1>1, <1>2, <1>3, <1>4, <1>5, <1>6, ZenonT(60) DEF OfClient

\* The methods of a container.
LEMMA ContainerReturnable ==
  ASSUME NEW s, NEW b, Method(b) \in MethodsOfContainer
  PROVE  Returnable(Method(b), OfContainer(s, b).result)
<1> DEFINE r == OfContainer(s, b).result
           h == Handle(b)
           x == Args(b)
<1>0. DOMAIN CurrentLimits(h) = {"CurrentBandwidthLimits", "CurrentCPULimits",
                                 "CurrentDiskLimits", "CurrentMemoryLimits"}
  BY LimitNames, Zenon
<1>1. CASE Method(b) \in {"Stop", "StreamIn", "NetOut", "BulkNetOut"}
  <2>1. OfContainer(s, b) = Acts(s, b, {})
    BY <1>0, <1>1, ZenonT(40) DEF OfContainer
  <2>2. r = Success({})
    BY <2>1, Outcomes, SMTT(40)
  <2>3. Method(b) \notin Structured
    BY <1>1, ZenonT(40) DEF Structured
  <2> QED
    BY <2>2, <2>3, ListReturnable, ZenonT(40)
<1>2. CASE Method(b) = "Run"
  <2>1. OfContainer(s, b) = Acts(s, b, {Entry("process", x.id)})
    BY <1>0, <1>2, ZenonT(40) DEF OfContainer
  <2>2. r = Success({Entry("process", x.id)})
    BY <2>1, Outcomes, SMTT(40)
  <2>3. Method(b) \notin Structured
    BY <1>2, ZenonT(40) DEF Structured
  <2>4. \A e \in {Entry("process", x.id)} : IsEntry(e)
    BY EntriesMade, Zenon
  <2> QED
    BY <2>2, <2>3, <2>4, ListReturnable, ZenonT(60)
<1>3. CASE Method(b) = "NetIn"
  <2>1. OfContainer(s, b) = Acts(s, b, Ports(b))
    BY <1>0, <1>3, ZenonT(40) DEF OfContainer
  <2> DEFINE host == IF x.host_port = "0" THEN FreePort ELSE x.host_port
             port == IF x.container_port = "0" THEN host ELSE x.container_port
             f == [host_port |-> host, container_port |-> port]
  <2>2. r = Success(Ports(b))
    BY <2>1, Outcomes, SMTT(40)
  <2>3. Ports(b) = {Entry("host_port", host), Entry("container_port", port)}
    BY Zenon DEF Ports
  <2>4. DOMAIN f = {"host_port", "container_port"} /\ f.host_port = host
          /\ f.container_port = port
    OBVIOUS
  <2> HIDE DEF host, port, f
  <2>5. Entries(f) = {Entry("host_port", host), Entry("container_port", port)}
    BY <2>4, ZenonT(40) DEF Entries
  <2>6. DOMAIN f = DOMAIN AnswerOf("NetIn")
    BY <2>4, Answers, ZenonT(40) DEF NetInResponse
  <2> QED
    BY <1>3, <2>2, <2>3, <2>5, <2>6, StructReturnable, ZenonT(60)
<1>4. CASE Method(b) = "Attach"
  <2>1. OfContainer(s, b) = IF x.pid \in Processes THEN Reads(s, {Entry("process", x.pid)})
                            ELSE Outcome(s, Failure(ProcessNotFoundError(x.pid)))
    BY <1>0, <1>4, ZenonT(40) DEF OfContainer
  <2>2. r = Success({Entry("process", x.pid)}) \/ r = Failure(ProcessNotFoundError(x.pid))
    <3>1. CASE x.pid \in Processes
      <4>1. OfContainer(s, b) = Reads(s, {Entry("process", x.pid)})
        BY <2>1, <3>1, ZenonT(40)
      <4> QED
        BY <4>1, Outcomes, SMTT(40)
    <3>2. CASE x.pid \notin Processes
      <4>1. OfContainer(s, b) = Outcome(s, Failure(ProcessNotFoundError(x.pid)))
        BY <2>1, <3>2, ZenonT(40)
      <4> QED
        BY <4>1, Outcomes, SMTT(40)
    <3> QED
      BY <3>1, <3>2, ZenonT(40)
  <2>3. Method(b) \notin Structured
    BY <1>4, ZenonT(40) DEF Structured
  <2>4. \A e \in {Entry("process", x.pid)} : IsEntry(e)
    BY EntriesMade, ZenonT(40)
  <2> QED
    BY <2>2, <2>3, <2>4, ListReturnable, ErrorReturnable, ZenonT(60)
<1>5. CASE Method(b) = "StreamOut"
  <2>1. OfContainer(s, b) = Reads(s, {Entry(x.user, x.path)})
    BY <1>0, <1>5, ZenonT(40) DEF OfContainer
  <2>2. r = Success({Entry(x.user, x.path)})
    BY <2>1, Outcomes, SMTT(40)
  <2>3. Method(b) \notin Structured
    BY <1>5, ZenonT(40) DEF Structured
  <2>4. \A e \in {Entry(x.user, x.path)} : IsEntry(e)
    BY EntriesMade, ZenonT(40)
  <2> QED
    BY <2>2, <2>3, <2>4, ListReturnable, ZenonT(60)
<1>6. CASE Method(b) = "SetGraceTime"
  <2>1. OfContainer(s, b) = Outcome([s EXCEPT ![h].grace = x], Success({}))
    BY <1>0, <1>6, Zenon DEF OfContainer
  <2>2. r = Success({})
    BY <2>1, Outcomes, SMTT(40)
  <2>3. Method(b) \notin Structured
    BY <1>6, ZenonT(40) DEF Structured
  <2> QED
    BY <2>2, <2>3, ListReturnable, Zenon
<1>7. CASE Method(b) = "Properties"
  <2>1. OfContainer(s, b) = Reads(s, Entries(s[h].properties))
    BY <1>0, <1>7, ZenonT(60) DEF OfContainer
  <2>2. r = Success(Entries(s[h].properties))
    BY <2>1, Outcomes, ZenonT(40)
  <2>3. Method(b) \notin Structured
    BY <1>7, SMTT(40) DEF Structured
  <2>4. \A e \in Entries(s[h].properties) : IsEntry(e)
    BY EntriesMade, Zenon DEF Entries
  <2> QED
    BY <2>2, <2>3, <2>4, ListReturnable, ZenonT(60)
<1>8. CASE Method(b) = "Property"
  <2> DEFINE none == Failure(Plain("no such property"))
             found == {Entry("value", s[h].properties[x.name])}
  <2>1. OfContainer(s, b)
          = IF x.name \in DOMAIN s[h].properties THEN Reads(s, found) ELSE Outcome(s, none)
    BY <1>0, <1>8, ZenonT(60) DEF OfContainer
  <2>2. Returnable("Property", none)
    BY ErrorReturnable, ZenonT(40)
  <2>3. \A e \in found : IsEntry(e)
    BY EntriesMade, ZenonT(40)
  <2> HIDE DEF none, found
  <2>4. r = none \/ r = Success(found)
    BY <2>1, Outcomes, SMTT(40)
  <2>5. "Property" \notin Structured
    BY ZenonT(40) DEF Structured
  <2> QED
    BY <1>8, <2>2, <2>3, <2>4, <2>5, ListReturnable, ZenonT(60)
<1>9. CASE Method(b) = "SetProperty"
  <2>1. OfContainer(s, b)
          = Outcome([s EXCEPT ![h].properties = Put(@, x.name, x.value)], Success({}))
    BY <1>0, <1>9, ZenonT(60) DEF OfContainer
  <2>2. r = Success({})
    BY <2>1, Outcomes, SMTT(40)
  <2>3. Method(b) \notin Structured
    BY <1>9, ZenonT(40) DEF Structured
  <2> QED
    BY <2>2, <2>3, ListReturnable, Zenon
<1>10. CASE Method(b) = "RemoveProperty"
  <2>1. OfContainer(s, b)
          = Outcome([s EXCEPT ![h].properties = Restrict(@, DOMAIN @ \ {x.name})], Success({}))
    BY <1>0, <1>10, ZenonT(60) DEF OfContainer
  <2>2. r = Success({})
    BY <2>1, Outcomes, SMTT(40)
  <2>3. Method(b) \notin Structured
    BY <1>10, ZenonT(40) DEF Structured
  <2> QED
    BY <2>2, <2>3, ListReturnable, ZenonT(60)
<1>11. CASE Method(b) \in DOMAIN CurrentLimits(h)
  <2>1. OfContainer(s, b) = Reads(s, Entries(CurrentLimits(h)[Method(b)]))
    <3>1. Method(b) \in {"CurrentBandwidthLimits", "CurrentCPULimits", "CurrentDiskLimits",
              "CurrentMemoryLimits"}
      BY <1>11, LimitNames, Zenon
    <3> QED
      BY <1>11, <3>1, ZenonT(60) DEF OfContainer
  <2>2. r = Success(Entries(CurrentLimits(h)[Method(b)]))
    BY <2>1, Outcomes, SMTT(40)
  <2> QED
    BY <1>11, <2>2, LimitNames, StructReturnable, ZenonT(60)
<1>12. CASE Method(b) \in {"Info", "Metrics"}
  <2>1. OfContainer(s, b) = Reads(s, {Entry(Method(b), h)})
    BY <1>0, <1>12, ZenonT(60) DEF OfContainer
  <2>2. r = Success({Entry(Method(b), h)})
    BY <2>1, Outcomes, SMTT(40)
  <2>3. Method(b) \notin Structured
    BY <1>12, SMTT(40) DEF Structured
  <2>4. \A e \in {Entry(Method(b), h)} : IsEntry(e)
    BY EntriesMade, Zenon
  <2> QED
    BY <2>2, <2>3, <2>4, ListReturnable, ZenonT(60)
<1> QED
  BY <1>1, <1>2, <1>3, <1>4, <1>5, <1>6, <1>7, <1>8, <1>9, <1>10, <1>11, <1>12, LimitNames,
       ZenonT(60) DEF MethodsOfContainer

\* Every call of the backend has a result that travels.
LEMMA CallReturnable ==
  ASSUME NEW s, NEW b, Method(b) \in (OfClient \ {"Lookup"}) \cup MethodsOfContainer
  PROVE  Returnable(Method(b), Call(s, b).result)
<1>1. CASE Method(b) \in OfClient
  BY <1>1, ClientReturnable, Zenon DEF Call, MethodsOfContainer, OfClient
<1>2. CASE Method(b) \notin OfClient
  <2>1. Call(s, b).result = OfContainer(s, b).result
          \/ Call(s, b).result = Failure(ContainerNotFoundError(Handle(b)))
    BY <1>2, Outcomes, ZenonT(40) DEF Call
  <2> QED
    BY <1>2, <2>1, ContainerReturnable, ErrorReturnable, ZenonT(60)
<1> QED
  BY <1>1, <1>2, ZenonT(40)

\* A Lookup, which the client makes out of a list of all containers.
LEMMA LookupReturns ==
  ASSUME NEW s, NEW a, Method(a) = "Lookup"
  PROVE  LET b == <<"Containers", "", Nothing>>
         IN  /\ Returned(a, Response("Containers", Call(s, b).result)) = Call(s, a).result
             /\ Call(s, b).store = Call(s, a).store /\ Call(s, b).store = s
<1> DEFINE b == <<"Containers", "", Nothing>>
           h == Handle(a)
           all == {Entry("handle", k) : k \in DOMAIN s}
<1>1. Method(b) = "Containers" /\ Args(b) = Nothing
  BY DEF Method, Args
<1> HIDE DEF b
<1>2. Call(s, b) = Reads(s, all)
  <2>1. \A k : HasProperties(s[k], Nothing)
    BY SMTT(40) DEF HasProperties, Nothing
  <2>2. {k \in DOMAIN s : HasProperties(s[k], Nothing)} = DOMAIN s
    BY <2>1, ZenonT(40)
  <2>3. Call(s, b)
          = Reads(s, {Entry("handle", k) : k \in {k \in DOMAIN s : HasProperties(s[k], Nothing)}})
    BY <1>1, ZenonT(40) DEF Call, OfClient, OfBackend
  <2> QED
    BY <2>2, <2>3, Zenon
<1>3. Call(s, a) = IF h \in DOMAIN s THEN Reads(s, {Entry("handle", h)})
                   ELSE Outcome(s, Failure(ContainerNotFoundError(h)))
  BY ZenonT(40) DEF Call, OfClient, OfBackend
<1>4. Call(s, b).result = Success(all) /\ Call(s, b).store = s
  BY <1>2, Outcomes, SMTT(40)
<1>5. Call(s, a).store = s
  BY <1>3, Outcomes, SMTT(40)
<1>6. Receive(Response("Containers", Success(all))) = Success(all)
  <2>1. Success(all).err = NoError /\ Success(all).entries = all
    BY SMTT(40) DEF Success, Result
  <2>2. DOMAIN AnswerOf("Containers") = {}
    BY Answers, ZenonT(40) DEF Structured
  <2>3. Travels("Containers", all)
    BY <2>2, EntriesMade, ZenonT(40) DEF Travels
  <2> QED
    BY <2>1, <2>2, <2>3, EntriesReturn, ZenonT(60) DEF Response
<1>7. Lookup(h, Success(all)) = Call(s, a).result
  <2>1. Success(all).err = NoError /\ Success(all).entries = all
    BY DEF Success, Result
  <2>2. (\E e \in all : e.value = h) <=> h \in DOMAIN s
    <3>1. \A k : Entry("handle", k).value = k
      BY DEF Entry
    <3> QED
      BY <3>1, ZenonT(40)
  <2>3. CASE h \in DOMAIN s
    <3>1. Call(s, a).result = Success({Entry("handle", h)})
      BY <1>3, <2>3, Outcomes, SMTT(40)
    <3> QED
      BY <2>1, <2>2, <2>3, <3>1, ZenonT(60) DEF Lookup
  <2>4. CASE h \notin DOMAIN s
    BY <1>3, <2>1, <2>2, <2>4, Outcomes, SMTT(60) DEF Lookup
  <2> QED
    BY <2>3, <2>4, ZenonT(40)
<1> QED
  BY <1>4, <1>5, <1>6, <1>7, ZenonT(60) DEF Returned, b
-----------------------------------------------------------------------------
\* The abstract specification has the same backend, errors and results.
LEMMA SameCall == ASSUME NEW s, NEW a PROVE Local!Call(s, a) = Call(s, a)
BY ZenonT(40) DEF Local!Call, Local!Method, Local!Handle, Local!OfClient, Local!OfBackend,
     Local!OfContainer, Local!Outcome, Local!Failure, Local!ContainerNotFoundError,
  Call, Method, Handle, OfClient, OfBackend, OfContainer, Outcome, Failure,
       ContainerNotFoundError,
  Local!Result, Local!GoError, Local!NoError, Local!Entry, Local!ErrorEntry, Local!Success,
  Local!Args, Local!Reads, Local!Acts, Local!Entries, Local!CapacityAnswer, Local!Plain,
  Local!Put, Local!NewContainer, Local!Restrict, Local!HasProperties, Local!BulkEntries,
  Local!Range, Local!ProcessNotFoundError, Local!Ports, Local!CurrentLimits,
  Local!BandwidthLimits, Local!CPULimits, Local!DiskLimits, Local!MemoryLimits,
  Result, GoError, NoError, Entry, ErrorEntry, Success, Args, Reads, Acts, Entries,
  CapacityAnswer, Plain, Put, NewContainer, Restrict, HasProperties, BulkEntries, Range,
       ProcessNotFoundError, Ports, CurrentLimits, BandwidthLimits, CPULimits, DiskLimits,
            MemoryLimits

\* So are the marks for a call that was not made or not answered, and the errors.
LEMMA SameValues ==
  /\ Local!NotMade = NotMade /\ Local!NotYet = NotYet /\ Local!BrokenConnection = BrokenConnection
  /\ \A e : Local!Failure(Local!Known(e)) = Failure(Known(e))
  /\ Local!Success({Local!Entry("partial", "stream")}) = Success({Entry("partial", "stream")})
  /\ Local!Success({}) = Success({})
  /\ \A a : Local!Method(a) = Method(a) /\ Local!Handle(a) = Handle(a)
BY DEF Local!NotMade, Local!NotYet, Local!BrokenConnection, Local!Failure, Local!Known,
     Local!Success,
       Local!Entry, Local!Method, Local!Handle, Local!Result, Local!GoError, Local!NoError, Local!NamedTypes,
       Local!Plain,
       NotMade, NotYet, BrokenConnection, Failure, Known, Success, Entry, Method, Handle, Result,
       GoError, NoError,
       NamedTypes, Plain

\* What the caller means is what reaches the backend, but for a Lookup.
LEMMA MeantReaches ==
  ASSUME NEW a, IsCall(a)
  PROVE  /\ Method(a) = "Lookup" => Local!Meant(a) = a
              /\ Reaches(a) = <<"Containers", "", Nothing>>
         /\ Method(a) # "Lookup" => Local!Meant(a) = Reaches(a) /\ Method(Reaches(a)) = Method(a)
<1>1. Local!Meant(a) = IF Method(a) # "Create" \/ Args(a).grace_time # "0" THEN a
                       ELSE <<"Create", "", [Args(a) EXCEPT !.grace_time = containerGraceTime]>>
  BY ZenonT(40) DEF Local!Meant, Local!Method, Local!Args, Method, Args
<1>2. \A x : Method(<<"Create", "", x>>) = "Create"
  BY ZenonT(40) DEF Method
<1> QED
  BY <1>1, <1>2, ZenonT(40) DEF Reaches

\* The status of a success tells the two apart no more than it does the methods.
LEMMA SameStatus ==
  ASSUME NEW a, IsCall(a)
  PROVE  StatusOf(Method(Reaches(a))) = StatusOf(Method(a))
<1>1. CASE Method(a) = "Lookup"
  <2>1. Method(Reaches(a)) = "Containers"
    BY <1>1, Zenon DEF Reaches, Method
  <2> QED
    BY <1>1, <2>1, Zenon DEF StatusOf
<1>2. CASE Method(a) # "Lookup"
  BY <1>2, MeantReaches, ZenonT(40)
<1> QED
  BY <1>1, <1>2, Zenon

\* The interfaces have no other methods.
LEMMA CallMethods ==
  ASSUME NEW a, IsCall(a)
  PROVE  Method(a) \in OfClient \cup MethodsOfContainer
<1>1. CASE Method(a) \in WithHandleOnly \cup {"Ping", "Capacity"}
  BY <1>1, ZenonT(40) DEF WithHandleOnly, OfClient, MethodsOfContainer
<1>2. CASE Method(a) \in {"Containers", "SetGraceTime"} \cup {"BulkInfo", "BulkMetrics"}
                           \cup {"Create", "Run", "NetOut", "BulkNetOut"}
  BY <1>2, ZenonT(40) DEF OfClient, MethodsOfContainer
<1>3. CASE Method(a) \in {"NetIn", "Stop", "StreamIn", "StreamOut", "Attach", "Property",
          "RemoveProperty", "SetProperty"}
  BY <1>3, ZenonT(40) DEF MethodsOfContainer
<1> QED
  BY <1>1, <1>2, <1>3, ZenonT(60) DEF IsCall, TakesArgs

\* A result, or an error that errors.go knows.
Settled(r) ==
  /\ r.err = NoError \/ r.err.type \in NamedTypes \cup {"plain"}
  /\ r.err # NoError => r.entries = {}

\* What a handler returns is settled.
LEMMA ReturnableSettled ==
  ASSUME NEW m, NEW r, Returnable(m, r)
  PROVE  Settled(r)
<1>1. \A E : Success(E).err = NoError
  BY SMTT(40) DEF Success, Result
<1>2. \A e : Failure(e).err = e /\ Failure(e).entries = {}
  BY DEF Failure, Result
<1>3. \A type, text : GoError(type, text).type = type
  BY ErrorFacts, ZenonT(40)
<1>4. ASSUME NEW type \in NamedTypes \cup {"plain"}, NEW text, r = Failure(GoError(type, text))
      PROVE  Settled(r)
  BY <1>2, <1>3, <1>4, SMTT(60) DEF Settled
<1>5. ASSUME NEW E, r = Success(E)
      PROVE  Settled(r)
  BY <1>1, <1>5, Zenon DEF Settled
<1> QED
  BY <1>4, <1>5, ZenonT(40) DEF Returnable

\* So the caller can tell it from no answer.
LEMMA SettledIsNot ==
  ASSUME NEW r, Settled(r)
  PROVE  r # NotYet
<1>1. NotYet.err.type = "not yet" /\ NotYet.err # NoError
  BY Zenon DEF NotYet, Failure, Result, GoError, NoError
<1>2. "not yet" \notin NamedTypes \cup {"plain"}
  BY SMTT(40) DEF NamedTypes
<1> QED
  BY <1>1, <1>2, ZenonT(40) DEF Settled

\* A call that is served has the result, and the effect, that its caller meant.
LEMMA ServedAsMeant ==
  ASSUME NEW s, NEW a, IsCall(a)
  PROVE  LET b == Handled(Request(a))
             meant == Local!Call(s, Local!Meant(a))
         IN  /\ Returned(a, Response(Method(b), Call(s, b).result)) = meant.result
             /\ Call(s, b).store = meant.store
             /\ Settled(meant.result)
<1>1. Handled(Request(a)) = Reaches(a)
  BY CallArrives, ZenonT(40) DEF Arrives
<1>2. Local!Call(s, Local!Meant(a)) = Call(s, Local!Meant(a))
  BY SameCall, ZenonT(40)
<1>3. CASE Method(a) = "Lookup"
  <2> DEFINE b == <<"Containers", "", Nothing>>
  <2>1. Local!Meant(a) = a /\ Reaches(a) = b
    BY <1>3, MeantReaches, ZenonT(40)
  <2>2. /\ Returned(a, Response("Containers", Call(s, b).result)) = Call(s, a).result
        /\ Call(s, b).store = Call(s, a).store
    BY <1>3, LookupReturns, ZenonT(40)
  <2>3. Method(b) = "Containers"
    BY ZenonT(40) DEF Method
  <2>4. Settled(Call(s, a).result)
    <3>1. \A E : Success(E).err = NoError
      BY ZenonT(40) DEF Success, Result
    <3>2. \A h : /\ Failure(ContainerNotFoundError(h)).err.type \in NamedTypes
                 /\ Failure(ContainerNotFoundError(h)).entries = {}
      BY ZenonT(40) DEF Failure, Result, ContainerNotFoundError, GoError, NamedTypes
    <3>3. Call(s, a) = IF Handle(a) \in DOMAIN s THEN Reads(s, {Entry("handle", Handle(a))})
                       ELSE Outcome(s, Failure(ContainerNotFoundError(Handle(a))))
      BY <1>3, ZenonT(60) DEF Call, OfClient, OfBackend
    <3>4. \/ Call(s, a).result = Success({Entry("handle", Handle(a))})
          \/ Call(s, a).result = Failure(ContainerNotFoundError(Handle(a)))
      BY <3>3, Outcomes, SMTT(60)
    <3> QED
      BY <3>1, <3>2, <3>4, ZenonT(60) DEF Settled
  <2> HIDE DEF b
  <2> QED
    BY <1>1, <1>2, <2>1, <2>2, <2>3, <2>4, ZenonT(60)
<1>4. CASE Method(a) # "Lookup"
  <2> DEFINE b == Reaches(a)
  <2>1. Local!Meant(a) = b /\ Method(b) = Method(a)
    BY <1>4, MeantReaches, ZenonT(40)
  <2>2. Returnable(Method(b), Call(s, b).result)
    BY <1>4, <2>1, CallMethods, CallReturnable, ZenonT(60)
  <2>3. Returned(a, Response(Method(a), Call(s, b).result)) = Call(s, b).result
    BY <1>4, <2>1, <2>2, ResultReturns, ZenonT(60)
  <2>4. Settled(Call(s, b).result)
    BY <2>2, ReturnableSettled, Zenon
  <2> HIDE DEF b
  <2> QED
    BY <1>1, <1>2, <2>1, <2>3, <2>4, ZenonT(60) DEF b
<1> QED
  BY <1>3, <1>4, ZenonT(40)
-----------------------------------------------------------------------------
\* An answer to call a, with the status of its method or of an error.
AnswerTo(a, r) ==
  /\ r.status \in {0, StatusOf(Method(a)), 404, 500}
  /\ r.status \in {0, 404, 500} => r.entries = {}

\* Those that the handlers write.
LEMMA WrittenTo ==
  ASSUME NEW a, NEW m, StatusOf(m) = StatusOf(Method(a))
  PROVE  /\ \A E : writeResponse(m, E) # NoResponse /\ AnswerTo(a, writeResponse(m, E))
         /\ \A e : writeError(e) # NoResponse /\ AnswerTo(a, writeError(e))
<1>1. ASSUME NEW E
      PROVE  writeResponse(m, E) # NoResponse /\ AnswerTo(a, writeResponse(m, E))
  <2> DEFINE r == writeResponse(m, E)
  <2>1. r # NoResponse /\ r.status = StatusOf(Method(a)) /\ r.status \in {200, 201}
    BY Written, SMTT(40)
  <2>2. r.status \notin {0, 404, 500}
    BY <2>1, SMTT(40)
  <2> HIDE DEF r
  <2>3. AnswerTo(a, r)
    BY <2>1, <2>2, ZenonT(40) DEF AnswerTo
  <2> QED
    BY <2>1, <2>3, ZenonT(40) DEF r
<1>2. ASSUME NEW e
      PROVE  writeError(e) # NoResponse /\ AnswerTo(a, writeError(e))
  BY Written, SMTT(40) DEF AnswerTo
<1> QED
  BY <1>1, <1>2, ZenonT(40)

\* What holds of a call, its request, its answer and its result: the request is that of the
\* call, there is an answer only to a request that arrived, and it says what the caller gets.
SlotOK(a, req, resp, gone, ret) ==
  /\ \/ a = NotMade /\ req = NoRequest
     \/ \E i \in DOMAIN Calls : a = Calls[i] /\ req = Request(a)
  /\ resp # NoResponse => req # NoRequest /\ ~gone /\ Settled(Returned(a, resp))
  /\ AnswerTo(a, resp)
  /\ ret.err # NoError => ret.entries = {}

\* One value per slot.
OnSlots(f) == f = [c \in Slots |-> f[c]]

\* The inductive invariant: the slots do not mix.
RemoteInv ==
  /\ OnSlots(call) /\ OnSlots(request) /\ OnSlots(response) /\ OnSlots(lost) /\ OnSlots(returned)
  /\ \A c \in Slots : SlotOK(call[c], request[c], response[c], lost[c], returned[c])

\* No other slot changes.
ChangesOnly(c) ==
  /\ call' = [call EXCEPT ![c] = call'[c]] /\ request' = [request EXCEPT ![c] = request'[c]]
  /\ response' = [response EXCEPT ![c] = response'[c]] /\ lost' = [lost EXCEPT ![c] = lost'[c]]
  /\ returned' = [returned EXCEPT ![c] = returned'[c]]

\* The invariant is kept by a change of one slot that keeps it there.
LEMMA SlotByItself ==
  ASSUME RemoteInv, NEW c \in Slots, ChangesOnly(c),
         SlotOK(call'[c], request'[c], response'[c], lost'[c], returned'[c])
  PROVE  RemoteInv'
<1>1. OnSlots(call) /\ OnSlots(request) /\ OnSlots(response) /\ OnSlots(lost) /\ OnSlots(returned)
  BY ZenonT(40) DEF RemoteInv
<1>2. OnSlots(call') /\ OnSlots(request') /\ OnSlots(response') /\ OnSlots(lost')
        /\ OnSlots(returned')
  BY <1>1, ZenonT(40) DEF OnSlots, ChangesOnly
<1>3. ASSUME NEW d \in Slots, d # c
      PROVE  SlotOK(call'[d], request'[d], response'[d], lost'[d], returned'[d])
  <2>1. /\ call'[d] = call[d] /\ request'[d] = request[d] /\ response'[d] = response[d]
        /\ lost'[d] = lost[d] /\ returned'[d] = returned[d]
    BY <1>1, <1>3, ZenonT(40) DEF OnSlots, ChangesOnly
  <2> QED
    BY <2>1, ZenonT(40) DEF RemoteInv
<1>4. \A d \in Slots : SlotOK(call'[d], request'[d], response'[d], lost'[d], returned'[d])
  BY <1>3, ZenonT(40)
<1>5. RemoteInv' <=>
        /\ OnSlots(call') /\ OnSlots(request') /\ OnSlots(response') /\ OnSlots(lost')
             /\ OnSlots(returned')
        /\ \A d \in Slots : SlotOK(call'[d], request'[d], response'[d], lost'[d], returned'[d])
  BY ZenonT(40) DEF RemoteInv, OnSlots, SlotOK
<1> QED
  BY <1>2, <1>4, <1>5, ZenonT(60)

\* What the slot of a request holds.
LEMMA SlotFacts ==
  ASSUME RemoteInv, NEW c \in Slots
  PROVE  /\ call[c] = NotMade <=> request[c] = NoRequest
         /\ request[c] # NoRequest => IsCall(call[c]) /\ request[c] = Request(call[c])
         /\ response[c] # NoResponse => request[c] # NoRequest
              /\ Settled(Returned(call[c], response[c]))
<1>1. SlotOK(call[c], request[c], response[c], lost[c], returned[c])
  BY Zenon DEF RemoteInv
<1>2. \A a : IsCall(a) => a # NotMade /\ Request(a) # NoRequest
  <2>1. Method(NotMade) = "none"
    BY ZenonT(40) DEF Method, NotMade
  <2>2. "none" \notin OfClient \cup MethodsOfContainer
    BY ZenonT(40) DEF OfClient, MethodsOfContainer
  <2> QED
    BY <2>1, <2>2, CallMethods, CallArrives, ZenonT(60) DEF Arrives
<1>3. \A i \in DOMAIN Calls : IsCall(Calls[i])
  BY CallsAssumption, ZenonT(40)
<1>4. \/ call[c] = NotMade /\ request[c] = NoRequest
      \/ IsCall(call[c]) /\ request[c] = Request(call[c])
  BY <1>1, <1>3, ZenonT(60) DEF SlotOK
<1>5. response[c] # NoResponse => request[c] # NoRequest
        /\ Settled(Returned(call[c], response[c]))
  BY <1>1, ZenonT(60) DEF SlotOK
<1> QED
  BY <1>2, <1>4, <1>5, ZenonT(60)

\* An answer that the handler writes is one, and the caller of its slot gets a result.
LEMMA Responds ==
  ASSUME RemoteInv, NEW c \in Slots, Arrived(c), NEW r, Respond(c, r),
         UNCHANGED <<call, request, lost, returned>>,
         r # NoResponse, AnswerTo(call[c], r), Settled(Returned(call[c], r))
  PROVE  /\ RemoteInv'
         /\ Local!Pending(c)
         /\ [d \in Slots |-> Answer(d)]'
              = [[d \in Slots |-> Answer(d)] EXCEPT ![c] = Returned(call[c], r)]
<1>1. SlotOK(call[c], request[c], response[c], lost[c], returned[c])
  BY ZenonT(60) DEF RemoteInv
<1>2. request[c] # NoRequest /\ ~lost[c] /\ response[c] = NoResponse
  BY DEF Arrived
<1>3. SlotOK(call[c], request[c], r, lost[c], returned[c])
  BY <1>1, <1>2, ZenonT(60) DEF SlotOK
<1>4. OnSlots(call) /\ OnSlots(request) /\ OnSlots(response) /\ OnSlots(lost) /\ OnSlots(returned)
  BY ZenonT(40) DEF RemoteInv
<1>5. RemoteInv'
  <2>1. ChangesOnly(c) /\ response'[c] = r
    BY <1>4, ZenonT(60) DEF OnSlots, Respond, ChangesOnly
  <2>2. SlotOK(call'[c], request'[c], response'[c], lost'[c], returned'[c])
    BY <1>3, <2>1, ZenonT(40)
  <2> QED
    BY <2>1, <2>2, SlotByItself, SMTT(60)
<1>6. Local!Pending(c)
  <2>1. call[c] # Local!NotMade
    BY <1>2, SlotFacts, SameValues, ZenonT(60)
  <2>2. Answer(c) = Local!NotYet
    BY <1>2, SameValues, ZenonT(60) DEF Answer
  <2> QED
    BY <2>1, <2>2, ZenonT(40) DEF Local!Pending, Local!Made
<1>7. [d \in Slots |-> Answer(d)]'
        = [[d \in Slots |-> Answer(d)] EXCEPT ![c] = Returned(call[c], r)]
  <2>1. \A d \in Slots : Answer(d)' = IF d = c THEN Returned(call[c], r) ELSE Answer(d)
    <3>1. response'[c] = r /\ \A d \in Slots : d # c => response'[d] = response[d]
      BY <1>4, ZenonT(40) DEF OnSlots, Respond
    <3>2. \A d \in Slots :
            Answer(d)' = IF response'[d] = NoResponse THEN NotYet
                         ELSE Returned(call[d], response'[d])
      BY ZenonT(40) DEF Answer
    <3>3. Answer(c)' = Returned(call[c], r)
      BY <3>1, <3>2, ZenonT(40)
    <3>4. ASSUME NEW d \in Slots, d # c  PROVE Answer(d)' = Answer(d)
      BY <3>1, <3>2, <3>4, SMTT(60) DEF Answer
    <3> QED
      BY <3>3, <3>4, ZenonT(60)
  <2> DEFINE v == Returned(call[c], r)
  <2>2. [d \in Slots |-> Answer(d)]' = [d \in Slots |-> IF d = c THEN v ELSE Answer(d)]
    BY <2>1, ZenonT(120)
  <2> HIDE DEF v
  <2>3. [[d \in Slots |-> Answer(d)] EXCEPT ![c] = v]
          = [d \in Slots |-> IF d = c THEN v ELSE Answer(d)]
    BY ZenonT(40)
  <2> QED
    BY <2>2, <2>3, ZenonT(40) DEF v
<1> QED
  BY <1>5, <1>6, <1>7, ZenonT(40)

\* As long as no slot has a new answer, the abstract answers stay.
LEMMA AnswersKept ==
  ASSUME \A c \in Slots : Answer(c)' = Answer(c)
  PROVE  [c \in Slots |-> Answer(c)]' = [c \in Slots |-> Answer(c)]
BY SMTT(40)

\* The client builds and sends the request of one of the calls.
LEMMA SendIsInvoke ==
  ASSUME RemoteInv, NEW c \in Slots, Send(c)
  PROVE  RemoteInv' /\ \E i \in DOMAIN Calls : Local!Invoke(c, Calls[i])
<1>1. PICK i \in DOMAIN Calls : /\ call' = [call EXCEPT ![c] = Calls[i]]
                                /\ request' = [request EXCEPT ![c] = Request(Calls[i])]
  BY ZenonT(40) DEF Send
<1>2. /\ OnSlots(call) /\ OnSlots(request) /\ OnSlots(response) /\ OnSlots(lost)
           /\ OnSlots(returned)
      /\ SlotOK(call[c], request[c], response[c], lost[c], returned[c])
  BY ZenonT(40) DEF RemoteInv
<1>3. request[c] = NoRequest /\ UNCHANGED <<store, response, lost, returned>>
  BY ZenonT(40) DEF Send
<1>4. response[c] = NoResponse
  BY <1>3, SlotFacts, Zenon
<1>5. ChangesOnly(c) /\ call'[c] = Calls[i] /\ request'[c] = Request(Calls[i])
        /\ response'[c] = response[c] /\ lost'[c] = lost[c] /\ returned'[c] = returned[c]
  BY <1>1, <1>2, <1>3, ZenonT(60) DEF OnSlots, ChangesOnly
<1>6. SlotOK(Calls[i], Request(Calls[i]), response[c], lost[c], returned[c])
  <2>1. AnswerTo(Calls[i], response[c])
    <3>1. NoResponse.status = 0 /\ NoResponse.entries = {}
      BY DEF NoResponse
    <3> QED
      BY <1>4, <3>1, SMTT(40) DEF AnswerTo
  <2> QED
    BY <1>2, <1>4, <2>1, ZenonT(60) DEF SlotOK
<1>7. RemoteInv'
  BY <1>5, <1>6, SlotByItself, ZenonT(40)
<1>8. \A d \in Slots : Answer(d)' = Answer(d)
  <2>1. ASSUME NEW d \in Slots, d # c  PROVE Answer(d)' = Answer(d)
    <3>1. call'[d] = call[d] /\ response'[d] = response[d]
      BY <1>1, <1>2, <1>3, <2>1, ZenonT(60) DEF OnSlots
    <3> QED
      BY <3>1, ZenonT(40) DEF Answer
  <2>2. Answer(c)' = Answer(c)
    BY <1>4, <1>5, ZenonT(40) DEF Answer
  <2> QED
    BY <2>1, <2>2, ZenonT(40)
<1>9. Local!Invoke(c, Calls[i])
  <2>1. call[c] = Local!NotMade
    BY <1>3, SlotFacts, SameValues, ZenonT(60)
  <2> QED
    BY <1>1, <1>3, <1>8, <2>1, AnswersKept, ZenonT(40) DEF Local!Invoke, Local!Made
<1> QED
  BY <1>7, <1>9, ZenonT(40)

\* The handler calls the backend, and writes what it returns: the call takes effect, with
\* that result (request_handling.go).
LEMMA ServeIsPerform ==
  ASSUME RemoteInv, NEW c \in Slots, Serve(c)
  PROVE  RemoteInv' /\ Local!Perform(c)
<1> DEFINE a == call[c]
           b == Handled(Request(a))
           r == Response(Method(b), Call(store, b).result)
           meant == Local!Call(store, Local!Meant(a))
<1>1. Arrived(c) /\ UNCHANGED <<call, request, lost, returned>>
  BY SMTT(40) DEF Serve
<1>2. IsCall(a) /\ request[c] = Request(a)
  BY <1>1, SlotFacts, ZenonT(40) DEF Arrived
<1>3. store' = Call(store, b).store /\ Respond(c, r)
  BY <1>2, ZenonT(40) DEF Serve, CallBackend, Finish, Response
<1>4. Returned(a, r) = meant.result /\ Call(store, b).store = meant.store /\ Settled(meant.result)
  BY <1>2, ServedAsMeant, ZenonT(40)
<1>5. r # NoResponse /\ AnswerTo(a, r)
  <2>1. StatusOf(Method(b)) = StatusOf(Method(a))
    BY <1>2, CallArrives, SameStatus, ZenonT(40) DEF Arrives
  <2>2. \/ r = writeResponse(Method(b), Call(store, b).result.entries)
        \/ r = writeError(Call(store, b).result.err)
    BY Zenon DEF Response
  <2> HIDE DEF r, b
  <2> QED
    BY <2>1, <2>2, WrittenTo, ZenonT(60)
<1> HIDE DEF r, meant, b
<1>6. Settled(Returned(call[c], r))
  BY <1>4, ZenonT(40)
<1>7. /\ RemoteInv' /\ Local!Pending(c)
      /\ [d \in Slots |-> Answer(d)]'
           = [[d \in Slots |-> Answer(d)] EXCEPT ![c] = Returned(call[c], r)]
  BY <1>1, <1>3, <1>5, <1>6, Responds, SMTT(60)
<1>8. Local!Perform(c)
  <2>1. [d \in Slots |-> Answer(d)]' = [[d \in Slots |-> Answer(d)] EXCEPT ![c] = meant.result]
    BY <1>4, <1>7, ZenonT(40)
  <2>2. store' = meant.store
    BY <1>3, <1>4, ZenonT(40)
  <2> QED
    BY <1>1, <1>7, <2>1, <2>2, ZenonT(60) DEF Local!Perform, meant
<1> QED
  BY <1>7, <1>8, ZenonT(40)

\* The handler writes an error of the backend: the call is refused with what errors.go
\* keeps of that error.
LEMMA ServeErrorIsRefuse ==
  ASSUME RemoteInv, NEW c \in Slots, ServeError(c)
  PROVE  RemoteInv' /\ \E e \in Failures : Local!Refuse(c, e)
<1>1. Arrived(c) /\ UNCHANGED <<store, call, request, lost, returned>>
  BY ZenonT(40) DEF ServeError
<1>2. PICK e \in Failures : Respond(c, writeError(e))
  BY SMTT(40) DEF ServeError
<1>3. e = GoError(e.type, e.text)
  BY FailuresAssumption, ZenonT(40)
<1>4. Returned(call[c], writeError(e)) = Failure(Known(e))
  BY <1>3, ErrorReturns, Zenon
<1>5. Settled(Failure(Known(e)))
  <2>1. Known(e).type \in NamedTypes \cup {"plain"}
    BY <1>3, ErrorFacts, ZenonT(60)
  <2>2. Failure(Known(e)).err = Known(e) /\ Failure(Known(e)).entries = {}
    BY DEF Failure, Result
  <2> QED
    BY <2>1, <2>2, Zenon DEF Settled
<1>6. writeError(e) # NoResponse /\ AnswerTo(call[c], writeError(e))
  BY WrittenTo, ZenonT(40)
<1>7. /\ RemoteInv' /\ Local!Pending(c)
      /\ [d \in Slots |-> Answer(d)]'
           = [[d \in Slots |-> Answer(d)] EXCEPT ![c] = Failure(Known(e))]
  <2>1. Settled(Returned(call[c], writeError(e)))
    BY <1>4, <1>5, ZenonT(40)
  <2>2. /\ RemoteInv' /\ Local!Pending(c)
        /\ [d \in Slots |-> Answer(d)]'
             = [[d \in Slots |-> Answer(d)] EXCEPT ![c] = Returned(call[c], writeError(e))]
    BY <1>1, <1>2, <1>6, <2>1, Responds, ZenonT(40)
  <2> QED
    BY <1>4, <2>2, ZenonT(40)
<1>8. Local!Refuse(c, e)
  <2>1. Local!Failure(Local!Known(e)) = Failure(Known(e))
    BY SameValues, Zenon
  <2> QED
    BY <1>1, <1>7, <2>1, ZenonT(40) DEF Local!Refuse
<1> QED
  BY <1>7, <1>8, ZenonT(40)

\* What the handlers of SetGraceTime and StreamOut find is what the caller named.
LEMMA FoundAsNamed ==
  ASSUME RemoteInv, NEW c \in Slots, Arrived(c), NEW m \in {"SetGraceTime", "StreamOut"},
         Method(Handled(request[c])) = m
  PROVE  /\ Method(call[c]) = m
         /\ Handle(Handled(request[c])) = Handle(call[c])
<1> DEFINE a == call[c]
<1>1. IsCall(a) /\ request[c] = Request(a)
  BY SlotFacts, ZenonT(40) DEF Arrived
<1>2. Handled(request[c]) = Reaches(a)
  BY <1>1, CallArrives, ZenonT(40) DEF Arrives
<1>3. CASE Method(a) = "Lookup"
  <2>1. Method(Reaches(a)) = "Containers"
    BY <1>3, Zenon DEF Reaches, Method
  <2> QED
    BY <1>2, <2>1, ZenonT(40)
<1>4. CASE Method(a) # "Lookup"
  <2>1. Method(a) = m
    BY <1>1, <1>2, <1>4, MeantReaches, ZenonT(40)
  <2>2. Method(a) \notin {"Lookup", "Create"}
    BY <2>1, ZenonT(40)
  <2>3. Reaches(a) = a
    BY <2>2, ZenonT(40) DEF Reaches
  <2> QED
    BY <1>2, <2>1, <2>3, ZenonT(40)
<1> QED
  BY <1>3, <1>4, Zenon

\* A handler that answers with these entries and leaves the containers as they are.
LEMMA AnswersWith ==
  ASSUME RemoteInv, NEW c \in Slots, Arrived(c), NEW m \in {"SetGraceTime", "StreamOut"},
         Method(call[c]) = m, NEW E, \A e \in E : IsEntry(e), Respond(c, writeResponse(m, E)),
         UNCHANGED <<call, request, lost, returned>>
  PROVE  /\ RemoteInv' /\ Local!Pending(c)
         /\ [d \in Slots |-> Answer(d)]' = [[d \in Slots |-> Answer(d)] EXCEPT ![c] = Success(E)]
<1> DEFINE a == call[c]
           r == writeResponse(m, E)
<1>1. Returned(a, r) = Success(E)
  <2>1. m \notin Structured /\ m # "Lookup"
    BY ZenonT(40) DEF Structured
  <2>2. Success(E).err = NoError /\ Success(E).entries = E
    BY DEF Success, Result
  <2>3. Returnable(m, Success(E)) /\ Response(m, Success(E)) = r
    BY <2>1, <2>2, ListReturnable, Zenon DEF Response
  <2> QED
    BY <2>1, <2>3, ResultReturns, ZenonT(60)
<1>2. Settled(Success(E))
  BY ZenonT(40) DEF Settled, Success, Result
<1>3. r # NoResponse /\ AnswerTo(a, r)
  BY WrittenTo, ZenonT(40)
<1> HIDE DEF r
<1>4. Settled(Returned(call[c], r))
  BY <1>1, <1>2, Zenon
<1>5. Respond(c, r)
  BY Zenon DEF r
<1>6. /\ RemoteInv' /\ Local!Pending(c)
      /\ [d \in Slots |-> Answer(d)]'
           = [[d \in Slots |-> Answer(d)] EXCEPT ![c] = Returned(call[c], r)]
  BY <1>3, <1>4, <1>5, Responds, ZenonT(40)
<1> QED
  BY <1>1, <1>6, ZenonT(40)

\* The error of the container is only logged: the caller gets a success
\* (request_handling.go:716-723).
LEMMA GraceTimeFailsIsIgnore ==
  ASSUME RemoteInv, NEW c \in Slots, GraceTimeFails(c)
  PROVE  RemoteInv' /\ Local!Ignore(c)
<1> DEFINE b == Handled(request[c])
<1>1. /\ Arrived(c) /\ Method(b) = "SetGraceTime" /\ Handle(b) \in DOMAIN store
      /\ Respond(c, writeResponse("SetGraceTime", {}))
      /\ UNCHANGED <<store, call, request, lost, returned>>
  BY Zenon DEF GraceTimeFails, Finds
<1>2. Method(call[c]) = "SetGraceTime" /\ Handle(call[c]) \in DOMAIN store
  BY <1>1, FoundAsNamed, ZenonT(40)
<1>3. /\ RemoteInv' /\ Local!Pending(c)
      /\ [d \in Slots |-> Answer(d)]' = [[d \in Slots |-> Answer(d)] EXCEPT ![c] = Success({})]
  BY <1>1, <1>2, AnswersWith, ZenonT(40)
<1>4. /\ Local!Success({}) = Success({}) /\ Local!Method(call[c]) = "SetGraceTime"
      /\ Local!Handle(call[c]) \in DOMAIN store
  BY <1>2, SameValues, Zenon
<1> QED
  BY <1>1, <1>3, <1>4, ZenonT(40) DEF Local!Ignore

\* The copy of a stream fails half way: the caller gets the part, without an error.
LEMMA StreamBreaksIsTruncate ==
  ASSUME RemoteInv, NEW c \in Slots, StreamBreaks(c)
  PROVE  RemoteInv' /\ Local!Truncate(c)
<1> DEFINE b == Handled(request[c])
           E == {Entry("partial", "stream")}
<1>1. /\ Arrived(c) /\ Method(b) = "StreamOut" /\ Handle(b) \in DOMAIN store
      /\ Respond(c, writeResponse("StreamOut", E))
      /\ UNCHANGED <<store, call, request, lost, returned>>
  BY Zenon DEF StreamBreaks, Finds
<1>2. Method(call[c]) = "StreamOut" /\ Handle(call[c]) \in DOMAIN store
  BY <1>1, FoundAsNamed, ZenonT(40)
<1>3. \A e \in E : IsEntry(e)
  BY EntriesMade, Zenon
<1>4. /\ Local!Success({Local!Entry("partial", "stream")}) = Success(E)
      /\ Local!Method(call[c]) = "StreamOut" /\ Local!Handle(call[c]) \in DOMAIN store
  BY <1>2, SameValues, Zenon
<1> HIDE DEF E
<1>5. /\ RemoteInv' /\ Local!Pending(c)
      /\ [d \in Slots |-> Answer(d)]' = [[d \in Slots |-> Answer(d)] EXCEPT ![c] = Success(E)]
  BY <1>1, <1>2, <1>3, AnswersWith, ZenonT(40)
<1> QED
  BY <1>1, <1>4, <1>5, ZenonT(40) DEF Local!Truncate

\* The client makes a result of the response and returns it.
LEMMA ReturnIsReturn ==
  ASSUME RemoteInv, NEW c \in Slots, ReturnResult(c)
  PROVE  RemoteInv' /\ Local!Return(c)
<1> DEFINE result == Returned(call[c], response[c])
<1>1. /\ response[c] # NoResponse /\ returned[c] = NotYet
      /\ returned' = [returned EXCEPT ![c] = result]
      /\ UNCHANGED <<store, call, request, response, lost>>
  BY DEF ReturnResult
<1>2. /\ OnSlots(call) /\ OnSlots(request) /\ OnSlots(response) /\ OnSlots(lost)
           /\ OnSlots(returned)
      /\ SlotOK(call[c], request[c], response[c], lost[c], returned[c])
  BY Zenon DEF RemoteInv
<1>3. Settled(result) /\ result # NotYet
  BY <1>1, SlotFacts, SettledIsNot, ZenonT(60)
<1>4. Answer(c) = result
  BY <1>1, Zenon DEF Answer
<1> HIDE DEF result
<1>5. RemoteInv'
  <2>1. SlotOK(call[c], request[c], response[c], lost[c], result)
    BY <1>2, <1>3, ZenonT(60) DEF SlotOK, Settled
  <2>2. ChangesOnly(c) /\ returned'[c] = result
    BY <1>1, <1>2, Zenon DEF OnSlots, ChangesOnly
  <2>3. SlotOK(call'[c], request'[c], response'[c], lost'[c], returned'[c])
    BY <1>1, <2>1, <2>2, ZenonT(40)
  <2> QED
    BY <2>2, <2>3, SlotByItself, ZenonT(40)
<1>6. [d \in Slots |-> Answer(d)]' = [d \in Slots |-> Answer(d)]
  BY <1>1, ZenonT(40) DEF Answer
<1>7. Local!Return(c)
  <2>1. Local!NotYet = NotYet
    BY SameValues, Zenon
  <2>2. [d \in Slots |-> Answer(d)][c] = result
    BY <1>4, SMTT(40)
  <2> QED
    BY <1>1, <1>3, <1>6, <2>1, <2>2, ZenonT(40) DEF Local!Return
<1> QED
  BY <1>5, <1>7, ZenonT(40)

\* The connection breaks before the request is through, or after.
LEMMA LossIsBreak ==
  ASSUME RemoteInv, NEW c \in Slots, LoseRequest(c) \/ LoseAnswer(c)
  PROVE  RemoteInv' /\ Local!Break(c)
<1>1. /\ request[c] # NoRequest /\ returned[c] = NotYet
      /\ returned' = [returned EXCEPT ![c] = BrokenConnection]
      /\ UNCHANGED <<store, call, request, response>>
  BY DEF LoseRequest, LoseAnswer, Arrived
<1>2. \/ response[c] = NoResponse /\ lost' = [lost EXCEPT ![c] = TRUE]
      \/ lost' = lost
  BY DEF LoseRequest, LoseAnswer, Arrived
<1>3. /\ OnSlots(call) /\ OnSlots(request) /\ OnSlots(response) /\ OnSlots(lost)
           /\ OnSlots(returned)
      /\ SlotOK(call[c], request[c], response[c], lost[c], returned[c])
  BY Zenon DEF RemoteInv
<1>4. BrokenConnection.entries = {}
  BY ZenonT(40) DEF BrokenConnection, Failure, Result
<1>5. RemoteInv'
  <2>1. ChangesOnly(c) /\ returned'[c] = BrokenConnection
    BY <1>1, <1>2, <1>3, Zenon DEF OnSlots, ChangesOnly
  <2>2. response[c] = NoResponse \/ lost'[c] = lost[c]
    BY <1>2
  <2>3. SlotOK(call[c], request[c], response[c], lost'[c], BrokenConnection)
    BY <1>3, <1>4, <2>2, ZenonT(60) DEF SlotOK
  <2>4. SlotOK(call'[c], request'[c], response'[c], lost'[c], returned'[c])
    BY <1>1, <2>1, <2>3, ZenonT(40)
  <2> QED
    BY <2>1, <2>4, SlotByItself, ZenonT(40)
<1>6. [d \in Slots |-> Answer(d)]' = [d \in Slots |-> Answer(d)]
  BY <1>1, ZenonT(40) DEF Answer
<1>7. Local!Break(c)
  <2>1. call[c] # Local!NotMade /\ Local!NotYet = NotYet
          /\ Local!BrokenConnection = BrokenConnection
    BY <1>1, SlotFacts, SameValues, ZenonT(60)
  <2> QED
    BY <1>1, <1>6, <2>1, ZenonT(40) DEF Local!Break, Local!Made
<1> QED
  BY <1>5, <1>7, ZenonT(40)

\* A container whose grace time ran out is gone.
LEMMA ReapIsVanish ==
  ASSUME RemoteInv, NEW h \in DOMAIN store, Reap(h)
  PROVE  RemoteInv' /\ Local!Vanish(h)
<1>1. UNCHANGED <<call, request, response, lost, returned>>
  BY ZenonT(40) DEF Reap
<1>2. RemoteInv'
  BY <1>1, SMTT(40) DEF RemoteInv, OnSlots, SlotOK
<1>3. [d \in Slots |-> Answer(d)]' = [d \in Slots |-> Answer(d)]
  BY <1>1, ZenonT(40) DEF Answer
<1>4. Local!Vanish(h)
  BY <1>1, <1>3, ZenonT(40) DEF Reap, Local!Vanish, Local!Restrict, Restrict
<1> QED
  BY <1>2, <1>4, ZenonT(40)

\* Nothing was asked at first.
LEMMA RemoteStart ==
  ASSUME RemoteInit
  PROVE  RemoteInv /\ Local!LocalInit
<1>1. NoResponse.status = 0 /\ NoResponse.entries = {} /\ NotYet.entries = {}
  BY DEF NoResponse, NotYet, Failure, Result
<1>2. SlotOK(NotMade, NoRequest, NoResponse, FALSE, NotYet)
  BY <1>1 DEF SlotOK, AnswerTo
<1>3. RemoteInv
  <2>1. OnSlots(call) /\ OnSlots(request) /\ OnSlots(response) /\ OnSlots(lost)
          /\ OnSlots(returned)
    BY DEF RemoteInit, OnSlots
  <2>2. \A c \in Slots : /\ call[c] = NotMade /\ request[c] = NoRequest
          /\ response[c] = NoResponse
                         /\ lost[c] = FALSE /\ returned[c] = NotYet
    BY DEF RemoteInit
  <2> QED
    BY <1>2, <2>1, <2>2, ZenonT(40) DEF RemoteInv
<1>4. Local!LocalInit
  <2>1. [c \in Slots |-> Answer(c)] = [c \in Slots |-> NotYet]
    BY DEF RemoteInit, Answer
  <2>2. Local!NotMade = NotMade /\ Local!NotYet = NotYet
    BY SameValues, Zenon
  <2> QED
    BY <2>1, <2>2, ZenonT(40) DEF RemoteInit, Local!LocalInit
<1> QED
  BY <1>3, <1>4, ZenonT(40)

\* Every step of the two sides and of the network is one of LocalApi, or none.
LEMMA RemoteStep ==
  ASSUME RemoteInv, [RemoteNext]_remoteVars
  PROVE  RemoteInv' /\ [Local!LocalNext]_(Local!localVars)
<1>1. ASSUME NEW c \in Slots, Send(c)  PROVE RemoteInv' /\ Local!LocalNext
  BY <1>1, SendIsInvoke, Zenon DEF Local!LocalNext
<1>2. ASSUME NEW c \in Slots, Serve(c)  PROVE RemoteInv' /\ Local!LocalNext
  BY <1>2, ServeIsPerform, Zenon DEF Local!LocalNext
<1>3. ASSUME NEW c \in Slots, ServeError(c)  PROVE RemoteInv' /\ Local!LocalNext
  BY <1>3, ServeErrorIsRefuse, Zenon DEF Local!LocalNext
<1>4. ASSUME NEW c \in Slots, StreamBreaks(c)  PROVE RemoteInv' /\ Local!LocalNext
  BY <1>4, StreamBreaksIsTruncate, Zenon DEF Local!LocalNext
<1>5. ASSUME NEW c \in Slots, ReturnResult(c)  PROVE RemoteInv' /\ Local!LocalNext
  BY <1>5, ReturnIsReturn, Zenon DEF Local!LocalNext
<1>6. ASSUME NEW c \in Slots, LoseRequest(c) \/ LoseAnswer(c)  PROVE RemoteInv' /\ Local!LocalNext
  BY <1>6, LossIsBreak, Zenon DEF Local!LocalNext
<1>7. ASSUME NEW h \in DOMAIN store, Reap(h)  PROVE RemoteInv' /\ Local!LocalNext
  BY <1>7, ReapIsVanish, Zenon DEF Local!LocalNext
<1>8. ASSUME NEW c \in Slots, GraceTimeFails(c)  PROVE RemoteInv' /\ Local!LocalNext
  BY <1>8, GraceTimeFailsIsIgnore, Zenon DEF Local!LocalNext
<1>9. CASE UNCHANGED remoteVars
  <2>1. UNCHANGED <<store, call, request, response, lost, returned>>
    BY <1>9, ZenonT(40) DEF remoteVars
  <2>2. RemoteInv'
    BY <2>1, SMTT(40) DEF RemoteInv, OnSlots, SlotOK
  <2>3. [d \in Slots |-> Answer(d)]' = [d \in Slots |-> Answer(d)]
    BY <2>1, SMTT(40) DEF Answer
  <2> QED
    BY <2>1, <2>2, <2>3, ZenonT(40) DEF Local!localVars
<1> QED
  BY <1>1, <1>2, <1>3, <1>4, <1>5, <1>6, <1>7, <1>8, <1>9, ZenonT(60) DEF RemoteNext

\* The slots have the shapes that the two sides write.
LEMMA InvHasType ==
  ASSUME RemoteInv
  PROVE  RemoteTypeOK
<1>1. ASSUME NEW c \in Slots
      PROVE  /\ request[c] = NoRequest <=> call[c] = NotMade
             /\ response[c] # NoResponse => request[c] # NoRequest /\ ~lost[c]
             /\ response[c].status \in {0, StatusOf(Method(call[c])), 404, 500}
             /\ response[c].status \in {0, 404, 500} => response[c].entries = {}
             /\ returned[c].err # NoError => returned[c].entries = {}
  <2>1. SlotOK(call[c], request[c], response[c], lost[c], returned[c])
    BY Zenon DEF RemoteInv
  <2>2. request[c] = NoRequest <=> call[c] = NotMade
    BY SlotFacts, Zenon
  <2> QED
    BY <2>1, <2>2, ZenonT(60) DEF SlotOK, AnswerTo
<1> QED
  BY <1>1, Zenon DEF RemoteTypeOK

\* Each call has at most one request and one answer, of the shapes that connection.go and
\* request_handling.go write, whatever the calls, the failures and the losses.
THEOREM RemoteTypeCorrect == RemoteSpec => []RemoteTypeOK
<1>1. RemoteInit => RemoteInv
  BY RemoteStart, SMTT(40)
<1>2. RemoteInv /\ [RemoteNext]_remoteVars => RemoteInv'
  BY RemoteStep
<1>3. RemoteInv => RemoteTypeOK
  BY InvHasType
<1> QED
  BY <1>1, <1>2, <1>3, PTL DEF RemoteSpec

\* The network cannot be seen through the API: for every set of slots, every sequence of
\* calls that the interfaces allow and every set of failures, the client, the routes, the
\* handlers and errors.go implement LocalApi.  Each call takes effect at most once, as its
\* caller meant it, and returns the result of that moment or the error of a broken connection,
\* with the exceptions that LocalApi names Truncate and Ignore.
THEOREM RemoteIsLocal == RemoteSpec => IsLocal
<1>1. RemoteInit => RemoteInv /\ Local!LocalInit
  BY RemoteStart
<1>2. RemoteInv /\ [RemoteNext]_remoteVars => RemoteInv' /\ [Local!LocalNext]_(Local!localVars)
  BY RemoteStep
<1> QED
  BY <1>1, <1>2, PTL DEF RemoteSpec, IsLocal, Local!LocalSpec
-----------------------------------------------------------------------------
\* A set of numbers that is not empty has a smallest one.
LEMMA HasSmallest ==
  ASSUME NEW S, S \subseteq Nat, S # {}
  PROVE  \E x \in S : \A y \in S : x =< y
<1>1. PICK x \in S : \A y \in S : ~(<<y, x>> \in OpToRel(<, Nat))
  BY NatLessThanWellFounded, WFMin, Zenon
<1>2. \A y \in S : ~(y < x)
  <2>1. ASSUME NEW y \in S, y < x  PROVE <<y, x>> \in OpToRel(<, Nat)
    BY <2>1, ZenonT(40) DEF OpToRel
  <2> QED
    BY <1>1, <2>1, Zenon
<1> QED
  BY <1>2

\* Two addresses that differ have a first bit in which they do.
LEMMA FirstDifference ==
  ASSUME NEW a \in IPs, NEW b \in IPs, a # b
  PROVE  \E i \in 1 .. Bytes, k \in Bit :
           /\ ~(k \in a[i] <=> k \in b[i])
           /\ \A j \in 1 .. Bytes, l \in Bit : Before(j, l, i, k) => (l \in a[j] <=> l \in b[j])
<1> DEFINE differing == {i \in 1 .. Bytes : a[i] # b[i]}
<1>1. differing \subseteq Nat /\ differing # {}
  BY NetAssumption DEF IPs
<1>2. PICK i \in differing : \A j \in differing : i =< j
  BY <1>1, HasSmallest, Zenon
<1>3. i \in 1 .. Bytes /\ a[i] \subseteq Bit /\ b[i] \subseteq Bit /\ a[i] # b[i]
  BY <1>2, ZenonT(40) DEF IPs, Byte
<1> DEFINE from == {Bits - 1 - k : k \in {l \in Bit : ~(l \in a[i] <=> l \in b[i])}}
<1>4. from \subseteq Nat /\ from # {}
  <2>1. PICK k \in Bit : ~(k \in a[i] <=> k \in b[i])
    BY <1>3
  <2> QED
    BY <2>1, NetAssumption, SMTT(40) DEF Bit
<1>5. PICK d \in from : \A e \in from : d =< e
  BY <1>4, HasSmallest, Zenon
<1>6. PICK k \in Bit : ~(k \in a[i] <=> k \in b[i]) /\ d = Bits - 1 - k
  BY <1>5, SMTT(40)
<1>7. ASSUME NEW l \in Bit, l > k
      PROVE  l \in a[i] <=> l \in b[i]
  BY <1>5, <1>6, <1>7, NetAssumption, SMTT(40) DEF Bit
<1>8. ASSUME NEW j \in 1 .. Bytes, NEW l \in Bit, Before(j, l, i, k)
      PROVE  l \in a[j] <=> l \in b[j]
  <2>1. CASE j < i
    BY <1>2, <1>3, <2>1, NetAssumption, SMTT(40)
  <2>2. CASE j = i /\ l > k
    BY <1>7, <2>2, ZenonT(40)
  <2> QED
    BY <1>8, <2>1, <2>2, ZenonT(40) DEF Before
<1> QED
  BY <1>3, <1>6, <1>8, ZenonT(40)

\* What the bytes of a network, and of its last address, are.
LEMMA NetFacts ==
  ASSUME NEW n \in Nets
  PROVE  /\ n.ip \in IPs /\ n.mask \in IPs /\ lastIP(n) \in IPs /\ IsMask(n.mask)
         /\ \A i \in 1 .. Bytes : n.ip[i] \subseteq n.mask[i]
         /\ \A i \in 1 .. Bytes, k \in Bit : k \in lastIP(n)[i] <=> k \notin n.mask[i] \/ k \in n.ip[i]
<1>1. n.ip \in IPs /\ n.mask \in IPs /\ IsMask(n.mask) /\ InNet(n.ip, n)
  BY DEF Nets
<1>2. \A i \in 1 .. Bytes : n.ip[i] \subseteq Bit /\ n.mask[i] \subseteq Bit
  BY <1>1, Zenon DEF IPs, Byte
<1>3. lastIP(n) \in IPs
  BY <1>2 DEF lastIP, IPs, Byte
<1>4. \A i \in 1 .. Bytes : n.ip[i] \subseteq n.mask[i]
  BY <1>1 DEF InNet
<1>5. \A i \in 1 .. Bytes, k \in Bit : k \in lastIP(n)[i] <=> k \notin n.mask[i] \/ k \in n.ip[i]
  BY DEF lastIP
<1> QED
  BY <1>1, <1>3, <1>4, <1>5, ZenonT(40)

\* The addresses of a network are not below its own, nor above its last: a bit that differs
\* from the network's is one that the mask leaves free, and there those two are all zeros and
\* all ones.
LEMMA NetIsInRange ==
  ASSUME NEW n \in Nets, NEW ip \in IPs, InNet(ip, n)
  PROVE  InRange(ip, IPRangeFromIPNet(n))
<1>1. ASSUME NEW i \in 1 .. Bytes, NEW k \in Bit
      PROVE  k \in n.mask[i] => (k \in ip[i] <=> k \in n.ip[i])
  BY SMTT(40) DEF InNet
<1>2. ~Less(ip, n.ip)
  BY <1>1, NetFacts, ZenonT(40) DEF Less
<1>3. ~Less(lastIP(n), ip)
  BY <1>1, NetFacts, ZenonT(40) DEF Less
<1> QED
  BY <1>2, <1>3, ZenonT(40) DEF InRange, IPRangeFromIPNet

\* An address in the range agrees with the network wherever the mask has a one.  Otherwise take
\* the first bit in which it differs from the network's own address, or from its last one: that
\* bit lies under the mask, where both of them have the same bits, and puts the address below
\* the first or above the second.
LEMMA RangeIsInNet ==
  ASSUME NEW n \in Nets, NEW ip \in IPs, InRange(ip, IPRangeFromIPNet(n))
  PROVE  InNet(ip, n)
<1> DEFINE z == [i \in 1 .. Bytes |-> (ip[i] \cap n.mask[i])]
<1>1. z \in IPs /\ \A i \in 1 .. Bytes : z[i] = ip[i] \cap n.mask[i]
  BY SMTT(40) DEF IPs, Byte
<1> HIDE DEF z
<1>2. SUFFICES ASSUME z # n.ip PROVE FALSE
  BY <1>1, ZenonT(40) DEF InNet
<1> DEFINE own == n.ip
<1>3. own \in IPs /\ z # own
  BY <1>2, NetFacts, ZenonT(40)
<1> HIDE DEF own
<1>4. PICK i \in 1 .. Bytes, k \in Bit :
         /\ ~(k \in z[i] <=> k \in n.ip[i])
         /\ \A j \in 1 .. Bytes, l \in Bit : Before(j, l, i, k) => (l \in z[j] <=> l \in n.ip[j])
  BY <1>1, <1>3, FirstDifference, ZenonT(40) DEF own
<1>5. k \in n.mask[i]
  BY <1>1, <1>4, NetFacts, ZenonT(40)
<1>6. \A j \in 1 .. Bytes, l \in Bit : Before(j, l, i, k) => l \in n.mask[j]
  BY <1>5, NetFacts, ZenonT(40) DEF IsMask
<1>7. \A j \in 1 .. Bytes, l \in Bit :
        Before(j, l, i, k) => /\ l \in ip[j] <=> l \in n.ip[j]
                              /\ l \in lastIP(n)[j] <=> l \in ip[j]
  BY <1>1, <1>4, <1>6, NetFacts, ZenonT(40)
<1>8. CASE k \in n.ip[i]
  <2>1. k \notin ip[i]
    BY <1>1, <1>4, <1>5, <1>8, ZenonT(40)
  <2>2. Less(ip, n.ip)
    BY <1>7, <1>8, <2>1, ZenonT(40) DEF Less
  <2> QED
    BY <2>2, ZenonT(40) DEF InRange, IPRangeFromIPNet
<1>9. CASE k \notin n.ip[i]
  <2>1. k \in ip[i] /\ k \notin lastIP(n)[i]
    BY <1>1, <1>4, <1>5, <1>9, NetFacts, ZenonT(40)
  <2>2. Less(lastIP(n), ip)
    BY <1>7, <2>1, ZenonT(40) DEF Less
  <2> QED
    BY <2>2, SMTT(40) DEF InRange, IPRangeFromIPNet
<1> QED
  BY <1>8, <1>9, ZenonT(40)

\* The range of a network that IPRangeFromIPNet returns, with the last address that lastIP
\* computes byte by byte, holds the network's addresses and no others, whatever the length of
\* addresses and of the prefix.
THEOREM NetworkRange ==
  ASSUME NEW n \in Nets, NEW ip \in IPs
  PROVE  InNet(ip, n) <=> InRange(ip, IPRangeFromIPNet(n))
BY NetIsInRange, RangeIsInNet, ZenonT(40)

\* A host's range is that of its network.
LEMMA MadeOfNetwork ==
  ASSUME NEW n \in Nets, NEW range, IsMade(range, n)
  PROVE  range = IPRangeFromIPNet(n)
<1>1. range = IPRangeFromIPNet(n) \/ (IsHost(n) /\ range = IPRangeFromIP(n.ip))
  BY DEF IsMade
<1>2. ASSUME IsHost(n)
      PROVE  lastIP(n) = n.ip
  <2>1. n.ip \in [1 .. Bytes -> SUBSET Bit]
    BY ZenonT(40) DEF Nets, IPs, Byte
  <2>2. \A i \in 1 .. Bytes : (Bit \ n.mask[i]) \cup n.ip[i] = n.ip[i]
    BY <1>2, <2>1, ZenonT(40) DEF IsHost
  <2>3. lastIP(n) = [i \in 1 .. Bytes |-> n.ip[i]]
    BY <2>2 DEF lastIP
  <2> QED
    BY <2>1, <2>3, Zenon
<1> QED
  BY <1>1, <1>2, ZenonT(40) DEF IPRangeFromIP, IPRangeFromIPNet

\* Ranges that are made of networks hold the addresses of those networks.
LEMMA MadeOpens ==
  ASSUME NEW networks, networks \subseteq Nets, NEW ranges, MadeOf(ranges, networks)
  PROVE  Opened(ranges) = Wanted(networks)
<1>1. ASSUME NEW n \in networks, NEW range \in ranges, IsMade(range, n)
      PROVE  {ip \in IPs : InRange(ip, range)} = {ip \in IPs : InNet(ip, n)}
  <2>1. range = IPRangeFromIPNet(n)
    BY <1>1, MadeOfNetwork, ZenonT(40)
  <2>2. \A ip \in IPs : InNet(ip, n) <=> InRange(ip, range)
    BY <2>1, NetworkRange, ZenonT(40)
  <2> QED
    BY <2>2, ZenonT(40)
<1> QED
  BY <1>1, ZenonT(120) DEF Opened, Wanted, MadeOf

\* What a call of the client does to the containers.
LEMMA ClientEffect ==
  ASSUME NEW s, NEW a, Method(a) \in OfClient
  PROVE  \/ OfBackend(s, a).store = s
         \/ Method(a) = "Create"
              /\ OfBackend(s, a).store = Put(s, Args(a).handle, NewContainer(Args(a)))
         \/ OfBackend(s, a).store = Restrict(s, DOMAIN s \ {Handle(a)})
<1>1. \A t, r : Outcome(t, r).store = t
  BY DEF Outcome
<1>2. \A E : Reads(s, E).store = s
  BY <1>1, Zenon DEF Reads
<1>3. CASE Method(a) \in {"Ping", "Capacity", "Containers"} \cup {"BulkInfo", "BulkMetrics"}
  <2>1. \E E : OfBackend(s, a) = Reads(s, E)
    BY <1>3, ZenonT(60) DEF OfBackend
  <2> QED
    BY <1>2, <2>1, Zenon
<1>4. CASE Method(a) = "Create"
  <2>1. \E r : \/ OfBackend(s, a) = Outcome(s, r)
               \/ OfBackend(s, a) = Outcome(Put(s, Args(a).handle, NewContainer(Args(a))), r)
    BY <1>4, ZenonT(60) DEF OfBackend
  <2> QED
    BY <1>1, <1>4, <2>1, ZenonT(60)
<1>5. CASE Method(a) = "Destroy"
  <2>1. \E r : \/ OfBackend(s, a) = Outcome(s, r)
               \/ OfBackend(s, a) = Outcome(Restrict(s, DOMAIN s \ {Handle(a)}), r)
    BY <1>5, ZenonT(60) DEF OfBackend
  <2> QED
    BY <1>1, <2>1, Zenon
<1>6. CASE Method(a) = "Lookup"
  <2>1. \/ \E E : OfBackend(s, a) = Reads(s, E)
        \/ \E r : OfBackend(s, a) = Outcome(s, r)
    BY <1>6, ZenonT(60) DEF OfBackend
  <2> QED
    BY <1>1, <1>2, <2>1, ZenonT(40)
<1> QED
  BY <1>3, <1>4, <1>5, <1>6, ZenonT(60) DEF OfClient

\* After a call a that changed the containers from s to t, each of them remembers that call or
\* the one it remembered before.
Remembered(s, a, t) ==
  \A h \in DOMAIN t :
    /\ "last" \in DOMAIN t[h]
    /\ \/ t[h].last = <<Method(a), Args(a)>> /\ h = Target(a)
       \/ h \in DOMAIN s /\ t[h].last = s[h].last

\* So it is with the methods of a container.
LEMMA ContainerRemembers ==
  ASSUME NEW s, NEW a, Method(a) # "Create", \A k \in DOMAIN s : "last" \in DOMAIN s[k]
  PROVE  Remembered(s, a, OfContainer(s, a).store)
<1> DEFINE h == Handle(a)
<1>1. \A u, r : Outcome(u, r).store = u
  BY SMTT(40) DEF Outcome
<1>2. Remembered(s, a, s)
  BY DEF Remembered
<1>3. \A E : Remembered(s, a, Reads(s, E).store)
  BY <1>1, <1>2, Zenon DEF Reads
<1>4. \A E : Remembered(s, a, Acts(s, a, E).store)
  <2>1. Remembered(s, a, [s EXCEPT ![h].last = <<Method(a), Args(a)>>])
    BY DEF Remembered, Target
  <2> QED
    BY <1>1, <2>1, Zenon DEF Acts
<1>5. \A v, r : Remembered(s, a, Outcome([s EXCEPT ![h].grace = v], r).store)
  <2> TAKE v, r
  <2> DEFINE t == [s EXCEPT ![h].grace = v]
  <2>1. Remembered(s, a, t)
    BY SMTT(40) DEF Remembered
  <2> HIDE DEF t
  <2>2. Remembered(s, a, Outcome(t, r).store)
    BY <1>1, <2>1, Zenon
  <2> QED
    BY <2>2, Zenon DEF t
<1>6. \A v, r : Remembered(s, a, Outcome([s EXCEPT ![h].properties = v], r).store)
  <2> TAKE v, r
  <2> DEFINE t == [s EXCEPT ![h].properties = v]
  <2>1. Remembered(s, a, t)
    BY ZenonT(40) DEF Remembered
  <2> HIDE DEF t
  <2>2. Remembered(s, a, Outcome(t, r).store)
    BY <1>1, <2>1, Zenon
  <2> QED
    BY <2>2, Zenon DEF t
<1>7. ASSUME Method(a) \in {"Stop", "StreamIn", "NetOut", "BulkNetOut"}
      PROVE  Remembered(s, a, OfContainer(s, a).store)
  <2>1. OfContainer(s, a) = Acts(s, a, {})
    BY <1>7, LimitNames, ZenonT(60) DEF OfContainer
  <2> QED
    BY <1>4, <2>1, ZenonT(40)
<1>8. ASSUME Method(a) \in {"Run", "NetIn"}
      PROVE  Remembered(s, a, OfContainer(s, a).store)
  <2>1. \/ OfContainer(s, a) = Acts(s, a, {Entry("process", Args(a).id)})
        \/ OfContainer(s, a) = Acts(s, a, Ports(a))
    BY <1>8, LimitNames, ZenonT(60) DEF OfContainer
  <2> QED
    BY <1>4, <2>1, ZenonT(40)
<1>9. ASSUME Method(a) = "SetGraceTime"
      PROVE  Remembered(s, a, OfContainer(s, a).store)
  <2>1. OfContainer(s, a) = Outcome([s EXCEPT ![h].grace = Args(a)], Success({}))
    BY <1>9, LimitNames, ZenonT(60) DEF OfContainer
  <2> QED
    BY <1>5, <2>1, ZenonT(40)
<1>10. ASSUME Method(a) \in {"SetProperty", "RemoveProperty"}
       PROVE  Remembered(s, a, OfContainer(s, a).store)
  <2> DEFINE set == Put(s[h].properties, Args(a).name, Args(a).value)
             removed == Restrict(s[h].properties, DOMAIN s[h].properties \ {Args(a).name})
  <2>1. \/ OfContainer(s, a) = Outcome([s EXCEPT ![h].properties = set], Success({}))
        \/ OfContainer(s, a) = Outcome([s EXCEPT ![h].properties = removed], Success({}))
    BY <1>10, LimitNames, ZenonT(60) DEF OfContainer
  <2> HIDE DEF set, removed
  <2> QED
    BY <1>6, <2>1, ZenonT(40)
<1>11. ASSUME Method(a) \in {"Attach", "Property"}
       PROVE  Remembered(s, a, OfContainer(s, a).store)
  <2>1. \/ \E E : OfContainer(s, a) = Reads(s, E)
        \/ \E r : OfContainer(s, a) = Outcome(s, r)
    BY <1>11, LimitNames, ZenonT(60) DEF OfContainer
  <2> QED
    BY <1>1, <1>2, <1>3, <2>1, ZenonT(40)
<1>12. ASSUME Method(a) \in {"StreamOut", "Properties"}
       PROVE  Remembered(s, a, OfContainer(s, a).store)
  <2>1. \/ OfContainer(s, a) = Reads(s, {Entry(Args(a).user, Args(a).path)})
        \/ OfContainer(s, a) = Reads(s, Entries(s[h].properties))
    BY <1>12, LimitNames, ZenonT(60) DEF OfContainer
  <2> QED
    BY <1>3, <2>1, ZenonT(40)
<1>13. ASSUME Method(a) \notin {"Stop", "StreamIn", "NetOut", "BulkNetOut", "Run", "NetIn",
                                "SetGraceTime", "SetProperty", "RemoveProperty", "Attach",
                                "Property", "StreamOut", "Properties"}
       PROVE  Remembered(s, a, OfContainer(s, a).store)
  <2>1. \/ OfContainer(s, a) = Reads(s, Entries(CurrentLimits(h)[Method(a)]))
        \/ OfContainer(s, a) = Reads(s, {Entry(Method(a), h)})
    BY <1>13, ZenonT(60) DEF OfContainer
  <2> QED
    BY <1>3, <2>1, ZenonT(40)
<1> QED
  BY <1>7, <1>8, <1>9, <1>10, <1>11, <1>12, <1>13, ZenonT(40)

\* And with every call of the backend.
LEMMA CallRemembers ==
  ASSUME NEW s, NEW a, \A k \in DOMAIN s : "last" \in DOMAIN s[k]
  PROVE  Remembered(s, a, Call(s, a).store)
<1>1. Remembered(s, a, s)
  BY DEF Remembered
<1>2. \A S : Remembered(s, a, Restrict(s, DOMAIN s \ S))
  BY ZenonT(40) DEF Remembered, Restrict
<1>3. Method(a) = "Create" => Remembered(s, a, Put(s, Args(a).handle, NewContainer(Args(a))))
  BY DEF Remembered, Put, NewContainer, Target
<1>4. Method(a) \in OfClient => Remembered(s, a, OfBackend(s, a).store)
  BY <1>1, <1>2, <1>3, ClientEffect, ZenonT(60)
<1>5. \A r : Outcome(s, r).store = s
  BY ZenonT(40) DEF Outcome
<1>6. Method(a) \notin OfClient => Method(a) # "Create"
  BY Zenon DEF OfClient
<1> QED
  BY <1>1, <1>4, <1>5, <1>6, ContainerRemembers, ZenonT(60) DEF Call

\* A call that acts on a container reaches the backend as the same method, for the same
\* container, with the ranges that its caller put into it.
LEMMA RangesArrive ==
  ASSUME NEW a, IsCall(a), Method(a) # "Lookup"
  PROVE  LET b == Handled(Request(a))
         IN  /\ Method(b) = Method(a) /\ Target(b) = Target(a)
             /\ Ranges(<<Method(b), Args(b)>>) = Ranges(<<Method(a), Args(a)>>)
<1>1. Handled(Request(a)) = Reaches(a)
  BY CallArrives, Zenon DEF Arrives
<1>2. CASE Method(a) = "Create"
  <2>1. IsContainer(Args(a))
    BY <1>2, ZenonT(40) DEF IsCall, TakesArgs, WithHandleOnly
  <2>2. "netout_rules" \in DOMAIN Args(a) /\ "handle" \in DOMAIN Args(a)
    BY <2>1, SMTT(40) DEF IsContainer, IsOf, HasFields, ContainerSpec
  <2>3. /\ Method(Reaches(a)) = "Create"
        /\ Args(Reaches(a)).netout_rules = Args(a).netout_rules
        /\ Args(Reaches(a)).handle = Args(a).handle
    BY <1>2, <2>2, ZenonT(40) DEF Reaches, Method, Args
  <2>4. \A x : Ranges(<<"Create", x>>)
                = UNION {Range(rule.networks) : rule \in Range(x.netout_rules)}
    BY Zenon DEF Ranges
  <2> QED
    BY <1>1, <1>2, <2>3, <2>4, ZenonT(40) DEF Target
<1>3. CASE Method(a) # "Create"
  <2>1. Reaches(a) = a
    BY <1>3, ZenonT(40) DEF Reaches
  <2> QED
    BY <1>1, <2>1, ZenonT(40)
<1> QED
  BY <1>2, <1>3, ZenonT(40)

\* What a container remembers is what it had at first, or a call that was made for it.
Recalls(h, last) ==
  \/ h \in DOMAIN Present /\ last = Present[h].last
  \/ \E c \in Slots, i \in DOMAIN Calls :
       /\ call[c] = Calls[i]
       /\ Method(Calls[i]) = last[1] /\ Target(Calls[i]) = h
       /\ Ranges(last) = Ranges(<<Method(Calls[i]), Args(Calls[i])>>)

\* The inductive invariant of the rules: so it is with every container.
RangesMade == \A h \in DOMAIN store : "last" \in DOMAIN store[h] /\ Recalls(h, store[h].last)

\* A handler gives a container only ranges of the call that it serves.
LEMMA ServeKeepsRanges ==
  ASSUME RemoteInv, RangesMade, NEW c \in Slots, Serve(c)
  PROVE  RangesMade'
<1> DEFINE a == call[c]
           b == Handled(Request(a))
<1>1. request[c] # NoRequest /\ call' = call
  BY DEF Serve, Arrived
<1>2. IsCall(a) /\ request[c] = Request(a)
  BY <1>1, SlotFacts, Zenon
<1>3. PICK i \in DOMAIN Calls : a = Calls[i]
  <2>1. SlotOK(call[c], request[c], response[c], lost[c], returned[c])
    BY Zenon DEF RemoteInv
  <2> QED
    BY <1>1, <2>1, ZenonT(40) DEF SlotOK
<1>4. store' = Call(store, b).store
  BY <1>2, Zenon DEF Serve, CallBackend, Finish
<1>5. \A h, last : Recalls(h, last)' <=> Recalls(h, last)
  BY <1>1, ZenonT(40) DEF Recalls
<1>6. CASE Method(a) = "Lookup"
  <2>1. b = <<"Containers", "", Nothing>>
    BY <1>2, <1>6, CallArrives, MeantReaches, ZenonT(40) DEF Arrives
  <2>2. store' = store
    BY <1>4, <1>6, <2>1, LookupReturns, ZenonT(40)
  <2> QED
    BY <1>5, <2>2, ZenonT(40) DEF RangesMade
<1>7. CASE Method(a) # "Lookup"
  <2>1. /\ Method(b) = Method(a) /\ Target(b) = Target(a)
        /\ Ranges(<<Method(b), Args(b)>>) = Ranges(<<Method(a), Args(a)>>)
    BY <1>2, <1>7, RangesArrive, ZenonT(40)
  <2> HIDE DEF b
  <2>2. Remembered(store, b, store')
    BY <1>4, CallRemembers, Zenon DEF RangesMade
  <2> DEFINE new == <<Method(b), Args(b)>>
  <2>3. new[1] = Method(b)
    OBVIOUS
  <2> HIDE DEF new
  <2>4. Recalls(Target(b), new)
    BY <1>3, <2>1, <2>3, ZenonT(40) DEF Recalls, new
  <2>5. ASSUME NEW h \in DOMAIN store'
        PROVE  "last" \in DOMAIN store'[h] /\ Recalls(h, store'[h].last)
    <3>1. /\ "last" \in DOMAIN store'[h]
          /\ \/ store'[h].last = new /\ h = Target(b)
             \/ h \in DOMAIN store /\ store'[h].last = store[h].last
      BY <2>2, <2>5, ZenonT(40) DEF Remembered, new
    <3> QED
      BY <2>4, <3>1, ZenonT(40) DEF RangesMade
  <2> QED
    BY <1>1, <2>5, ZenonT(40) DEF RangesMade, Recalls
<1> QED
  BY <1>6, <1>7, Zenon

\* A call that is made takes no other's place.
LEMMA SendKeepsRanges ==
  ASSUME RemoteInv, RangesMade, NEW c \in Slots, Send(c)
  PROVE  RangesMade'
<1>1. /\ request[c] = NoRequest /\ store' = store
      /\ \A d \in Slots : d # c => call'[d] = call[d]
  <2>1. OnSlots(call)
    BY Zenon DEF RemoteInv
  <2> QED
    BY <2>1, ZenonT(40) DEF Send, OnSlots
<1>2. call[c] = NotMade
  BY <1>1, SlotFacts, ZenonT(40)
<1>3. \A i \in DOMAIN Calls : Calls[i] # NotMade
  <2>1. Method(NotMade) = "none"
    BY ZenonT(40) DEF Method, NotMade
  <2>2. "none" \notin OfClient \cup MethodsOfContainer
    BY ZenonT(40) DEF OfClient, MethodsOfContainer
  <2> QED
    BY <2>1, <2>2, CallMethods, CallsAssumption, ZenonT(60)
<1>4. ASSUME NEW h \in DOMAIN store
      PROVE  Recalls(h, store[h].last)'
  <2>1. Recalls(h, store[h].last)
    BY Zenon DEF RangesMade
  <2>2. \A d \in Slots, i \in DOMAIN Calls : call[d] = Calls[i] => call'[d] = Calls[i]
    BY <1>1, <1>2, <1>3, ZenonT(40)
  <2> QED
    BY <1>1, <2>1, <2>2, ZenonT(40) DEF Recalls
<1> QED
  BY <1>1, <1>4, ZenonT(40) DEF RangesMade

\* The calls that open networks open those that their caller asked for, for addresses of any
\* length, prefixes of any length, any calls, losses and failures: lastIP, the rules' way
\* through connection.go and request_handling.go and the backend's containers keep the ranges
\* exact.
THEOREM NetworksOpened == RemoteSpec => []OpensTheNetworks
<1>1. RemoteInit => RemoteInv /\ RangesMade
  BY RemoteStart, RangesAssumption, ZenonT(40) DEF RemoteInit, RangesMade, Recalls
<1>2. ASSUME RemoteInv, RangesMade, [RemoteNext]_remoteVars
      PROVE  RangesMade'
  <2>1. CASE UNCHANGED <<store, call>>
    BY <1>2, <2>1, ZenonT(40) DEF RangesMade, Recalls
  <2>2. ASSUME NEW h \in DOMAIN store, Reap(h)
        PROVE  RangesMade'
    BY <1>2, <2>2, ZenonT(40) DEF RangesMade, Recalls, Reap, Restrict
  <2>3. ASSUME NEW c \in Slots, Serve(c)
        PROVE  RangesMade'
    BY <1>2, <2>3, ServeKeepsRanges, ZenonT(40)
  <2>4. ASSUME NEW c \in Slots, Send(c)
        PROVE  RangesMade'
    BY <1>2, <2>4, SendKeepsRanges, ZenonT(40)
  <2>5. \/ UNCHANGED <<store, call>>
        \/ \E h \in DOMAIN store : Reap(h)
        \/ \E c \in Slots : Serve(c)
        \/ \E c \in Slots : Send(c)
    BY <1>2, ZenonT(40) DEF RemoteNext, remoteVars, ServeError, GraceTimeFails, StreamBreaks,
                ReturnResult, LoseRequest, LoseAnswer
  <2> QED
    BY <2>1, <2>2, <2>3, <2>4, <2>5, ZenonT(40)
<1>3. RangesMade => OpensTheNetworks
  <2>1. ASSUME NEW i \in DOMAIN Calls, NEW ranges,
               ranges = Ranges(<<Method(Calls[i]), Args(Calls[i])>>)
        PROVE  Opened(ranges) = Wanted(Asks[i])
    BY <2>1, AsksAssumption, RangesAssumption, MadeOpens, ZenonT(40)
  <2> QED
    BY <2>1, ZenonT(40) DEF RangesMade, Recalls, OpensTheNetworks
<1>4. RemoteInv /\ RangesMade /\ [RemoteNext]_remoteVars => (RemoteInv /\ RangesMade)'
  BY <1>2, RemoteStep, ZenonT(40)
<1> QED
  BY <1>1, <1>3, <1>4, PTL DEF RemoteSpec
=============================================================================
