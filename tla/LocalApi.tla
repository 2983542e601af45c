------------------------------ MODULE LocalApi ------------------------------
(***************************************************************************)
(* What a client of the API may rely on, with no network in sight: a call  *)
(* takes effect at most once and all at once, at some moment after it was  *)
(* made; when it returns a result, that is the result of that moment; when *)
(* it returns the error of a broken connection, it may have taken effect,  *)
(* may still take effect, or may never.  There are two exceptions: a       *)
(* StreamOut may return a part of the stream, and a SetGraceTime may       *)
(* return without an error and without effect.  Containers also vanish on  *)
(* their own, when their grace time has passed.                            *)
(***************************************************************************)
EXTENDS Backend

CONSTANTS Slots,               \* identifies a call that was made
          Calls,               \* the calls that callers make, a sequence
          Failures,            \* the errors a backend may return to any call
          Present,             \* the containers there are at first, by handle
          containerGraceTime   \* of a container created without one

VARIABLES store,      \* the containers, by handle
          call,       \* the call of each slot
          answer,     \* its outcome, once it took effect
          returned    \* what its caller got

localVars == <<store, call, answer, returned>>

NotMade == <<"none", "", <<>>>>
NotYet == Failure(GoError("not yet", ""))
BrokenConnection == Failure(GoError("net.OpError", "connection"))

Made(c) == call[c] # NotMade
Pending(c) == Made(c) /\ answer[c] = NotYet

\* A grace time of zero stands for the server's.
Meant(a) ==
  IF Method(a) # "Create" \/ Args(a).grace_time # "0" THEN a
  ELSE <<"Create", "", [Args(a) EXCEPT !.grace_time = containerGraceTime]>>

LocalInit ==
  /\ store = Present
  /\ call = [c \in Slots |-> NotMade]
  /\ answer = [c \in Slots |-> NotYet]
  /\ returned = [c \in Slots |-> NotYet]

Invoke(c, a) ==
  /\ ~Made(c)
  /\ call' = [call EXCEPT ![c] = a]
  /\ UNCHANGED <<store, answer, returned>>

Perform(c) ==
  /\ Pending(c)
  /\ LET outcome == Call(store, Meant(call[c]))
     IN  /\ store' = outcome.store
         /\ answer' = [answer EXCEPT ![c] = outcome.result]
  /\ UNCHANGED <<call, returned>>

\* The backend refuses; of an error that errors.go does not name, the message is left.
Refuse(c, e) ==
  /\ Pending(c)
  /\ answer' = [answer EXCEPT ![c] = Failure(Known(e))]
  /\ UNCHANGED <<store, call, returned>>

\* A grace time is not set, and the caller cannot tell.
Ignore(c) ==
  /\ Pending(c)
  /\ Method(call[c]) = "SetGraceTime"
  /\ Handle(call[c]) \in DOMAIN store
  /\ answer' = [answer EXCEPT ![c] = Success({})]
  /\ UNCHANGED <<store, call, returned>>

\* A stream out of the container ends early, and the caller cannot tell.
Truncate(c) ==
  /\ Pending(c)
  /\ Method(call[c]) = "StreamOut"
  /\ Handle(call[c]) \in DOMAIN store
  /\ answer' = [answer EXCEPT ![c] = Success({Entry("partial", "stream")})]
  /\ UNCHANGED <<store, call, returned>>

Return(c) ==
  /\ returned[c] = NotYet
  /\ answer[c] # NotYet
  /\ returned' = [returned EXCEPT ![c] = answer[c]]
  /\ UNCHANGED <<store, call, answer>>

Break(c) ==
  /\ Made(c)
  /\ returned[c] = NotYet
  /\ returned' = [returned EXCEPT ![c] = BrokenConnection]
  /\ UNCHANGED <<store, call, answer>>

Vanish(h) ==
  /\ h \in DOMAIN store
  /\ store' = Restrict(store, DOMAIN store \ {h})
  /\ UNCHANGED <<call, answer, returned>>

LocalNext ==
  \/ \E c \in Slots, i \in DOMAIN Calls : Invoke(c, Calls[i])
  \/ \E c \in Slots : Perform(c)
  \/ \E c \in Slots, e \in Failures : Refuse(c, e)
  \/ \E c \in Slots : Ignore(c)
  \/ \E c \in Slots : Truncate(c)
  \/ \E c \in Slots : Return(c)
  \/ \E c \in Slots : Break(c)
  \/ \E h \in DOMAIN store : Vanish(h)

LocalSpec == LocalInit /\ [][LocalNext]_localVars
=============================================================================
