-------------------------------- MODULE Calls --------------------------------
(***************************************************************************)
(* The requests the API is serving.                                        *)
(*                                                                         *)
(* Outside $transaction every awaited query is a transaction of its own,   *)
(* and other requests run between two of them.  A request is therefore a   *)
(* sequence of steps, one per statement whose effect or result another     *)
(* request can change; call[k] says where it stands and what it has read.  *)
(*                                                                         *)
(* Two history variables record what can disturb a request: crossed holds  *)
(* the documents on which two requests were in flight at the same time,    *)
(* cut those whose request failed or stopped between two of its writes.    *)
(***************************************************************************)
EXTENDS Integers, FiniteSets, Sequences

CONSTANTS Slots,      \* requests served at the same time
          Docs,       \* what requests are about: rows of the database
          None,       \* no document
          Scopes,     \* bound: the documents the requests of one behaviour are about
          MaxCalls,   \* bound: requests over the whole run
          MaxCrashes  \* bound: restarts of the API process

ASSUME CallsAssumption ==
  /\ None \notin Docs
  /\ Scopes \subseteq SUBSET Docs
  /\ MaxCalls \in Nat
  /\ MaxCrashes \in Nat

VARIABLES call,    \* call[k]: the request served in slot k, where it stands, what it read
          scope,   \* the documents in question, chosen once
          started, \* requests so far
          crashes, \* restarts so far
          crossed, \* documents two requests were about at the same time
          cut      \* documents whose request stopped after it had written something

callVars == <<call, scope, started, crashes, crossed, cut>>

Free == [at |-> "free", doc |-> None, sum |-> 0, todo |-> <<>>]

CallsInit ==
  /\ call = [k \in Slots |-> Free]
  /\ scope \in Scopes
  /\ started = 0
  /\ crashes = 0
  /\ crossed = {}
  /\ cut = {}

CallsTypeOK ==
  /\ \A k \in Slots : /\ DOMAIN call[k] = {"at", "doc", "sum", "todo"}
                      /\ call[k].doc \in Docs \cup {None}
                      /\ call[k].sum \in Int
  /\ scope \in Scopes
  /\ started \in 0..MaxCalls
  /\ crashes \in 0..MaxCrashes
  /\ crossed \subseteq Docs
  /\ cut \subseteq Docs

At(k, place)  == call[k].at = place
Doc(k)        == call[k].doc
Figure(k)     == call[k].sum
Todo(k)       == call[k].todo
InFlight(d)   == {k \in Slots : call[k].doc = d}
Undisturbed(d) == d \notin crossed \cup cut

\* A request about d arrives, reads, and goes on at a place.
Enter(k, place, d, sum, todo) ==
  /\ At(k, "free") /\ d \in scope
  /\ started < MaxCalls
  /\ started' = started + 1
  /\ call' = [call EXCEPT ![k] = [at |-> place, doc |-> d, sum |-> sum, todo |-> todo]]
  /\ crossed' = IF InFlight(d) = {} THEN crossed ELSE crossed \cup {d}
  /\ UNCHANGED <<scope, crashes, cut>>

\* A timer of the process starts a run: it is no request and is not counted.
Timed(k, place, d, sum, todo) ==
  /\ At(k, "free") /\ d \in scope
  /\ call' = [call EXCEPT ![k] = [at |-> place, doc |-> d, sum |-> sum, todo |-> todo]]
  /\ crossed' = IF InFlight(d) = {} THEN crossed ELSE crossed \cup {d}
  /\ UNCHANGED <<scope, started, crashes, cut>>

\* A request served by a single statement.
AtOnce(k, d) ==
  /\ At(k, "free") /\ d \in scope
  /\ started < MaxCalls
  /\ started' = started + 1
  /\ crossed' = IF InFlight(d) = {} THEN crossed ELSE crossed \cup {d}
  /\ UNCHANGED <<call, scope, crashes, cut>>

\* The request goes on, keeping what it read, with a new sum or what is left to do.
Goto(k, place) ==
  call' = [call EXCEPT ![k].at = place] /\ UNCHANGED <<scope, started, crashes, crossed, cut>>

GotoWith(k, place, sum) ==
  /\ call' = [call EXCEPT ![k].at = place, ![k].sum = sum]
  /\ UNCHANGED <<scope, started, crashes, crossed, cut>>

GotoLeft(k, place, todo) ==
  /\ call' = [call EXCEPT ![k].at = place, ![k].todo = todo]
  /\ UNCHANGED <<scope, started, crashes, crossed, cut>>

\* The request is answered.
Leave(k) == call' = [call EXCEPT ![k] = Free] /\ UNCHANGED <<scope, started, crashes, crossed, cut>>

\* A statement of the request is rejected after it has written something.
Fail(k) ==
  /\ call' = [call EXCEPT ![k] = Free]
  /\ cut' = cut \cup {Doc(k)}
  /\ UNCHANGED <<scope, started, crashes, crossed>>

\* The process stops: what was in flight is gone, what was written stays.
\* Bound: when something is in flight; there is nothing to lose otherwise.
Crash ==
  /\ crashes < MaxCrashes
  /\ \E k \in Slots : ~At(k, "free")
  /\ crashes' = crashes + 1
  /\ cut' = cut \cup ({Doc(k) : k \in Slots} \ {None})
  /\ call' = [k \in Slots |-> Free]
  /\ UNCHANGED <<scope, started, crossed>>
=============================================================================
