--------------------------- MODULE FrontEndProofs ---------------------------
(***************************************************************************)
(* Proofs about the programs in front of the API: OfflineSync, where no    *)
(* addition leaves the outbox unknown to the server, none overtakes an     *)
(* older one and every copy has its fault; and Browser, where the pages of *)
(* the back office keep what they promise.                                 *)
(***************************************************************************)
EXTENDS OfflineSync, Browser, SumTheorems

\* A replay is a record; which list it works through plays no part.
FlushRecord(f) == flush[f] = [phase |-> flush[f].phase, todo |-> flush[f].todo]

Types ==
  /\ now \in Nat
  /\ call \in [Adds -> {"new", "wait", "ok", "refused", "unsent", "queued", "done", "gone"}]
  /\ store \in [Adds -> Nat \cup {Absent}]
  /\ applied \in [Adds -> Nat]
  /\ DOMAIN flush = Flushes
  /\ \A f \in Flushes : FlushRecord(f)

\* An answer of success is the server's, which has applied the addition.
AnswersHeld ==
  /\ \A a \in Adds : call[a] = "ok" => applied[a] > 0
  /\ \A f \in Flushes : flush[f].phase = "ok" /\ Head(flush[f].todo) \in Adds
                        => applied[Head(flush[f].todo)] > 0

IInv == Types /\ AnswersHeld /\ NothingVanishes

-----------------------------------------------------------------------------
LEMMA InitIInv == Init => IInv
BY SyncAssumption
   DEF Init, IInv, Types, FlushRecord, AnswersHeld, NothingVanishes, NoFlush, Stored, Absent

\* The outbox and the answers stay, and the server forgets nothing.
LEMMA KeptIInv ==
  ASSUME IInv, UNCHANGED <<call, store, flush>>, now' \in Nat,
         applied' \in [Adds -> Nat], \A a \in Adds : applied'[a] >= applied[a]
  PROVE  IInv'
BY DEF IInv, Types, FlushRecord, AnswersHeld, NothingVanishes, Stored

\* A replay that changes its phase keeps its list.
LEMMA PhaseOnly ==
  ASSUME NEW f, FlushRecord(f), NEW p
  PROVE  [flush[f] EXCEPT !.phase = p] = [phase |-> p, todo |-> flush[f].todo]
<1> DEFINE x == flush[f].phase
           y == flush[f].todo
<1>1. flush[f] = [phase |-> x, todo |-> y]
  BY DEF FlushRecord
<1> HIDE DEF x, y
<1>2. [flush[f] EXCEPT !.phase = p] = [phase |-> p, todo |-> y]
  BY <1>1
<1>3. QED
  BY <1>2 DEF y

\* What the server does with an addition.
LEMMA ApplyStep ==
  ASSUME Types, NEW a, Apply(a)
  PROVE  /\ applied' \in [Adds -> Nat] /\ \A b \in Adds : applied'[b] >= applied[b]
         /\ a \in Adds /\ Answer(a) = "ok" => applied'[a] > 0
<1>1. applied \in [Adds -> Nat]
  BY DEF Types
<1>2. CASE Accepts(a)
  <2>1. applied' = [applied EXCEPT ![a] = applied[a] + 1]
    BY <1>2 DEF Apply
  <2>2. CASE a \in Adds
    BY <1>1, <2>1, <2>2
  <2>3. CASE a \notin Adds
    <3>1. applied' = applied
      BY <1>1, <2>1, <2>3
    <3>2. QED
      BY <1>1, <2>3, <3>1
  <2>4. QED
    BY <2>2, <2>3
<1>3. CASE ~Accepts(a)
  <2>1. applied' = applied
    BY <1>1, <1>3 DEF Apply
  <2>2. QED
    BY <1>1, <1>3, <2>1 DEF Answer
<1>4. QED
  BY <1>2, <1>3

\* A step of one replay.
LEMMA FlushKeeps ==
  ASSUME IInv, NEW f \in Flushes, NEW r,
         flush' = [flush EXCEPT ![f] = r], r = [phase |-> r.phase, todo |-> r.todo],
         r.phase = "ok" /\ Head(r.todo) \in Adds => applied'[Head(r.todo)] > 0,
         UNCHANGED <<now, call, store>>,
         applied' \in [Adds -> Nat], \A a \in Adds : applied'[a] >= applied[a]
  PROVE  IInv'
<1>1. \A g \in Flushes : flush'[g] = IF g = f THEN r ELSE flush[g]
  BY DEF IInv, Types
<1>2. Types'
  BY <1>1 DEF IInv, Types, FlushRecord
<1>3. AnswersHeld'
  <2>1. \A g \in Flushes : flush'[g].phase = "ok" /\ Head(flush'[g].todo) \in Adds
                           => applied'[Head(flush'[g].todo)] > 0
    BY <1>1 DEF IInv, AnswersHeld, Types
  <2>2. QED
    BY <2>1 DEF IInv, AnswersHeld, Types
<1>4. NothingVanishes'
  BY DEF IInv, NothingVanishes, Stored, Types
<1>5. QED
  BY <1>2, <1>3, <1>4 DEF IInv

LEMMA FlushStepKeeps ==
  ASSUME IInv, NEW f \in Flushes, Reconnect(f) \/ FlushStep(f) \/ FlushFails(f)
  PROVE  IInv'
<1> USE DEF shown, server
<1>1. /\ now \in Nat /\ applied \in [Adds -> Nat]
      /\ \A a \in Adds : applied[a] >= applied[a]
      /\ DOMAIN flush = Flushes /\ FlushRecord(f)
  BY DEF IInv, Types
<1>2. ASSUME NEW p, p # "ok", flush' = [flush EXCEPT ![f].phase = p],
             UNCHANGED <<now, call, store, applied>>
      PROVE  IInv'
  <2> DEFINE r == [phase |-> p, todo |-> flush[f].todo]
  <2>1. flush' = [flush EXCEPT ![f] = r]
    BY <1>1, <1>2, PhaseOnly
  <2>2. QED
    BY <1>1, <1>2, <2>1, FlushKeeps
<1>3. ASSUME Stop(f), UNCHANGED <<now, call, store, applied>>
      PROVE  IInv'
  BY <1>1, <1>3, FlushKeeps DEF Stop, NoFlush
<1>4. CASE Reconnect(f)
  BY <1>2, <1>4 DEF Reconnect
<1>5. CASE List(f)
  <2> DEFINE r == [phase |-> "send", todo |-> Pending]
  <2>1. flush' = [flush EXCEPT ![f] = r] /\ UNCHANGED <<now, call, store, applied>>
    BY <1>5 DEF List
  <2>2. r.phase # "ok" /\ r = [phase |-> r.phase, todo |-> r.todo]
    OBVIOUS
  <2> HIDE DEF r
  <2>3. QED
    BY <1>1, <2>1, <2>2, FlushKeeps
<1>6. CASE Send(f)
  BY <1>2, <1>6 DEF Send
<1>7. CASE SendStops(f) \/ Refused(f) \/ FlushFails(f)
  BY <1>3, <1>7 DEF SendStops, Refused, FlushFails
<1>8. CASE ServeFlush(f)
  <2> DEFINE a == Head(flush[f].todo)
             r == [phase |-> Answer(a), todo |-> flush[f].todo]
  <2>1. /\ Apply(a) /\ flush' = [flush EXCEPT ![f] = r]
        /\ UNCHANGED <<now, call, store>>
    BY <1>1, <1>8, PhaseOnly DEF ServeFlush
  <2>2. /\ applied' \in [Adds -> Nat] /\ \A b \in Adds : applied'[b] >= applied[b]
        /\ a \in Adds /\ r.phase = "ok" => applied'[a] > 0
    BY <2>1, ApplyStep DEF IInv
  <2>3. r = [phase |-> r.phase, todo |-> r.todo] /\ Head(r.todo) = a
    OBVIOUS
  <2> HIDE DEF a, r
  <2>4. QED
    BY <2>1, <2>2, <2>3, FlushKeeps
<1>9. CASE Acknowledge(f)
  <2> DEFINE a == Head(flush[f].todo)
             r == [phase |-> "send", todo |-> Tail(flush[f].todo)]
  <2>1. /\ flush[f].phase = "ok" /\ flush' = [flush EXCEPT ![f] = r]
        /\ store' = [store EXCEPT ![a] = Absent] /\ UNCHANGED <<now, call, applied>>
    BY <1>9 DEF Acknowledge
  <2>2. r.phase = "send" /\ r = [phase |-> r.phase, todo |-> r.todo]
    OBVIOUS
  <2>3. a \in Adds => applied[a] > 0
    BY <2>1 DEF IInv, AnswersHeld
  <2> HIDE DEF a, r
  <2>4. \A g \in Flushes : flush'[g] = IF g = f THEN r ELSE flush[g]
    BY <1>1, <2>1
  <2>5. Types'
    BY <2>1, <2>2, <2>4 DEF IInv, Types, FlushRecord
  <2>6. AnswersHeld'
    BY <2>1, <2>2, <2>4 DEF IInv, AnswersHeld
  <2>7. NothingVanishes'
    BY <2>1, <2>3 DEF IInv, Types, NothingVanishes, Stored
  <2>8. QED
    BY <2>5, <2>6, <2>7 DEF IInv
<1>10. QED
  BY <1>4, <1>5, <1>6, <1>7, <1>8, <1>9 DEF FlushStep

\* A step of one call.
LEMMA CallKeeps ==
  ASSUME IInv, NEW a \in Adds, NEW c,
         c \in {"wait", "unsent", "gone", "ok", "refused"} \/ (c = "done" /\ call[a] = "ok"),
         call' = [call EXCEPT ![a] = c], c = "ok" => applied'[a] > 0,
         UNCHANGED <<now, store, flush>>,
         applied' \in [Adds -> Nat], \A b \in Adds : applied'[b] >= applied[b]
  PROVE  IInv'
<1>1. /\ \A b \in Adds : call'[b] = IF b = a THEN c ELSE call[b]
      /\ DOMAIN call' = Adds
  BY DEF IInv, Types
<1>2. Types'
  BY <1>1 DEF IInv, Types, FlushRecord
<1>3. AnswersHeld'
  BY <1>1 DEF IInv, Types, AnswersHeld
<1>4. NothingVanishes'
  <2>1. ASSUME NEW b \in Adds, call'[b] = "done" \/ (call'[b] = "queued" /\ ~Stored(b))
        PROVE  applied[b] > 0
    BY <1>1, <2>1 DEF IInv, AnswersHeld, NothingVanishes
  <2>2. \A b \in Adds : applied'[b] >= applied[b] /\ applied[b] \in Nat /\ applied'[b] \in Nat
    BY DEF IInv, Types
  <2>3. QED
    BY <2>1, <2>2 DEF NothingVanishes, Stored
<1>5. QED
  BY <1>2, <1>3, <1>4 DEF IInv

LEMMA CallStepKeeps ==
  ASSUME IInv, NEW a \in Adds, Scan(a) \/ CallStep(a) \/ CallFails(a)
  PROVE  IInv'
<1> USE DEF shown, server
<1>1. /\ now \in Nat /\ applied \in [Adds -> Nat]
      /\ \A b \in Adds : applied[b] >= applied[b]
  BY DEF IInv, Types
<1>2. CASE Scan(a)
  BY <1>1, <1>2, CallKeeps DEF Scan
<1>3. CASE CallAnswered(a)
  BY <1>1, <1>3, CallKeeps DEF CallAnswered
<1>4. CASE CallFails(a)
  BY <1>1, <1>4, CallKeeps DEF CallFails
<1>5. CASE ServeCall(a)
  <2>1. /\ call' = [call EXCEPT ![a] = Answer(a)] /\ Apply(a)
        /\ UNCHANGED <<now, store, flush>>
    BY <1>5 DEF ServeCall
  <2>2. PICK c \in {"ok", "refused"} : c = Answer(a)
    BY DEF Answer
  <2>3. QED
    BY <1>1, <2>1, <2>2, ApplyStep, CallKeeps DEF IInv
<1>6. CASE Enqueue(a)
  <2>1. /\ call' = [call EXCEPT ![a] = "queued"] /\ store' = [store EXCEPT ![a] = now]
        /\ UNCHANGED <<now, flush, applied>>
    BY <1>6 DEF Enqueue
  <2>2. now # Absent
    BY <1>1 DEF Absent
  <2>3. QED
    BY <2>1, <2>2 DEF IInv, Types, FlushRecord, AnswersHeld, NothingVanishes, Stored
<1>7. QED
  BY <1>2, <1>3, <1>4, <1>5, <1>6 DEF CallStep

LEMMA ReloadKeeps ==
  ASSUME IInv, Reload
  PROVE  IInv'
<1>1. /\ UNCHANGED <<now, store, applied>> /\ flush' = [f \in Flushes |-> NoFlush]
      /\ \A a \in Adds : call'[a] \in {call[a], "gone"} /\ call'[a] # "ok"
      /\ call' \in [Adds -> {"new", "wait", "ok", "refused", "unsent", "queued", "done", "gone"}]
  BY DEF Reload, IInv, Types, CallWaits
<1>2. QED
  BY <1>1 DEF IInv, Types, FlushRecord, NoFlush, AnswersHeld, NothingVanishes, Stored

LEMMA NextKeeps == IInv /\ [Next]_vars => IInv'
<1> SUFFICES ASSUME IInv, [Next]_vars PROVE IInv'
  OBVIOUS
<1> USE DEF shown, server
<1>1. now \in Nat /\ applied \in [Adds -> Nat] /\ \A a \in Adds : applied[a] >= applied[a]
  BY DEF IInv, Types
<1>2. CASE Tick \/ Disconnect \/ UNCHANGED vars
  BY <1>1, <1>2, KeptIInv DEF Tick, Disconnect, vars
<1>3. ASSUME NEW a \in Adds, ServeLate(a)
      PROVE  IInv'
  <2>1. /\ Apply(a) \/ UNCHANGED applied
        /\ UNCHANGED <<now, call, store, flush>>
    BY <1>3 DEF ServeLate
  <2>2. applied' \in [Adds -> Nat] /\ \A b \in Adds : applied'[b] >= applied[b]
    BY <1>1, <2>1, ApplyStep DEF IInv
  <2>3. QED
    BY <1>1, <2>1, <2>2, KeptIInv
<1>4. CASE Checkout \/ \E c \in Carts : Resume(c)
  <2>1. UNCHANGED <<now, call, store, flush, applied>>
    BY <1>4 DEF Checkout, Resume
  <2>2. QED
    BY <1>1, <2>1, KeptIInv
<1>5. QED
  BY <1>2, <1>3, <1>4, FlushStepKeeps, CallStepKeeps, ReloadKeeps DEF Next

-----------------------------------------------------------------------------
(***************************************************************************)
(* An addition the page is done with, or that left the outbox, was applied *)
(* by the server, through reloads, lost answers, requests that arrive late *)
(* and replays that overlap, however many run.                             *)
(***************************************************************************)
THEOREM AdditionsAreKept == Spec => []NothingVanishes
<1>1. IInv => NothingVanishes
  BY DEF IInv
<1>2. QED
  BY <1>1, InitIInv, NextKeeps, PTL DEF Spec
-----------------------------------------------------------------------------
(***************************************************************************)
(* The list a replay works through: what is stored, in the order of the    *)
(* times, and of the ids where the times agree.                            *)
(***************************************************************************)
\* Of any two stored additions, one is before the other.
LEMMA BeforeOrders ==
  ASSUME Types
  PROVE  /\ \A a, b, c \in Waiting : Before(a, b) /\ Before(b, c) => Before(a, c)
         /\ \A a, b \in Waiting : a # b => Before(a, b) \/ Before(b, a)
         /\ \A a \in Waiting : ~Before(a, a)
<1>1. \A a \in Waiting : a \in Adds /\ store[a] \in Nat /\ Uuid[a] \in Nat
  BY SyncAssumption DEF Types, Waiting, Stored
<1>2. \A a, b \in Waiting : Uuid[a] = Uuid[b] => a = b
  BY SyncAssumption DEF Waiting
<1> QED BY <1>1, <1>2 DEF Before

LEMMA Latest ==
  ASSUME Types, NEW T \in SUBSET Waiting, T # {}
  PROVE  \E m \in T : \A a \in T : a # m => Before(a, m)
<1> DEFINE W == {s \in SUBSET T : s # {} => \E m \in s : \A a \in s : a # m => Before(a, m)}
<1>1. IsFiniteSet(T)
  BY SyncAssumption, FS_Subset DEF Waiting
<1>2. ASSUME NEW s \in SUBSET T, \A x \in s : s \ {x} \in W
      PROVE  s \in W
  <2> SUFFICES ASSUME s # {} PROVE \E m \in s : \A a \in s : a # m => Before(a, m)
    OBVIOUS
  <2>1. PICK x \in s : TRUE
    OBVIOUS
  <2>2. CASE s = {x}
    BY <2>2
  <2>3. CASE s # {x}
    <3>1. PICK m \in s \ {x} : \A a \in s \ {x} : a # m => Before(a, m)
      BY <1>2, <2>1, <2>3
    <3>2. Before(m, x) \/ Before(x, m)
      BY <2>1, <3>1, BeforeOrders
    <3>3. CASE Before(x, m)
      BY <3>1, <3>3
    <3>4. CASE Before(m, x)
      <4>1. \A a \in s : a # x => Before(a, x)
        BY <2>1, <3>1, <3>4, BeforeOrders
      <4> QED BY <2>1, <4>1
    <3> QED BY <3>2, <3>3, <3>4
  <2> QED BY <2>2, <2>3
<1> HIDE DEF W
<1>3. T \in W
  BY <1>1, <1>2, SetInduction
<1> QED BY <1>3 DEF W

\* The additions of a set, listed in their order.
InOrder(q, s) ==
  /\ q \in [1..Cardinality(s) -> s]
  /\ \A i, j \in 1..Cardinality(s) : i < j => Before(q[i], q[j])

LEMMA ListExists ==
  ASSUME Types
  PROVE  \E q : InOrder(q, Waiting)
<1> DEFINE W == {s \in SUBSET Waiting : \E q : InOrder(q, s)}
<1>1. IsFiniteSet(Waiting)
  BY SyncAssumption, FS_Subset DEF Waiting
<1>2. ASSUME NEW s \in SUBSET Waiting, \A x \in s : s \ {x} \in W
      PROVE  s \in W
  <2> SUFFICES \E q : InOrder(q, s)
    OBVIOUS
  <2>1. CASE s = {}
    <3>1. Cardinality(s) = 0
      BY <2>1, FS_EmptySet
    <3>2. InOrder([i \in 1..Cardinality(s) |-> i], s)
      BY <3>1 DEF InOrder
    <3> QED BY <3>2
  <2>2. CASE s # {}
    <3>1. PICK m \in s : \A a \in s : a # m => Before(a, m)
      BY <2>2, Latest
    <3>2. PICK q : InOrder(q, s \ {m})
      BY <1>2, <3>1
    <3> DEFINE n == Cardinality(s)
               r == [i \in 1..n |-> IF i = n THEN m ELSE q[i]]
    <3>3. n \in Nat /\ Cardinality(s \ {m}) = n - 1
      BY <1>1, <3>1, FS_Subset, Smaller
    <3> HIDE DEF n
    <3>4. \A i \in 1..n : i # n => i \in 1..(n - 1)
      BY <3>3
    <3>5. \A i \in 1..(n - 1) : q[i] \in s /\ q[i] # m
      BY <3>2, <3>3 DEF InOrder
    <3>6. r \in [1..n -> s]
      BY <3>1, <3>4, <3>5
    <3>7. ASSUME NEW i \in 1..n, NEW j \in 1..n, i < j
          PROVE  Before(r[i], r[j])
      <4>1. i \in 1..(n - 1) /\ i # n
        BY <3>3, <3>7
      <4>2. CASE j = n
        BY <3>1, <3>5, <4>1, <4>2
      <4>3. CASE j # n
        <5>1. Before(q[i], q[j])
          BY <3>2, <3>3, <3>4, <3>7, <4>1, <4>3 DEF InOrder
        <5> QED BY <4>1, <4>3, <5>1
      <4> QED BY <4>2, <4>3
    <3>8. InOrder(r, s)
      BY <3>6, <3>7 DEF InOrder, n
    <3> QED BY <3>8
  <2> QED BY <2>1, <2>2
<1>3. Waiting \in W
  BY <1>1, <1>2, SetInduction
<1> QED BY <1>3

LEMMA PendingLists ==
  ASSUME Types
  PROVE  /\ Pending \in Seq(Adds)
         /\ \A i \in 1..Len(Pending) : Pending[i] \in Waiting
         /\ \A i, j \in 1..Len(Pending) : i < j => Before(Pending[i], Pending[j])
         /\ ToSet(Pending) = Waiting
<1> DEFINE n == Cardinality(Waiting)
<1>1. IsFiniteSet(Waiting) /\ n \in Nat
  BY SyncAssumption, FS_Subset, FS_CardinalityType DEF Waiting
<1>2. PICK q : InOrder(q, Waiting)
  BY ListExists
<1>3. q \in SetToSeqs(Waiting)
  <2>1. \A i, j \in 1..n : i < j => q[i] # q[j]
    BY <1>2, BeforeOrders DEF InOrder
  <2>2. \A i, j \in 1..n : i # j => i < j \/ j < i
    BY <1>1
  <2>3. \A i, j \in 1..n : i # j => q[i] # q[j]
    BY <2>1, <2>2
  <2> QED BY <1>2, <2>3 DEF SetToSeqs, InOrder
<1>4. Pending \in SetToSeqs(Waiting) /\ \A i, j \in 1..n : i < j => Before(Pending[i], Pending[j])
  BY <1>2, <1>3 DEF Pending, InOrder
<1>5. Pending \in [1..n -> Waiting] /\ \A i, j \in 1..n : i # j => Pending[i] # Pending[j]
  BY <1>4 DEF SetToSeqs
<1>6. Pending \in Seq(Adds) /\ Len(Pending) = n
  BY <1>1, <1>5 DEF Waiting
<1>7. Pending \in Surjection(1..n, Waiting)
  <2>1. Pending \in Injection(1..n, Waiting)
    BY <1>5 DEF Injection, IsInjective
  <2>2. Cardinality(1..n) = n
    BY <1>1, FS_Interval
  <2> QED BY <1>1, <2>1, <2>2, FS_Injection
<1>8. ToSet(Pending) = Waiting
  BY <1>5, <1>7 DEF ToSet, Surjection
<1> QED BY <1>4, <1>5, <1>6, <1>8
-----------------------------------------------------------------------------
(***************************************************************************)
(* The list of a replay, after others have scanned, stored, sent and       *)
(* removed what they liked: what it still holds of the outbox is in order, *)
(* and what is older and not on it the server has had.                     *)
(***************************************************************************)
Orderly(s) ==
  /\ s \in Seq(Adds)
  /\ \A i \in 1..Len(s) : call[s[i]] = "queued"
  /\ \A i, j \in 1..Len(s) :
       i < j => s[i] # s[j] /\ (Stored(s[i]) /\ Stored(s[j]) => Before(s[i], s[j]))
  /\ \A a \in Adds, i \in 1..Len(s) :
       Stored(a) /\ Stored(s[i]) /\ store[a] < store[s[i]]
         => applied[a] > 0 \/ a \in ToSet(s)

ListOf(f) ==
  /\ flush[f].phase \in {"off", "list", "send", "wait", "ok", "refused"}
  /\ flush[f].phase \in {"off", "list"} => flush[f].todo = <<>>
  /\ flush[f].phase \in {"wait", "ok", "refused"} => flush[f].todo # <<>>
  /\ Orderly(flush[f].todo)

Lists ==
  /\ \A a \in Adds : Stored(a) => call[a] = "queued" /\ store[a] <= now
  /\ \A f \in Flushes : ListOf(f)

OrderInv == IInv /\ Lists

\* What no step undoes.  Only an addition that was not queued enters the outbox.
Forward ==
  /\ now <= now'
  /\ \A a \in Adds : call[a] = "queued" => call'[a] = "queued"
  /\ \A a \in Adds : applied[a] > 0 => applied'[a] > 0
  /\ \A a \in Adds : \/ store'[a] \in {store[a], Absent}
                     \/ call[a] # "queued" /\ store'[a] = now /\ call'[a] = "queued"

LEMMA StaysOrderly ==
  ASSUME OrderInv, IInv', Forward, NEW s, Orderly(s)
  PROVE  Orderly(s)'
<1>1. \A a \in Adds : /\ store[a] \in Nat \cup {Absent} /\ store'[a] \in Nat \cup {Absent}
                      /\ now \in Nat
                      /\ Stored(a) => call[a] = "queued" /\ store[a] <= now
  BY DEF OrderInv, IInv, Types, Lists
<1>2. s \in Seq(Adds) /\ \A i \in 1..Len(s) : s[i] \in Adds /\ call[s[i]] = "queued"
  BY DEF Orderly
<1>3. \A i \in 1..Len(s) : call'[s[i]] = "queued" /\ store'[s[i]] \in {store[s[i]], Absent}
  BY <1>2 DEF Forward
<1>4. \A i, j \in 1..Len(s) :
        i < j => s[i] # s[j] /\ (Stored(s[i])' /\ Stored(s[j])' => Before(s[i], s[j])')
  BY <1>3 DEF Orderly, Stored, Before
<1>5. ASSUME NEW a \in Adds, NEW i \in 1..Len(s),
             Stored(a)', Stored(s[i])', store'[a] < store'[s[i]]
      PROVE  applied'[a] > 0 \/ a \in ToSet(s)
  <2>1. PICK b \in Adds : b = s[i] /\ store'[b] \in {store[b], Absent}
    BY <1>2, <1>3, <1>5
  <2>2. Stored(b) /\ store'[b] = store[b]
    BY <1>5, <2>1 DEF Stored
  <2>3. store[b] \in Nat /\ store[b] <= now
    BY <1>1, <2>2 DEF Stored
  <2>4. store'[a] # now
    <3>1. store'[a] < store[b]
      BY <1>5, <2>1, <2>2
    <3> QED BY <1>1, <2>3, <3>1
  <2>5. store'[a] = store[a] /\ Stored(a)
    BY <1>5, <2>4 DEF Forward, Stored
  <2>6. applied[a] > 0 \/ a \in ToSet(s)
    BY <1>5, <2>1, <2>2, <2>5 DEF Orderly
  <2> QED BY <2>6 DEF Forward
<1> QED BY <1>2, <1>3, <1>4, <1>5 DEF Orderly

\* The list goes on without its head, which is no longer stored.
LEMMA RestIsOrderly ==
  ASSUME NEW s, Orderly(s)', s # <<>>, ~Stored(Head(s))'
  PROVE  Orderly(Tail(s))'
<1>1. /\ s \in Seq(Adds) /\ Tail(s) \in Seq(Adds) /\ Len(Tail(s)) = Len(s) - 1
      /\ \A i \in 1..Len(Tail(s)) : Tail(s)[i] = s[i + 1] /\ i + 1 \in 1..Len(s)
      /\ Head(s) = s[1]
  BY DEF Orderly
<1>2. \A i \in 1..Len(Tail(s)) : call'[Tail(s)[i]] = "queued"
  BY <1>1 DEF Orderly
<1>3. ASSUME NEW i \in 1..Len(Tail(s)), NEW j \in 1..Len(Tail(s)), i < j
      PROVE  Tail(s)[i] # Tail(s)[j]
             /\ (Stored(Tail(s)[i])' /\ Stored(Tail(s)[j])' => Before(Tail(s)[i], Tail(s)[j])')
  <2>1. i + 1 \in 1..Len(s) /\ j + 1 \in 1..Len(s) /\ i + 1 < j + 1
    BY <1>1, <1>3
  <2>2. s[i + 1] # s[j + 1]
        /\ (Stored(s[i + 1])' /\ Stored(s[j + 1])' => Before(s[i + 1], s[j + 1])')
    BY <2>1 DEF Orderly
  <2>3. Tail(s)[i] = s[i + 1] /\ Tail(s)[j] = s[j + 1]
    BY <1>1
  <2> QED BY <2>2, <2>3
<1>4. ASSUME NEW a \in Adds, NEW i \in 1..Len(Tail(s)),
             Stored(a)', Stored(Tail(s)[i])', store'[a] < store'[Tail(s)[i]]
      PROVE  applied'[a] > 0 \/ a \in ToSet(Tail(s))
  <2>1. applied'[a] > 0 \/ a \in ToSet(s)
    BY <1>1, <1>4 DEF Orderly
  <2>2. a # s[1]
    BY <1>1, <1>4
  <2>3. ASSUME NEW k \in DOMAIN s, a = s[k]
        PROVE  a \in ToSet(Tail(s))
    <3>1. k \in 1..Len(s) /\ k # 1
      BY <1>1, <2>2, <2>3
    <3>2. k - 1 \in 1..Len(Tail(s)) /\ Tail(s)[k - 1] = s[k]
      BY <1>1, <3>1
    <3> QED BY <1>1, <2>3, <3>2 DEF ToSet
  <2> QED BY <2>1, <2>3 DEF ToSet
<1> QED BY <1>1, <1>2, <1>3, <1>4 DEF Orderly

\* A fresh list.
LEMMA PendingIsOrderly ==
  ASSUME OrderInv
  PROVE  Orderly(Pending)
<1>1. /\ Pending \in Seq(Adds)
      /\ \A i \in 1..Len(Pending) : Pending[i] \in Waiting
      /\ \A i, j \in 1..Len(Pending) : i < j => Before(Pending[i], Pending[j])
      /\ ToSet(Pending) = Waiting
  BY PendingLists DEF OrderInv, IInv
<1>2. \A i, j \in 1..Len(Pending) : i < j => Pending[i] # Pending[j]
  BY <1>1, BeforeOrders DEF OrderInv, IInv
<1>3. \A a \in Waiting : Stored(a) /\ call[a] = "queued"
  BY DEF OrderInv, Lists, Waiting
<1> HIDE DEF Pending
<1> QED BY <1>1, <1>2, <1>3 DEF Orderly, Waiting

\* The empty list.
LEMMA NothingIsOrderly == Orderly(<<>>) /\ Orderly(<<>>)'
BY DEF Orderly

\* What a step does to a replay.
Goes(f) ==
  \/ flush'[f].phase = flush[f].phase /\ flush'[f].todo = flush[f].todo
  \/ flush'[f].phase \in {"off", "list"} /\ flush'[f].todo = <<>>
  \/ /\ flush[f].todo # <<>> /\ flush'[f].todo = flush[f].todo
     /\ flush'[f].phase \in {"send", "wait", "ok", "refused"}
  \/ flush'[f].phase = "send" /\ flush'[f].todo = Pending
  \/ /\ flush[f].todo # <<>> /\ store'[Head(flush[f].todo)] = Absent
     /\ flush'[f].phase = "send" /\ flush'[f].todo = Tail(flush[f].todo)

LEMMA OrderKept ==
  ASSUME OrderInv, IInv', Forward, \A f \in Flushes : Goes(f)
  PROVE  OrderInv'
<1>1. ASSUME NEW a \in Adds, Stored(a)'
      PROVE  call'[a] = "queued" /\ store'[a] <= now'
  <2>1. /\ now \in Nat /\ now' \in Nat /\ now <= now'
        /\ store[a] \in Nat \cup {Absent}
        /\ Stored(a) => call[a] = "queued" /\ store[a] <= now
    BY DEF OrderInv, IInv, Types, Lists, Forward
  <2>2. store'[a] = store[a] \/ (store'[a] = now /\ call'[a] = "queued")
    BY <1>1 DEF Forward, Stored
  <2>3. CASE store'[a] = store[a]
    <3>1. Stored(a) /\ store[a] \in Nat
      BY <1>1, <2>1, <2>3 DEF Stored
    <3>2. call'[a] = "queued"
      BY <2>1, <3>1 DEF Forward
    <3>3. store[a] <= now'
      BY <2>1, <3>1
    <3> QED BY <2>3, <3>2, <3>3
  <2>4. CASE store'[a] = now /\ call'[a] = "queued"
    BY <2>1, <2>4
  <2> QED BY <2>2, <2>3, <2>4
<1>2. ASSUME NEW f \in Flushes
      PROVE  ListOf(f)'
  <2>1. ListOf(f)
    BY DEF OrderInv, Lists
  <2>2. PICK s : s = flush[f].todo
    OBVIOUS
  <2>3. PICK t : t = flush'[f].todo
    OBVIOUS
  <2>4. Orderly(s)'
    <3>1. Orderly(s)
      BY <2>1, <2>2 DEF ListOf
    <3> QED BY <3>1, StaysOrderly
  <2>5. Orderly(Pending)
    BY PendingIsOrderly
  <2>6. PICK p : p = Pending
    OBVIOUS
  <2>7. Orderly(p)'
    <3>1. Orderly(p)
      BY <2>5, <2>6
    <3> QED BY <3>1, StaysOrderly
  <2>8. s # <<>> /\ ~Stored(Head(s))' => Orderly(Tail(s))'
    BY <2>4, RestIsOrderly
  <2>9. PICK r : r = Tail(s)
    OBVIOUS
  <2>10. Orderly(t)'
    <3>1. t \in {s, <<>>, p} \/ (t = r /\ s # <<>> /\ ~Stored(Head(s))')
      BY <1>2, <2>2, <2>3, <2>6, <2>9 DEF Goes, Stored
    <3>2. Orderly(r)' \/ ~(s # <<>> /\ ~Stored(Head(s))')
      BY <2>8, <2>9
    <3> QED BY <2>4, <2>7, <3>1, <3>2, NothingIsOrderly
  <2> QED BY <2>1, <2>2, <2>3, <2>10 DEF ListOf, Goes
<1> QED BY <1>1, <1>2 DEF OrderInv, Lists

LEMMA InitOrder == Init => OrderInv
<1> SUFFICES ASSUME Init PROVE Lists
  BY InitIInv DEF OrderInv
<1>1. \A a \in Adds : ~Stored(a)
  BY DEF Init, Stored
<1>2. \A f \in Flushes : flush[f].phase = "off" /\ flush[f].todo = <<>>
  BY DEF Init, NoFlush
<1> QED BY <1>1, <1>2, NothingIsOrderly DEF Lists, ListOf

\* Neither the outbox nor a replay is touched.
LEMMA OrderAside ==
  ASSUME OrderInv, IInv', UNCHANGED <<store, flush>>, now <= now',
         \A a \in Adds : call[a] = "queued" => call'[a] = "queued",
         \A a \in Adds : applied[a] > 0 => applied'[a] > 0
  PROVE  OrderInv'
BY OrderKept DEF Forward, Goes

\* A replay of its own accord, or the server for it.
LEMMA OrderOfFlush ==
  ASSUME OrderInv, IInv', NEW f \in Flushes, Reconnect(f) \/ FlushStep(f) \/ FlushFails(f)
  PROVE  OrderInv'
<1> USE DEF shown, server
<1>1. /\ now \in Nat /\ applied \in [Adds -> Nat] /\ DOMAIN flush = Flushes
      /\ FlushRecord(f) /\ ListOf(f)
  BY DEF OrderInv, IInv, Types, Lists
<1>2. ASSUME NEW r, flush' = [flush EXCEPT ![f] = r], UNCHANGED <<now, call>>,
             \A a \in Adds : applied[a] > 0 => applied'[a] > 0,
             \A a \in Adds : store'[a] \in {store[a], Absent},
             \/ r.phase \in {"off", "list"} /\ r.todo = <<>>
             \/ /\ flush[f].todo # <<>> /\ r.todo = flush[f].todo
                /\ r.phase \in {"send", "wait", "ok", "refused"}
             \/ r.phase = "send" /\ r.todo = Pending
             \/ /\ flush[f].todo # <<>> /\ store'[Head(flush[f].todo)] = Absent
                /\ r.phase = "send" /\ r.todo = Tail(flush[f].todo)
      PROVE  OrderInv'
  <2>1. \A g \in Flushes : flush'[g] = IF g = f THEN r ELSE flush[g]
    BY <1>1, <1>2
  <2>2. \A g \in Flushes : Goes(g)
    BY <1>2, <2>1 DEF Goes
  <2>3. Forward
    BY <1>1, <1>2 DEF Forward
  <2> QED BY <2>2, <2>3, OrderKept
<1>3. CASE Stop(f) /\ UNCHANGED <<now, call, store, applied>>
  <2>1. NoFlush.phase = "off" /\ NoFlush.todo = <<>>
    BY DEF NoFlush
  <2> QED BY <1>1, <1>2, <1>3, <2>1 DEF Stop
<1>4. CASE Reconnect(f)
  <2>1. /\ flush' = [flush EXCEPT ![f] = [phase |-> "list", todo |-> flush[f].todo]]
        /\ UNCHANGED <<now, call, store, applied>> /\ flush[f].todo = <<>>
    BY <1>1, <1>4, PhaseOnly DEF Reconnect, Running, ListOf
  <2> QED BY <1>2, <2>1
<1>5. CASE List(f)
  BY <1>2, <1>5 DEF List
<1>6. CASE Send(f)
  <2>1. /\ flush' = [flush EXCEPT ![f] = [phase |-> "wait", todo |-> flush[f].todo]]
        /\ UNCHANGED <<now, call, store, applied>> /\ flush[f].todo # <<>>
    BY <1>1, <1>6, PhaseOnly DEF Send
  <2> QED BY <1>2, <2>1
<1>7. CASE SendStops(f) \/ Refused(f) \/ FlushFails(f)
  BY <1>3, <1>7 DEF SendStops, Refused, FlushFails
<1>8. CASE ServeFlush(f)
  <2> DEFINE a == Head(flush[f].todo)
  <2>1. /\ Apply(a) /\ UNCHANGED <<now, call, store>> /\ flush[f].todo # <<>>
        /\ flush' = [flush EXCEPT ![f] = [phase |-> Answer(a), todo |-> flush[f].todo]]
    BY <1>1, <1>8, PhaseOnly DEF ServeFlush, ListOf
  <2>2. \A b \in Adds : applied[b] > 0 => applied'[b] > 0
    <3>1. applied' \in [Adds -> Nat] /\ \A b \in Adds : applied'[b] >= applied[b]
      BY <2>1, ApplyStep DEF OrderInv, IInv
    <3> QED BY <1>1, <3>1
  <2>3. Answer(a) \in {"ok", "refused"}
    BY DEF Answer
  <2> HIDE DEF a
  <2> QED BY <1>2, <2>1, <2>2, <2>3
<1>9. CASE Acknowledge(f)
  <2> DEFINE a == Head(flush[f].todo)
  <2>1. /\ flush' = [flush EXCEPT ![f] = [phase |-> "send", todo |-> Tail(flush[f].todo)]]
        /\ store' = [store EXCEPT ![a] = Absent] /\ UNCHANGED <<now, call, applied>>
        /\ flush[f].todo # <<>>
    BY <1>1, <1>9 DEF Acknowledge, ListOf
  <2>2. a \in Adds /\ DOMAIN store = Adds
    BY <1>1, <2>1 DEF ListOf, Orderly, OrderInv, IInv, Types
  <2>3. store'[a] = Absent /\ \A b \in Adds : store'[b] \in {store[b], Absent}
    BY <2>1, <2>2
  <2> QED BY <1>2, <2>1, <2>3
<1> QED BY <1>4, <1>5, <1>6, <1>7, <1>8, <1>9 DEF FlushStep

\* The cashier, or the server for a direct call.
LEMMA OrderOfCall ==
  ASSUME OrderInv, IInv', NEW a \in Adds,
         Scan(a) \/ CallStep(a) \/ CallFails(a) \/ ServeLate(a)
  PROVE  OrderInv'
<1> USE DEF shown, server
<1>1. now \in Nat /\ DOMAIN call = Adds /\ DOMAIN store = Adds /\ applied \in [Adds -> Nat]
  BY DEF OrderInv, IInv, Types
<1>2. ASSUME NEW c, call' = [call EXCEPT ![a] = c], call[a] # "queued",
             UNCHANGED <<now, store, flush>>,
             \A b \in Adds : applied[b] > 0 => applied'[b] > 0
      PROVE  OrderInv'
  BY <1>1, <1>2, OrderAside
<1>3. ASSUME Apply(a)
      PROVE  \A b \in Adds : applied[b] > 0 => applied'[b] > 0
  <2>1. applied' \in [Adds -> Nat] /\ \A b \in Adds : applied'[b] >= applied[b]
    BY <1>3, ApplyStep DEF OrderInv, IInv
  <2> QED BY <1>1, <2>1
<1>4. CASE Scan(a) \/ CallAnswered(a) \/ CallFails(a)
  BY <1>2, <1>4 DEF Scan, CallAnswered, CallFails, CallWaits
<1>5. CASE ServeCall(a)
  BY <1>2, <1>3, <1>5 DEF ServeCall
<1>6. CASE ServeLate(a)
  BY <1>1, <1>3, <1>6, OrderAside DEF ServeLate
<1>7. CASE Enqueue(a)
  BY <1>1, <1>7, OrderKept DEF Enqueue, Forward, Goes
<1> QED BY <1>4, <1>5, <1>6, <1>7 DEF CallStep

LEMMA OrderOfReload ==
  ASSUME OrderInv, IInv', Reload
  PROVE  OrderInv'
<1>1. /\ UNCHANGED <<now, store, applied>> /\ now \in Nat
      /\ \A f \in Flushes : flush'[f].phase = "off" /\ flush'[f].todo = <<>>
      /\ \A a \in Adds : call[a] = "queued" => call'[a] = "queued"
  BY DEF Reload, OrderInv, IInv, Types, CallWaits, NoFlush
<1> QED BY <1>1, OrderKept DEF Forward, Goes

LEMMA NextOrder == OrderInv /\ [Next]_vars => OrderInv'
<1> SUFFICES ASSUME OrderInv, [Next]_vars PROVE OrderInv'
  OBVIOUS
<1> USE DEF shown, server
<1>1. IInv' /\ now \in Nat
  BY NextKeeps DEF OrderInv, IInv, Types
<1>2. CASE \/ Tick \/ Disconnect \/ UNCHANGED vars
           \/ Checkout \/ \E c \in Carts : Resume(c)
  <2>1. now <= now' /\ UNCHANGED <<store, flush, call, applied>>
    BY <1>1, <1>2 DEF Tick, Disconnect, vars, Checkout, Resume
  <2> QED BY <1>1, <2>1, OrderAside
<1> QED BY <1>1, <1>2, OrderOfFlush, OrderOfCall, OrderOfReload DEF Next

(***************************************************************************)
(* Replays that overlap, scans between them and answers in any order never *)
(* put an addition before an older one that is still stored: the server    *)
(* has had the older one.                                                  *)
(***************************************************************************)
THEOREM NoneOvertakes == Spec => []OlderFirst
<1>1. OrderInv => OlderFirst
  <2> SUFFICES ASSUME OrderInv, NEW f \in Flushes, NEW a \in Adds, NEW b \in Adds,
                      flush[f].phase = "ok", Head(flush[f].todo) = b,
                      Stored(a), Stored(b), store[a] < store[b]
               PROVE  applied[a] > 0
    BY DEF OlderFirst
  <2> DEFINE s == flush[f].todo
  <2>1. s # <<>> /\ Orderly(s) /\ store[a] \in Nat /\ store[b] \in Nat
    BY DEF OrderInv, IInv, Types, Lists, ListOf, Stored
  <2> HIDE DEF s
  <2>2. s \in Seq(Adds) /\ 1 \in 1..Len(s) /\ s[1] = b
    BY <2>1 DEF Orderly, s
  <2>3. ASSUME NEW k \in 1..Len(s), a = s[k]
        PROVE  FALSE
    <3>1. k > 1
      BY <2>1, <2>2, <2>3
    <3>2. Before(b, a)
      BY <2>1, <2>2, <2>3, <3>1 DEF Orderly
    <3> QED BY <2>1, <3>2 DEF Before
  <2>4. applied[a] > 0 \/ a \in ToSet(s)
    BY <2>1, <2>2 DEF Orderly
  <2> QED BY <2>2, <2>3, <2>4 DEF ToSet
<1> QED BY <1>1, InitOrder, NextOrder, PTL DEF Spec
-----------------------------------------------------------------------------
(***************************************************************************)
(* Copies.  Ahead(a) is how often a may still be applied without another   *)
(* fault: once by its own call, or by every replay that holds it.          *)
(***************************************************************************)
Trying(a) == call[a] \in {"new", "wait", "refused", "unsent"}

\* A replay with record r has had the answer for a, or may still send a.
HasAnswer(r, a) == r.phase = "ok" /\ Head(r.todo) = a

MaySend(r, a) ==
  \/ r.phase = "list" /\ (Trying(a) \/ call[a] = "ok" \/ Stored(a))
  \/ r.phase \in {"send", "wait", "refused"} /\ a \in ToSet(r.todo)
  \/ r.phase = "ok" /\ a \in ToSet(Tail(r.todo))

Senders(a) == {f \in Flushes : MaySend(flush[f], a)}

Replays(a) == Cardinality(Senders(a))

OneOrMore(n) == IF n = 0 THEN 1 ELSE n

\* A copy is still to come: from the call, or from the outbox.
Due(a) == Trying(a) \/ (Stored(a) /\ \A f \in Flushes : ~HasAnswer(flush[f], a))

Ahead(a) ==
  IF call[a] = "ok" THEN OneOrMore(Replays(a)) - 1
  ELSE IF Due(a) THEN OneOrMore(Replays(a)) ELSE Replays(a)

Counts == late \in [Adds -> Nat] /\ faults \in Nat

Paid(a) == applied[a] + late[a] + Ahead(a) <= 1 + faults

CopyInv == OrderInv /\ Counts /\ \A a \in Adds : Paid(a)

LEMMA ReplaysCount ==
  ASSUME NEW a
  PROVE  /\ Replays(a) \in Nat /\ Replays(a)' \in Nat
         /\ Replays(a) = 0 <=> Senders(a) = {}
         /\ Replays(a)' = 0 <=> Senders(a)' = {}
<1>1. IsFiniteSet(Senders(a)) /\ IsFiniteSet(Senders(a)')
  <2>1. Senders(a) \in SUBSET Flushes /\ Senders(a)' \in SUBSET Flushes
    BY DEF Senders
  <2> QED BY <2>1, SyncAssumption, FS_Subset
<1>2. PICK S, T : S = Senders(a) /\ T = Senders(a)'
  OBVIOUS
<1>3. /\ Cardinality(S) \in Nat /\ Cardinality(T) \in Nat
      /\ Cardinality(S) = 0 <=> S = {}
      /\ Cardinality(T) = 0 <=> T = {}
  BY <1>1, <1>2, FS_CardinalityType, FS_EmptySet
<1> QED BY <1>2, <1>3 DEF Replays

\* Fewer replays, and no copy more to come.
LEMMA AheadShrinks ==
  ASSUME NEW a \in Adds, Senders(a)' \subseteq Senders(a),
         call'[a] = "ok" <=> call[a] = "ok", Due(a)' => Due(a)
  PROVE  Ahead(a) \in Nat /\ Ahead(a)' \in Nat /\ Ahead(a)' <= Ahead(a)
<1>1. Replays(a)' <= Replays(a)
  <2>1. Senders(a) \in SUBSET Flushes /\ Senders(a)' \in SUBSET Flushes
    BY DEF Senders
  <2>2. IsFiniteSet(Senders(a))
    BY <2>1, SyncAssumption, FS_Subset
  <2>3. Cardinality(Senders(a)') <= Cardinality(Senders(a))
    BY <2>2, FS_Subset
  <2> QED BY <2>3 DEF Replays
<1> QED BY <1>1, ReplaysCount DEF Ahead, OneOrMore

LEMMA PaidStays ==
  ASSUME CopyInv, OrderInv', Counts', NEW a \in Adds, Senders(a)' \subseteq Senders(a),
         call'[a] = "ok" <=> call[a] = "ok", Due(a)' => Due(a),
         applied'[a] + late'[a] <= applied[a] + late[a], faults <= faults'
  PROVE  Paid(a)'
<1>1. Ahead(a) \in Nat /\ Ahead(a)' \in Nat /\ Ahead(a)' <= Ahead(a)
  BY AheadShrinks
<1>2. applied[a] \in Nat /\ applied'[a] \in Nat /\ late[a] \in Nat /\ late'[a] \in Nat
      /\ faults \in Nat /\ faults' \in Nat
  BY DEF CopyInv, OrderInv, IInv, Types, Counts
<1>3. applied[a] + late[a] + Ahead(a) <= 1 + faults
  BY DEF CopyInv, Paid
<1>4. PICK m, n \in Nat : m = Ahead(a) /\ n = Ahead(a)'
  BY <1>1
<1>5. applied'[a] + late'[a] + n <= 1 + faults'
  BY <1>1, <1>2, <1>3, <1>4
<1> QED BY <1>4, <1>5 DEF Paid

\* The steps of others: the calls, the outbox and the replays stay for a.
LEMMA PaidAside ==
  ASSUME CopyInv, OrderInv', Counts', NEW a \in Adds, UNCHANGED flush, faults <= faults',
         applied'[a] = applied[a], late'[a] = late[a],
         call'[a] = call[a], Stored(a)' = Stored(a)
  PROVE  Paid(a)'
<1>1. Senders(a)' = Senders(a) /\ (Due(a)' <=> Due(a))
  BY DEF Senders, MaySend, Due, HasAnswer, Trying
<1>2. applied'[a] + late'[a] <= applied[a] + late[a]
  BY DEF CopyInv, OrderInv, IInv, Types, Counts
<1> QED BY <1>1, <1>2, PaidStays

LEMMA CopiesInReach ==
  ASSUME CopyInv, OrderInv', Counts', NEW a \in Adds
  PROVE  /\ applied[a] \in Nat /\ applied'[a] \in Nat /\ late[a] \in Nat /\ late'[a] \in Nat
         /\ faults \in Nat /\ faults' \in Nat
         /\ Ahead(a) \in Nat /\ applied[a] + late[a] + Ahead(a) <= 1 + faults
<1>1. Ahead(a) \in Nat
  BY ReplaysCount DEF Ahead, OneOrMore
<1> QED BY <1>1 DEF CopyInv, OrderInv, IInv, Types, Counts, Paid

\* One replay goes on, or stops, and a gains no copy by it.
LEMMA PaidOfReplay ==
  ASSUME CopyInv, OrderInv', Counts', NEW f \in Flushes, NEW r, NEW a \in Adds,
         \A g \in Flushes : flush'[g] = IF g = f THEN r ELSE flush[g],
         call'[a] = call[a], Stored(a)' => Stored(a),
         MaySend(r, a)' => MaySend(flush[f], a),
         Stored(a)' /\ HasAnswer(flush[f], a) => HasAnswer(r, a),
         applied'[a] + late'[a] <= applied[a] + late[a], faults <= faults'
  PROVE  Paid(a)'
<1>1. ASSUME NEW g \in Flushes, MaySend(flush[g], a)'
      PROVE  MaySend(flush[g], a)
  <2>1. CASE g = f
    BY <1>1, <2>1 DEF MaySend, Trying, Stored
  <2>2. CASE g # f
    BY <1>1, <2>2 DEF MaySend, Trying, Stored
  <2> QED BY <2>1, <2>2
<1>2. Senders(a)' \subseteq Senders(a)
  BY <1>1 DEF Senders
<1>3. Due(a)' => Due(a)
  <2>1. SUFFICES ASSUME Stored(a)', \A g \in Flushes : ~HasAnswer(flush[g], a)'
                 PROVE  \A g \in Flushes : ~HasAnswer(flush[g], a)
    BY DEF Due, Trying
  <2>2. ASSUME NEW g \in Flushes, HasAnswer(flush[g], a)
        PROVE  HasAnswer(flush[g], a)'
    BY <2>1, <2>2 DEF HasAnswer
  <2> QED BY <2>1, <2>2
<1> QED BY <1>2, <1>3, PaidStays

LEMMA ListedOnce ==
  ASSUME NEW s, Orderly(s)
  PROVE  /\ \A b \in ToSet(s) : b \in Adds /\ call[b] = "queued"
         /\ s # <<>> => /\ Head(s) \in ToSet(s) /\ Head(s) \notin ToSet(Tail(s))
                        /\ ToSet(s) = ToSet(Tail(s)) \cup {Head(s)}
<1>1. s \in Seq(Adds) /\ \A b \in ToSet(s) : b \in Adds /\ call[b] = "queued"
  BY DEF Orderly, ToSet
<1>2. ASSUME s # <<>>
      PROVE  /\ Head(s) \in ToSet(s) /\ Head(s) \notin ToSet(Tail(s))
             /\ ToSet(s) = ToSet(Tail(s)) \cup {Head(s)}
  <2>1. /\ Head(s) = s[1] /\ Tail(s) \in Seq(Adds)
        /\ DOMAIN s = 1..Len(s) /\ DOMAIN Tail(s) = 1..(Len(s) - 1)
        /\ Len(s) \in Nat /\ Len(s) > 0
        /\ \A i \in 1..(Len(s) - 1) : Tail(s)[i] = s[i + 1]
    BY <1>1, <1>2
  <2>2. \A i \in 1..(Len(s) - 1) : i + 1 \in 1..Len(s) /\ s[1] # s[i + 1]
    <3>1. \A i \in 1..(Len(s) - 1) : 1 \in 1..Len(s) /\ i + 1 \in 1..Len(s) /\ 1 < i + 1
      BY <2>1
    <3> QED BY <3>1 DEF Orderly
  <2>3. Head(s) \in ToSet(s)
    BY <2>1 DEF ToSet
  <2>4. Head(s) \notin ToSet(Tail(s))
    BY <2>1, <2>2 DEF ToSet
  <2>5. ToSet(Tail(s)) \subseteq ToSet(s)
    BY <2>1, <2>2 DEF ToSet
  <2>6. ASSUME NEW k \in 1..Len(s), k # 1
        PROVE  s[k] \in ToSet(Tail(s))
    <3>1. k - 1 \in 1..(Len(s) - 1) /\ Tail(s)[k - 1] = s[k]
      BY <2>1, <2>6
    <3> QED BY <2>1, <3>1 DEF ToSet
  <2>7. ToSet(s) \subseteq ToSet(Tail(s)) \cup {Head(s)}
    BY <2>1, <2>6 DEF ToSet
  <2> QED BY <2>3, <2>4, <2>5, <2>7
<1> QED BY <1>1, <1>2

\* The steps of a replay that bring nothing to the server.
LEMMA CopiesOfReplay ==
  ASSUME CopyInv, OrderInv', NEW f \in Flushes,
         List(f) \/ Send(f) \/ SendStops(f) \/ Acknowledge(f) \/ Refused(f)
  PROVE  CopyInv'
<1> USE DEF shown, server
<1>1. /\ UNCHANGED <<call, late, applied, faults>> /\ Counts
      /\ DOMAIN flush = Flushes /\ DOMAIN store = Adds /\ FlushRecord(f) /\ ListOf(f)
  BY DEF List, Send, SendStops, Acknowledge, Refused, CopyInv, OrderInv, IInv, Types, Lists
<1>2. Counts'
  BY <1>1 DEF Counts
<1> SUFFICES ASSUME NEW a \in Adds PROVE Paid(a)'
  BY <1>2 DEF CopyInv
<1>3. applied'[a] + late'[a] <= applied[a] + late[a] /\ faults <= faults'
  BY <1>1, <1>2, CopiesInReach
<1>4. ASSUME NEW r, flush' = [flush EXCEPT ![f] = r], Stored(a)' => Stored(a),
             MaySend(r, a)' => MaySend(flush[f], a),
             Stored(a)' /\ HasAnswer(flush[f], a) => HasAnswer(r, a)
      PROVE  Paid(a)'
  <2>1. \A g \in Flushes : flush'[g] = IF g = f THEN r ELSE flush[g]
    BY <1>1, <1>4
  <2> QED BY <1>1, <1>2, <1>3, <1>4, <2>1, PaidOfReplay
<1>5. CASE List(f)
  <2>1. PICK q : q = Pending /\ ToSet(q) = Waiting
    BY PendingLists DEF CopyInv, OrderInv, IInv
  <2>2. /\ flush' = [flush EXCEPT ![f] = [phase |-> "send", todo |-> q]]
        /\ flush[f].phase = "list" /\ UNCHANGED store
    BY <1>5, <2>1 DEF List
  <2>3. MaySend([phase |-> "send", todo |-> q], a)' => MaySend(flush[f], a)
    BY <2>1, <2>2 DEF MaySend, Waiting
  <2> QED BY <1>4, <2>2, <2>3 DEF HasAnswer, Stored
<1>6. CASE Send(f)
  <2>1. PICK s : s = flush[f].todo
    OBVIOUS
  <2>2. /\ flush' = [flush EXCEPT ![f] = [phase |-> "wait", todo |-> s]]
        /\ flush[f].phase = "send" /\ UNCHANGED store
    BY <1>1, <1>6, <2>1, PhaseOnly DEF Send
  <2>3. MaySend([phase |-> "wait", todo |-> s], a)' => MaySend(flush[f], a)
    BY <2>1, <2>2 DEF MaySend
  <2> QED BY <1>4, <2>2, <2>3 DEF HasAnswer, Stored
<1>7. CASE SendStops(f) \/ Refused(f)
  <2>1. /\ flush' = [flush EXCEPT ![f] = NoFlush]
        /\ flush[f].phase \in {"send", "refused"} /\ UNCHANGED store
    BY <1>7 DEF SendStops, Refused, Stop
  <2>2. ~MaySend(NoFlush, a)'
    BY DEF MaySend, NoFlush
  <2> QED BY <1>4, <2>1, <2>2 DEF HasAnswer, Stored
<1>8. CASE Acknowledge(f)
  <2>1. PICK s : s = flush[f].todo
    OBVIOUS
  <2>2. /\ flush' = [flush EXCEPT ![f] = [phase |-> "send", todo |-> Tail(s)]]
        /\ flush[f].phase = "ok" /\ store' = [store EXCEPT ![Head(s)] = Absent]
    BY <1>8, <2>1 DEF Acknowledge
  <2>3. MaySend([phase |-> "send", todo |-> Tail(s)], a)' => MaySend(flush[f], a)
    BY <2>1, <2>2 DEF MaySend
  <2>4. (Stored(a)' => Stored(a)) /\ (Stored(a)' => ~HasAnswer(flush[f], a))
    BY <1>1, <2>1, <2>2 DEF HasAnswer, Stored
  <2> QED BY <1>4, <2>2, <2>3, <2>4
<1> QED BY <1>5, <1>6, <1>7, <1>8

\* One replay more, or one less, that may send a.
LEMMA OneReplayMore ==
  ASSUME NEW a, NEW f \in Flushes
  PROVE  /\ Senders(a)' \subseteq Senders(a) \cup {f} => Replays(a)' <= Replays(a) + 1
         /\ Senders(a)' \subseteq Senders(a) => Replays(a)' <= Replays(a)
         /\ Senders(a)' \subseteq Senders(a) \ {f} /\ f \in Senders(a)
              => Replays(a)' <= Replays(a) - 1
<1>1. PICK S, T \in SUBSET Flushes : S = Senders(a) /\ T = Senders(a)'
  BY DEF Senders
<1>2. IsFiniteSet(S) /\ Cardinality(S) \in Nat /\ Cardinality(T) \in Nat
  BY SyncAssumption, FS_Subset, FS_CardinalityType
<1>3. T \subseteq S => Cardinality(T) <= Cardinality(S)
  BY <1>2, FS_Subset
<1>4. T \subseteq S \cup {f} => Cardinality(T) <= Cardinality(S) + 1
  <2>1. IsFiniteSet(S \cup {f}) /\ Cardinality(S \cup {f}) \in Nat
        /\ Cardinality(S \cup {f}) <= Cardinality(S) + 1
    <3>1. /\ IsFiniteSet(S \cup {f})
          /\ Cardinality(S \cup {f}) = IF f \in S THEN Cardinality(S) ELSE Cardinality(S) + 1
      BY <1>2, FS_AddElement
    <3> QED BY <1>2, <3>1
  <2>2. T \subseteq S \cup {f} => Cardinality(T) <= Cardinality(S \cup {f})
    BY <2>1, FS_Subset
  <2> QED BY <1>2, <2>1, <2>2
<1>5. T \subseteq S \ {f} /\ f \in S => Cardinality(T) <= Cardinality(S) - 1
  <2>1. f \in S => IsFiniteSet(S \ {f}) /\ Cardinality(S \ {f}) = Cardinality(S) - 1
    BY <1>2, Smaller
  <2>2. f \in S /\ T \subseteq S \ {f} => Cardinality(T) <= Cardinality(S \ {f})
    BY <2>1, FS_Subset
  <2> QED BY <2>1, <2>2
<1> QED BY <1>1, <1>3, <1>4, <1>5 DEF Replays

\* A replay that starts is paid for by a fault, unless it is the only one.
LEMMA CopiesOfReconnect ==
  ASSUME CopyInv, OrderInv', NEW f \in Flushes, Reconnect(f)
  PROVE  CopyInv'
<1> USE DEF shown, server
<1>1. /\ UNCHANGED <<call, store, late, applied>> /\ Counts
      /\ DOMAIN flush = Flushes /\ FlushRecord(f) /\ ListOf(f) /\ flush[f].phase = "off"
      /\ faults' \in {faults, faults + 1}
  BY DEF Reconnect, Running, Fault, CopyInv, OrderInv, IInv, Types, Lists
<1>2. Counts'
  BY <1>1 DEF Counts
<1> SUFFICES ASSUME NEW a \in Adds PROVE Paid(a)'
  BY <1>2 DEF CopyInv
<1>3. PICK r : r = [phase |-> "list", todo |-> <<>>]
  OBVIOUS
<1>4. \A g \in Flushes : flush'[g] = IF g = f THEN r ELSE flush[g]
  <2>1. flush' = [flush EXCEPT ![f] = r]
    BY <1>1, <1>3, PhaseOnly DEF Reconnect, ListOf
  <2> QED BY <1>1, <2>1
<1>5. \A g \in Flushes : g # f => (MaySend(flush[g], a)' <=> MaySend(flush[g], a))
  BY <1>1, <1>4 DEF MaySend, Trying, Stored
<1>6. Senders(a)' \subseteq Senders(a) \cup {f}
  BY <1>5 DEF Senders
<1>7. Due(a)' <=> Due(a)
  <2>1. \A g \in Flushes : HasAnswer(flush[g], a)' <=> HasAnswer(flush[g], a)
    BY <1>1, <1>3, <1>4 DEF HasAnswer
  <2> QED BY <1>1, <2>1 DEF Due, Trying, Stored
<1>8. Replays(a) \in Nat /\ Replays(a)' \in Nat /\ Replays(a)' <= Replays(a) + 1
  BY <1>6, ReplaysCount, OneReplayMore
<1>9. CASE Running = {}
  <2>1. \A g \in Flushes : flush[g].phase = "off"
    BY <1>9 DEF Running
  <2>2. Replays(a) = 0
    <3>1. Senders(a) = {}
      BY <2>1 DEF Senders, MaySend
    <3> QED BY <3>1, ReplaysCount
  <2>3. ~Due(a) /\ call[a] # "ok" => Replays(a)' = 0
    <3>1. ASSUME ~Due(a), call[a] # "ok"
          PROVE  ~MaySend(r, a)'
      BY <1>1, <1>3, <2>1, <3>1 DEF Due, HasAnswer, MaySend, Trying, Stored
    <3>2. ASSUME ~Due(a), call[a] # "ok"
          PROVE  Senders(a)' = {}
      <4>1. \A g \in Flushes : ~MaySend(flush[g], a)'
        BY <1>4, <1>5, <2>1, <3>1, <3>2 DEF MaySend
      <4> QED BY <4>1 DEF Senders
    <3> QED BY <3>2, ReplaysCount
  <2>4. Ahead(a)' = Ahead(a)
    BY <1>1, <1>7, <1>8, <2>2, <2>3 DEF Ahead, OneOrMore
  <2> QED BY <1>1, <1>2, <2>4, CopiesInReach DEF Paid
<1>10. CASE Running # {}
  <2>1. faults' = faults + 1
    BY <1>10 DEF Reconnect, Fault
  <2>2. Ahead(a)' <= Ahead(a) + 1 /\ Ahead(a)' \in Nat
    BY <1>1, <1>7, <1>8 DEF Ahead, OneOrMore
  <2>3. PICK n \in Nat : n = Ahead(a)' /\ n <= Ahead(a) + 1
    BY <2>2
  <2>4. applied[a] + late[a] + n <= 1 + faults'
    BY <1>2, <2>1, <2>3, CopiesInReach
  <2> QED BY <1>1, <2>3, <2>4 DEF Paid
<1> QED BY <1>9, <1>10

\* The server answers a replay: the copy it applies was ahead before.
LEMMA CopiesOfServeFlush ==
  ASSUME CopyInv, OrderInv', NEW f \in Flushes, ServeFlush(f)
  PROVE  CopyInv'
<1> USE DEF shown, server
<1>1. /\ UNCHANGED <<call, store, late, faults>> /\ Counts /\ DOMAIN flush = Flushes
      /\ FlushRecord(f) /\ ListOf(f) /\ applied \in [Adds -> Nat] /\ flush[f].phase = "wait"
  BY DEF ServeFlush, CopyInv, OrderInv, IInv, Types, Lists
<1>2. Counts'
  BY <1>1 DEF Counts
<1> SUFFICES ASSUME NEW a \in Adds PROVE Paid(a)'
  BY <1>2 DEF CopyInv
<1>3. PICK s : s = flush[f].todo /\ s # <<>> /\ Orderly(s)
  BY <1>1 DEF ListOf
<1>4. /\ \A b \in ToSet(s) : b \in Adds /\ call[b] = "queued"
      /\ Head(s) \in ToSet(s) /\ Head(s) \notin ToSet(Tail(s))
      /\ ToSet(s) = ToSet(Tail(s)) \cup {Head(s)}
  BY <1>3, ListedOnce
<1>5. PICK h : h = Head(s)
  OBVIOUS
<1>6. PICK r : r = [phase |-> Answer(h), todo |-> s]
  OBVIOUS
<1>7. \A g \in Flushes : flush'[g] = IF g = f THEN r ELSE flush[g]
  <2>1. flush' = [flush EXCEPT ![f] = r]
    BY <1>1, <1>3, <1>5, <1>6, PhaseOnly DEF ServeFlush
  <2> QED BY <1>1, <2>1
<1>8. /\ Apply(h)
      /\ MaySend(flush[f], a) <=> a \in ToSet(s)
      /\ MaySend(r, a)' => a \in ToSet(s)
      /\ ~HasAnswer(flush[f], a)
  <2>1. Apply(h)
    BY <1>3, <1>5 DEF ServeFlush
  <2>2. MaySend(flush[f], a) <=> a \in ToSet(s)
    BY <1>1, <1>3 DEF MaySend
  <2>3. r.todo = s /\ r.phase \in {"ok", "refused"}
    BY <1>6 DEF Answer
  <2>4. MaySend(r, a)' => a \in ToSet(s)
    BY <1>4, <2>3 DEF MaySend
  <2> QED BY <1>1, <2>1, <2>2, <2>4 DEF HasAnswer
<1>9. CASE ~(a = h /\ Accepts(h))
  <2>1. applied'[a] = applied[a]
    BY <1>1, <1>4, <1>5, <1>8, <1>9 DEF Apply
  <2>2. applied'[a] + late'[a] <= applied[a] + late[a] /\ faults <= faults'
    BY <1>1, <1>2, <2>1, CopiesInReach
  <2> QED BY <1>1, <1>2, <1>7, <1>8, <2>2, PaidOfReplay DEF Stored
<1>10. CASE a = h /\ Accepts(h)
  <2>1. applied'[a] = applied[a] + 1 /\ r.phase = "ok" /\ r.todo = s /\ call[a] = "queued"
    BY <1>1, <1>4, <1>5, <1>6, <1>8, <1>10 DEF Apply, Answer
  <2>2. HasAnswer(r, a) /\ ~MaySend(r, a)'
    BY <1>4, <1>5, <1>10, <2>1 DEF HasAnswer, MaySend
  <2>3. ~Due(a)'
    <3>1. HasAnswer(flush[f], a)'
      BY <1>7, <2>2 DEF HasAnswer
    <3> QED BY <1>1, <2>1, <3>1 DEF Due, Trying
  <2>4. Senders(a)' \subseteq Senders(a) \ {f} /\ f \in Senders(a)
    <3>1. \A g \in Flushes : g # f => (MaySend(flush[g], a)' <=> MaySend(flush[g], a))
      BY <1>1, <1>7 DEF MaySend, Trying, Stored
    <3>2. ~MaySend(flush[f], a)' /\ MaySend(flush[f], a)
      BY <1>4, <1>5, <1>7, <1>8, <1>10, <2>2 DEF MaySend
    <3> QED BY <3>1, <3>2 DEF Senders
  <2>5. Replays(a)' <= Replays(a) - 1 /\ Replays(a) \in Nat /\ Replays(a)' \in Nat
    BY <2>4, OneReplayMore, ReplaysCount
  <2>6. Ahead(a)' \in Nat /\ Ahead(a)' <= Ahead(a) - 1
    BY <1>1, <2>1, <2>3, <2>5 DEF Ahead, OneOrMore
  <2>7. PICK n \in Nat : n = Ahead(a)' /\ n <= Ahead(a) - 1
    BY <2>6
  <2>8. applied'[a] + late'[a] + n <= 1 + faults'
    BY <1>1, <1>2, <2>1, <2>7, CopiesInReach
  <2> QED BY <2>7, <2>8 DEF Paid
<1> QED BY <1>9, <1>10

\* A replay fails: its request may still arrive, and the outbox sends it again.
LEMMA CopiesOfFlushFails ==
  ASSUME CopyInv, OrderInv', NEW f \in Flushes, FlushFails(f)
  PROVE  CopyInv'
<1> USE DEF shown, server
<1>1. /\ UNCHANGED <<call, store, applied>> /\ Counts /\ DOMAIN flush = Flushes
      /\ ListOf(f) /\ flush[f].phase \in {"wait", "ok", "refused"} /\ faults' = faults + 1
  BY DEF FlushFails, Fault, CopyInv, OrderInv, Lists, IInv, Types
<1>2. PICK s : s = flush[f].todo /\ s # <<>> /\ Orderly(s)
  BY <1>1 DEF ListOf
<1>3. PICK h \in Adds : h = Head(s) /\ call[h] = "queued"
  BY <1>2, ListedOnce
<1>4. \A b \in Adds : late'[b] = IF b = h /\ flush[f].phase = "wait" THEN late[b] + 1 ELSE late[b]
  BY <1>1, <1>2, <1>3 DEF FlushFails, Counts
<1>5. Counts'
  <2>1. late' = [late EXCEPT ![h] = IF flush[f].phase = "wait" THEN late[h] + 1 ELSE late[h]]
    BY <1>1, <1>2, <1>3 DEF FlushFails, Counts
  <2> QED BY <1>1, <1>3, <2>1 DEF Counts
<1> SUFFICES ASSUME NEW a \in Adds PROVE Paid(a)'
  BY <1>5 DEF CopyInv
<1>6. PICK r : r = NoFlush
  OBVIOUS
<1>7. \A g \in Flushes : flush'[g] = IF g = f THEN r ELSE flush[g]
  BY <1>1, <1>6 DEF FlushFails, Stop
<1>8. ~MaySend(r, a)' /\ ~HasAnswer(r, a)
  BY <1>6 DEF NoFlush, MaySend, HasAnswer
<1>9. CASE a # h \/ flush[f].phase = "refused"
  <2>1. ~HasAnswer(flush[f], a)
    BY <1>2, <1>3, <1>9 DEF HasAnswer
  <2>2. applied'[a] + late'[a] <= applied[a] + late[a] /\ faults <= faults'
    BY <1>1, <1>4, <1>5, <1>9, CopiesInReach
  <2> QED BY <1>1, <1>5, <1>7, <1>8, <2>1, <2>2, PaidOfReplay DEF Stored
<1>10. CASE a = h /\ flush[f].phase # "refused"
  <2>1. Senders(a)' \subseteq Senders(a)
    <3>1. \A g \in Flushes : g # f => (MaySend(flush[g], a)' <=> MaySend(flush[g], a))
      BY <1>1, <1>7 DEF MaySend, Trying, Stored
    <3>2. ~MaySend(flush[f], a)'
      BY <1>7, <1>8 DEF MaySend
    <3> QED BY <3>1, <3>2 DEF Senders
  <2>2. Replays(a)' <= Replays(a) /\ Replays(a) \in Nat /\ Replays(a)' \in Nat
    BY <2>1, OneReplayMore, ReplaysCount
  <2>3. CASE flush[f].phase = "wait"
    <3>1. Due(a)' <=> Due(a)
      <4>1. \A g \in Flushes : HasAnswer(flush[g], a)' <=> HasAnswer(flush[g], a)
        BY <1>7, <1>8, <2>3 DEF HasAnswer
      <4> QED BY <1>1, <4>1 DEF Due, Trying, Stored
    <3>2. PICK n \in Nat : n = Ahead(a)' /\ n <= Ahead(a)
      BY <1>1, <2>1, <3>1, AheadShrinks
    <3>3. applied'[a] + late'[a] + n <= 1 + faults'
      BY <1>1, <1>4, <1>5, <1>10, <2>3, <3>2, CopiesInReach
    <3> QED BY <3>2, <3>3 DEF Paid
  <2>4. CASE flush[f].phase = "ok"
    <3>1. call[a] # "ok" /\ call'[a] # "ok"
      BY <1>1, <1>3, <1>10
    <3>2. Ahead(a)' \in Nat /\ Ahead(a)' <= Ahead(a) + 1
      BY <2>2, <3>1 DEF Ahead, OneOrMore
    <3>3. PICK n \in Nat : n = Ahead(a)' /\ n <= Ahead(a) + 1
      BY <3>2
    <3>4. applied'[a] + late'[a] + n <= 1 + faults'
      BY <1>1, <1>4, <1>5, <2>4, <3>3, CopiesInReach
    <3> QED BY <3>3, <3>4 DEF Paid
  <2> QED BY <1>1, <1>10, <2>3, <2>4
<1> QED BY <1>9, <1>10

\* What the cashier and the server do with a call, for the addition it is about.
LEMMA CopiesOfOwnCall ==
  ASSUME CopyInv, OrderInv', Counts', NEW a \in Adds,
         Scan(a) \/ CallStep(a) \/ CallFails(a) \/ ServeLate(a)
  PROVE  Paid(a)'
<1> USE DEF shown, server
<1>1. /\ UNCHANGED flush /\ DOMAIN call = Adds /\ DOMAIN store = Adds
      /\ applied \in [Adds -> Nat] /\ late \in [Adds -> Nat] /\ faults \in Nat
      /\ store[a] = Absent \/ call[a] = "queued"
  <2>1. UNCHANGED flush
    BY DEF Scan, CallStep, ServeCall, CallAnswered, Enqueue, CallFails, ServeLate
  <2> QED BY <2>1 DEF CopyInv, OrderInv, IInv, Types, Counts, Lists, Stored
<1>2. Replays(a) \in Nat /\ Replays(a)' \in Nat
  BY ReplaysCount
<1>3. ASSUME Trying(a) \/ call[a] = "ok", Trying(a)' \/ call'[a] = "ok", UNCHANGED store
      PROVE  Replays(a)' = Replays(a)
  <2>1. \A g \in Flushes : MaySend(flush[g], a)' <=> MaySend(flush[g], a)
    BY <1>1, <1>3 DEF MaySend
  <2> QED BY <2>1 DEF Replays, Senders
<1>4. CASE \/ Scan(a) \/ ServeLate(a)
           \/ CallAnswered(a) /\ call[a] = "refused"
           \/ ServeCall(a) /\ ~Accepts(a)
  <2>1. \/ UNCHANGED <<call, store>>
        \/ Trying(a) /\ Trying(a)' /\ UNCHANGED store
    BY <1>1, <1>4 DEF Scan, ServeLate, CallAnswered, ServeCall, Answer, Trying
  <2>2. Senders(a)' = Senders(a) /\ (call'[a] = "ok" <=> call[a] = "ok") /\ (Due(a)' => Due(a))
    <3>1. \A g \in Flushes : MaySend(flush[g], a)' <=> MaySend(flush[g], a)
      BY <1>1, <2>1 DEF MaySend, Trying, Stored
    <3>2. (call'[a] = "ok" <=> call[a] = "ok") /\ (Due(a)' => Due(a))
      BY <1>1, <2>1 DEF Due, Trying, HasAnswer, Stored
    <3> QED BY <3>1, <3>2 DEF Senders
  <2>3. applied'[a] + late'[a] <= applied[a] + late[a] /\ faults <= faults'
    BY <1>1, <1>4 DEF Scan, ServeLate, CallAnswered, ServeCall, Apply
  <2> QED BY <2>2, <2>3, PaidStays
<1>5. CASE ServeCall(a) /\ Accepts(a)
  <2>1. /\ applied'[a] = applied[a] + 1 /\ call[a] = "wait" /\ call'[a] = "ok"
        /\ UNCHANGED <<late, store, faults>>
    BY <1>1, <1>5 DEF ServeCall, Apply, Answer
  <2>2. Replays(a)' = Replays(a)
    BY <1>3, <2>1 DEF Trying
  <2>3. Ahead(a)' \in Nat /\ Ahead(a)' = Ahead(a) - 1
    BY <1>2, <2>1, <2>2 DEF Ahead, OneOrMore, Due, Trying
  <2>4. PICK n \in Nat : n = Ahead(a)' /\ n = Ahead(a) - 1
    BY <2>3
  <2>5. applied'[a] + late'[a] + n <= 1 + faults'
    BY <2>1, <2>4, CopiesInReach
  <2> QED BY <2>4, <2>5 DEF Paid
<1>6. CASE CallAnswered(a) /\ call[a] = "ok"
  <2>1. call'[a] = "done" /\ ~Stored(a)' /\ UNCHANGED <<late, store, faults, applied>>
    BY <1>1, <1>6 DEF CallAnswered, Stored
  <2>2. \A g \in Flushes : ~MaySend(flush[g], a)'
    <3> SUFFICES ASSUME NEW g \in Flushes PROVE ~MaySend(flush[g], a)'
      OBVIOUS
    <3>1. PICK s : s = flush[g].todo /\ Orderly(s)
      BY DEF CopyInv, OrderInv, Lists, ListOf
    <3>2. a \notin ToSet(s) /\ (s # <<>> => a \notin ToSet(Tail(s)))
      BY <1>6, <3>1, ListedOnce
    <3>3. flush[g].phase = "ok" => s # <<>>
      BY <3>1 DEF CopyInv, OrderInv, Lists, ListOf
    <3> QED BY <1>1, <2>1, <3>1, <3>2, <3>3 DEF MaySend, Trying
  <2>3. Replays(a)' = 0
    <3>1. Senders(a)' = {}
      BY <2>2 DEF Senders
    <3> QED BY <3>1, ReplaysCount
  <2>4. Ahead(a)' = 0
    BY <2>1, <2>3 DEF Ahead, Due, Trying
  <2> QED BY <2>1, <2>4, CopiesInReach DEF Paid
<1>7. CASE CallFails(a)
  <2>1. /\ faults' = faults + 1 /\ call'[a] = "unsent" /\ UNCHANGED <<store, applied>>
        /\ call[a] \in {"wait", "ok", "refused"}
        /\ late'[a] = IF call[a] = "wait" THEN late[a] + 1 ELSE late[a]
    BY <1>1, <1>7 DEF CallFails, CallWaits, Fault
  <2>2. Replays(a)' = Replays(a)
    BY <1>3, <2>1 DEF Trying
  <2>3. Ahead(a)' \in Nat /\ Ahead(a)' = IF call[a] = "ok" THEN Ahead(a) + 1 ELSE Ahead(a)
    BY <1>2, <2>1, <2>2 DEF Ahead, OneOrMore, Due, Trying
  <2>4. PICK n \in Nat : n = Ahead(a)' /\ n = IF call[a] = "ok" THEN Ahead(a) + 1 ELSE Ahead(a)
    BY <2>3
  <2>5. applied'[a] + late'[a] + n <= 1 + faults'
    BY <2>1, <2>4, CopiesInReach
  <2> QED BY <2>4, <2>5 DEF Paid
<1>8. CASE Enqueue(a)
  <2>1. /\ call[a] = "unsent" /\ call'[a] = "queued" /\ UNCHANGED <<late, applied, faults>>
        /\ \A b \in Adds : b # a => store'[b] = store[b]
    BY <1>1, <1>8 DEF Enqueue
  <2>2. Senders(a)' \subseteq Senders(a)
    <3>1. \A g \in Flushes : MaySend(flush[g], a)' => MaySend(flush[g], a)
      BY <1>1, <2>1 DEF MaySend, Trying
    <3> QED BY <3>1 DEF Senders
  <2>3. Due(a) /\ applied'[a] + late'[a] <= applied[a] + late[a] /\ faults <= faults'
    BY <2>1, CopiesInReach DEF Due, Trying
  <2> QED BY <2>1, <2>2, <2>3, PaidStays
<1>9. call[a] \in {"ok", "refused"} \/ ~CallAnswered(a)
  BY DEF CallAnswered
<1> QED BY <1>4, <1>5, <1>6, <1>7, <1>8, <1>9 DEF CallStep

LEMMA CopiesOfCall ==
  ASSUME CopyInv, OrderInv', NEW a \in Adds,
         Scan(a) \/ CallStep(a) \/ CallFails(a) \/ ServeLate(a)
  PROVE  CopyInv'
<1> USE DEF shown, server
<1>1. /\ UNCHANGED flush /\ DOMAIN call = Adds /\ DOMAIN store = Adds /\ DOMAIN applied = Adds
      /\ Counts /\ faults' \in {faults, faults + 1}
      /\ late' = late \/ late' = [late EXCEPT ![a] = late[a] + 1]
                      \/ (late[a] > 0 /\ late' = [late EXCEPT ![a] = late[a] - 1])
  BY DEF Scan, CallStep, ServeCall, CallAnswered, Enqueue, CallFails, ServeLate, Fault,
         CopyInv, OrderInv, IInv, Types, Counts
<1>2. Counts'
  BY <1>1 DEF Counts
<1>3. ASSUME NEW b \in Adds, b # a
      PROVE  Paid(b)'
  <2>1. late'[b] = late[b]
    BY <1>1, <1>3 DEF Counts
  <2>2. applied'[b] = applied[b]
    BY <1>1, <1>3 DEF Scan, CallStep, ServeCall, CallAnswered, Enqueue, CallFails, ServeLate, Apply
  <2>3. call'[b] = call[b] /\ store'[b] = store[b]
    BY <1>1, <1>3 DEF Scan, CallStep, ServeCall, CallAnswered, Enqueue, CallFails, ServeLate
  <2>4. faults <= faults'
    BY <1>1 DEF Counts
  <2> QED BY <1>1, <1>2, <2>1, <2>2, <2>3, <2>4, PaidAside DEF Stored
<1> QED BY <1>2, <1>3, CopiesOfOwnCall DEF CopyInv

\* A reload leaves its requests under way, and starts nothing.
LEMMA CopiesOfReload ==
  ASSUME CopyInv, OrderInv', Reload
  PROVE  CopyInv'
<1> USE DEF shown, server
<1>1. /\ UNCHANGED <<applied, store>> /\ faults' = faults + 1 /\ Counts
      /\ flush' = [f \in Flushes |-> NoFlush]
      /\ late' = [a \in Adds |-> late[a] + Cut(a)]
      /\ call' = [a \in Adds |-> IF CallWaits(a) \/ call[a] = "unsent" THEN "gone" ELSE call[a]]
  BY DEF Reload, Fault, CopyInv
<1>2. ASSUME NEW a \in Adds
      PROVE  Cut(a) \in Nat /\ Cut(a) + Ahead(a)' <= Ahead(a) + 1
  <2> DEFINE T == {f \in Flushes : flush[f].phase = "wait" /\ Head(flush[f].todo) = a}
  <2>1. /\ store[a] = Absent \/ call[a] = "queued"
        /\ call[a] \in {"new", "wait", "ok", "refused", "unsent", "queued", "done", "gone"}
    BY DEF CopyInv, OrderInv, Lists, IInv, Types, Stored
  <2>2. ASSUME NEW f \in T
        PROVE  f \in Senders(a) /\ call[a] = "queued"
    <3>1. ListOf(f) /\ flush[f].phase = "wait" /\ Head(flush[f].todo) = a
      BY DEF CopyInv, OrderInv, Lists
    <3>2. PICK s : s = flush[f].todo /\ s # <<>> /\ Orderly(s)
      BY <3>1 DEF ListOf
    <3>3. a \in ToSet(s) /\ call[a] = "queued"
      BY <3>1, <3>2, ListedOnce
    <3> QED BY <3>1, <3>2, <3>3 DEF Senders, MaySend
  <2>3. Cardinality(T) \in Nat /\ Cardinality(T) <= Replays(a) /\ (call[a] # "queued" => T = {})
    <3>1. Senders(a) \in SUBSET Flushes /\ T \in SUBSET Senders(a)
      BY <2>2 DEF Senders
    <3>2. IsFiniteSet(Senders(a)) /\ IsFiniteSet(T)
      BY <3>1, SyncAssumption, FS_Subset
    <3>3. Cardinality(T) <= Cardinality(Senders(a)) /\ Cardinality(T) \in Nat
      BY <3>1, <3>2, FS_Subset, FS_CardinalityType
    <3> QED BY <2>2, <3>3 DEF Replays
  <2>4. Cut(a) = Cardinality(T) + (IF call[a] = "wait" THEN 1 ELSE 0)
    BY DEF Cut
  <2> HIDE DEF T
  <2>5. T = {} => Cardinality(T) = 0
    BY FS_EmptySet
  <2>6. Replays(a)' = 0
    <3>1. \A f \in Flushes : ~MaySend(flush[f], a)'
      BY <1>1 DEF MaySend, NoFlush
    <3>2. Senders(a)' = {}
      BY <3>1 DEF Senders
    <3> QED BY <3>2, ReplaysCount
  <2>7. Replays(a) \in Nat
    BY ReplaysCount
  <2>8. Cut(a) \in Nat
    BY <2>3, <2>4
  <2>9. CASE call[a] \in {"wait", "ok", "refused", "unsent", "done", "gone"}
    <3>1. call'[a] \in {"gone", "done"} /\ store'[a] = Absent /\ Cardinality(T) = 0
      BY <1>1, <2>1, <2>3, <2>5, <2>9 DEF CallWaits
    <3>2. Ahead(a)' = 0
      BY <2>6, <3>1 DEF Ahead, Due, Trying, Stored
    <3>3. Ahead(a) \in Nat /\ Cut(a) \in {0, 1}
      BY <2>4, <2>7, <3>1 DEF Ahead, OneOrMore
    <3> QED BY <2>8, <3>2, <3>3
  <2>10. CASE call[a] \in {"new", "queued"}
    <3>1. call'[a] = call[a] /\ Cut(a) = Cardinality(T)
      BY <1>1, <2>3, <2>4, <2>10 DEF CallWaits
    <3>2. Ahead(a)' \in {0, 1}
      BY <2>6, <2>10, <3>1 DEF Ahead, OneOrMore
    <3>3. Ahead(a) \in Nat /\ Ahead(a) >= Replays(a)
      BY <2>7, <2>10 DEF Ahead, OneOrMore
    <3> QED BY <2>3, <2>7, <2>8, <3>1, <3>2, <3>3
  <2> QED BY <2>1, <2>9, <2>10
<1>3. Counts'
  <2>1. faults' \in Nat
    BY <1>1 DEF Counts
  <2>2. \A a \in Adds : late[a] + Cut(a) \in Nat
    BY <1>1, <1>2 DEF Counts
  <2> QED BY <1>1, <2>1, <2>2 DEF Counts
<1>4. ASSUME NEW a \in Adds
      PROVE  Paid(a)'
  <2>1. late'[a] = late[a] + Cut(a)
    BY <1>1
  <2>2. Ahead(a)' \in Nat
    BY ReplaysCount DEF Ahead, OneOrMore
  <2>3. PICK n, c \in Nat : n = Ahead(a)' /\ c = Cut(a)
    BY <1>2, <2>2
  <2>4. applied'[a] + late'[a] + n <= 1 + faults'
    <3>1. c + n <= Ahead(a) + 1
      BY <1>2, <2>3
    <3> QED BY <1>1, <1>3, <2>1, <2>3, <3>1, CopiesInReach
  <2> QED BY <2>3, <2>4 DEF Paid
<1> QED BY <1>3, <1>4 DEF CopyInv

LEMMA NextCopies == CopyInv /\ [Next]_vars => CopyInv'
<1> SUFFICES ASSUME CopyInv, [Next]_vars PROVE CopyInv'
  OBVIOUS
<1> USE DEF shown, server
<1>1. OrderInv'
  BY NextOrder DEF CopyInv
<1>2. CASE \/ Tick \/ Disconnect \/ UNCHANGED vars
           \/ Checkout \/ \E c \in Carts : Resume(c)
  <2>1. UNCHANGED <<flush, call, store, late, applied>> /\ faults' \in {faults, faults + 1}
    BY <1>2 DEF Tick, Disconnect, vars, Checkout, Resume, Fault
  <2>2. Counts' /\ faults <= faults'
    BY <2>1 DEF CopyInv, Counts
  <2> QED BY <1>1, <2>1, <2>2, PaidAside DEF CopyInv, Stored
<1> QED BY <1>1, <1>2, CopiesOfReplay, CopiesOfReconnect, CopiesOfServeFlush,
           CopiesOfFlushFails, CopiesOfCall, CopiesOfReload DEF Next, FlushStep

LEMMA InitCopies == Init => CopyInv
<1> SUFFICES ASSUME Init PROVE Counts /\ \A a \in Adds : Paid(a)
  BY InitOrder DEF CopyInv
<1>1. Counts
  BY DEF Init, Counts
<1>2. ASSUME NEW a \in Adds
      PROVE  Paid(a)
  <2>1. Senders(a) = {}
    BY DEF Init, NoFlush, Senders, MaySend
  <2>2. Ahead(a) = 1
    BY <2>1, ReplaysCount DEF Init, Ahead, OneOrMore, Due, Trying
  <2> QED BY <2>2 DEF Init, Paid
<1> QED BY <1>1, <1>2

(***************************************************************************)
(* Of the copies of an addition the server applies, all but one were paid  *)
(* for by a fault: an answer that was missed, a reload, a replay started   *)
(* over another one.  An outage by itself duplicates nothing.              *)
(***************************************************************************)
THEOREM CopiesArePaidFor == Spec => []CopiesHaveCauses
<1>1. CopyInv => CopiesHaveCauses
  <2> SUFFICES ASSUME CopyInv, NEW a \in Adds PROVE applied[a] <= 1 + faults
    BY DEF CopiesHaveCauses
  <2>1. applied[a] \in Nat /\ late[a] \in Nat /\ faults \in Nat /\ Ahead(a) \in Nat
    BY ReplaysCount DEF CopyInv, OrderInv, IInv, Types, Counts, Ahead, OneOrMore
  <2> QED BY <2>1 DEF CopyInv, Paid
<1> QED BY <1>1, InitCopies, NextCopies, PTL DEF Spec

(***************************************************************************)
(* The pages.  A list that waits has asked at or after every change the    *)
(* page was told it made; one that shows an answer shows them.             *)
(***************************************************************************)
PageHeld == page \in OpenPages /\ role \in Workers(page)

\* Every version but the first is what one of the page's acts made of the one before.
Version ==
  [status : Statuses(page), changes : {{}} \cup {Acts[a].route.changes : a \in DOMAIN Acts},
   act : {None} \cup DOMAIN Acts]
LogHeld ==
  /\ log \in Seq(Version) /\ Len(log) >= 1
  /\ \A i \in 2..Len(log) : log[i].act \in DOMAIN Acts /\ log[i].changes = Acts[log[i].act].route.changes

ListsHeld ==
  /\ asked \in [DOMAIN Loads -> Seq(Nat \ {0})]
  /\ held \in [DOMAIN Loads -> Int]
  /\ last \in [DOMAIN Loads -> {"waits", "shown", "failed", "overtaken"}]
  /\ \A l \in DOMAIN Loads : held[l] <= Len(log)

\* A list is empty as it started, or where a failure empties it.
NoneEmptied ==
  \A l \in DOMAIN Loads : held[l] = Empty => Loads[l].starts = Empty \/ Loads[l].failure = "emptied"

UpTo(q, h, s, v) ==
  /\ s = "shown" => h >= v
  /\ s = "waits" => q # <<>> /\ q[Len(q)] >= v
Covers(l, v) == log[v].changes \cap Loads[l].shows # {} /\ <<page, log[v].act, l>> \notin StaleLists
Shows ==
  /\ mine \subseteq 2..Len(log)
  /\ \A l \in DOMAIN Loads, v \in mine : Covers(l, v) => UpTo(asked[l], held[l], last[l], v)

\* A request was sent by a button that was there, and knows the status it was on.
SeenBy(w) ==
  LET b == Screen.buttons[w.act] IN
  /\ chosen >= b.level
  /\ IF b.in = None THEN w.seen = None
     ELSE w.seen \in Statuses(page) /\ (b.offers = {} \/ w.seen \in b.offers)
WriteHeld(w) ==
  /\ w \in [n : Nat, act : DOMAIN Acts, seen : Statuses(page) \cup {None}, at : Nat,
            stage : {"sent", "done", "refused"}]
  /\ SeenBy(w)
  /\ w.stage = "done" => w.at \in 2..Len(log) /\ log[w.at].act = w.act
WritesHeld == presses \in Nat /\ chosen \in Nat /\ \A w \in writes : WriteHeld(w)

NoneSilent == \A a \in failed \ told : <<page, a>> \in Silences

ListsInv == ListsHeld /\ NoneEmptied /\ Shows
VerdictsInv == NoDeadButton /\ RolesCanWork /\ NoneSilent
BrowserInv == PageHeld /\ LogHeld /\ ListsInv /\ WritesHeld /\ VerdictsInv

-----------------------------------------------------------------------------
\* Nothing is in the log that was not, and what was is still there.
Longer == Len(log') \in Nat /\ Len(log') >= Len(log) /\ \A i \in 1..Len(log) : log'[i] = log[i]

\* The page stays open.
LEMMA PageSame ==
  ASSUME page' = page
  PROVE  Loads' = Loads /\ Acts' = Acts /\ Screen' = Screen /\ Version' = Version
BY DEF Loads, Acts, Screen, Version

\* The statuses an act can leave are statuses of the page's rows.
LEMMA StatusesOfAct ==
  ASSUME LogHeld, NEW a \in DOMAIN Acts
  PROVE  Now \in Statuses(page) /\ Outcomes(a) \subseteq Statuses(page)
<1>1. Now \in Statuses(page)
  <2>1. log \in Seq(Version) /\ Len(log) \in 1..Len(log) /\ DOMAIN log = 1..Len(log)
    BY LenProperties DEF LogHeld
  <2>2. log[Len(log)] \in Version
    BY <2>1, ElementOfSeq
  <2> QED BY <2>2 DEF Now, Version
<1>2. RouteOf(a).to # {} => RouteOf(a).to \subseteq Statuses(page)
  BY DEF RouteOf, Acts, Statuses
<1> QED BY <1>1, <1>2 DEF Outcomes

LEMMA LogGrows ==
  ASSUME LogHeld, page' = page, NEW a \in DOMAIN Acts, NEW s \in Outcomes(a), log' = Change(a, s)
  PROVE  /\ LogHeld' /\ Longer /\ Len(log') = Len(log) + 1
         /\ log'[Len(log')].act = a /\ log'[Len(log')].changes = Acts[a].route.changes
<1> DEFINE x == [status |-> s, changes |-> Acts[a].route.changes, act |-> a]
<1>1. x \in Version
  BY StatusesOfAct DEF Version
<1>2. log' = Append(log, x)
  BY DEF Change, RouteOf
<1>3. log \in Seq(Version) /\ Len(log) \in Nat /\ Len(log) >= 1
  BY LenProperties DEF LogHeld
<1>4. /\ log' \in Seq(Version) /\ Len(log') = Len(log) + 1
      /\ \A i \in 1..Len(log) : log'[i] = log[i]
      /\ log'[Len(log) + 1] = x
  <2> HIDE DEF x
  <2> QED BY <1>1, <1>2, <1>3, AppendProperties
<1>5. x.act = a /\ x.changes = Acts[a].route.changes
  OBVIOUS
<1> HIDE DEF x
<1>6. Loads' = Loads /\ Acts' = Acts /\ Screen' = Screen /\ Version' = Version
  BY PageSame
<1>7. \A i \in 2..Len(log') : log'[i].act \in DOMAIN Acts /\ log'[i].changes = Acts[log'[i].act].route.changes
  <2> SUFFICES ASSUME NEW i \in 2..Len(log')
               PROVE  log'[i].act \in DOMAIN Acts /\ log'[i].changes = Acts[log'[i].act].route.changes
    OBVIOUS
  <2>1. i \in 2..Len(log) \/ i = Len(log) + 1
    BY <1>3, <1>4
  <2>2. CASE i \in 2..Len(log)
    BY <1>3, <1>4, <2>2 DEF LogHeld
  <2>3. CASE i = Len(log) + 1
    BY <1>4, <1>5, <2>3
  <2> QED BY <2>1, <2>2, <2>3
<1>8. LogHeld'
  BY <1>3, <1>4, <1>6, <1>7 DEF LogHeld
<1> QED BY <1>3, <1>4, <1>5, <1>8 DEF Longer

LEMMA LogStays ==
  ASSUME LogHeld, page' = page, log' = log
  PROVE  LogHeld' /\ Longer
<1>1. Len(log) \in Nat
  BY LenProperties DEF LogHeld
<1>2. LogHeld'
  BY PageSame DEF LogHeld
<1> QED BY <1>1, <1>2 DEF Longer

LEMMA WriteStays ==
  ASSUME NEW w, WriteHeld(w), page' = page, chosen \in Nat, chosen' \in Nat, chosen' >= chosen,
         PageHeld, LogHeld, Longer
  PROVE  WriteHeld(w)'
<1>1. Loads' = Loads /\ Acts' = Acts /\ Screen' = Screen
  BY PageSame
<1>2. w.act \in DOMAIN Acts
  BY DEF WriteHeld
<1>3. Screen.buttons[w.act].level \in Nat
  BY <1>2, PagesAssumption DEF PageHeld, Wired, Screen, Acts
<1>4. SeenBy(w)'
  BY <1>1, <1>3 DEF WriteHeld, SeenBy
<1>5. Len(log) \in Nat
  BY LenProperties DEF LogHeld
<1>6. w.stage = "done" => w.at \in 2..Len(log') /\ log'[w.at].act = w.act
  BY <1>5 DEF WriteHeld, Longer
<1> QED BY <1>1, <1>4, <1>6 DEF WriteHeld

-----------------------------------------------------------------------------
\* Where a page asks for lists, all of them have a request sent after every change made.
LEMMA SentSays ==
  ASSUME ListsHeld, LogHeld, NEW S
  PROVE  /\ Sent(S) \in [DOMAIN Loads -> Seq(Nat \ {0})]
         /\ \A l \in DOMAIN Loads : l \notin S => Sent(S)[l] = asked[l]
         /\ \A l \in DOMAIN Loads : l \in S => Sent(S)[l] # <<>> /\ Sent(S)[l][Len(Sent(S)[l])] = Len(log)
<1>1. Len(log) \in Nat \ {0}
  BY LenProperties DEF LogHeld
<1>2. asked \in [DOMAIN Loads -> Seq(Nat \ {0})]
  BY DEF ListsHeld
<1>3. ASSUME NEW q \in Seq(Nat \ {0})
      PROVE  /\ Append(q, Len(log)) \in Seq(Nat \ {0}) /\ Append(q, Len(log)) # <<>>
             /\ Append(q, Len(log))[Len(Append(q, Len(log)))] = Len(log)
  <2>1. PICK n \in Nat \ {0} : n = Len(log)
    BY <1>1
  <2>2. Append(q, n) \in Seq(Nat \ {0}) /\ Len(Append(q, n)) = Len(q) + 1 /\ Append(q, n)[Len(q) + 1] = n
    BY AppendProperties
  <2>3. Append(q, n) # <<>>
    BY <2>2, EmptySeq, LenProperties
  <2> QED BY <2>1, <2>2, <2>3
<1>4. ASSUME NEW l \in DOMAIN Loads
      PROVE  /\ Sent(S)[l] \in Seq(Nat \ {0})
             /\ l \notin S => Sent(S)[l] = asked[l]
             /\ l \in S => Sent(S)[l] # <<>> /\ Sent(S)[l][Len(Sent(S)[l])] = Len(log)
  <2>1. Sent(S)[l] = IF l \in S THEN Append(asked[l], Len(log)) ELSE asked[l]
    BY <1>2 DEF Sent
  <2>2. asked[l] \in Seq(Nat \ {0})
    BY <1>2
  <2> QED BY <1>3, <2>1, <2>2
<1>5. Sent(S) \in [DOMAIN Loads -> Seq(Nat \ {0})]
  <2>1. Sent(S) = [l \in DOMAIN Loads |-> Sent(S)[l]]
    BY <1>2 DEF Sent
  <2> QED BY <1>4, <2>1
<1> QED BY <1>4, <1>5

\* The answers to requests in flight come in any order; the last one sent counts.
LEMMA SettleSays ==
  ASSUME ListsHeld, NEW l \in DOMAIN Loads, NEW i \in DOMAIN asked[l], NEW how \in {"shown", "failed"},
         Settle(l, i, how)
  PROVE  /\ asked' \in [DOMAIN Loads -> Seq(Nat \ {0})]
         /\ last' \in [DOMAIN Loads -> {"waits", "shown", "failed", "overtaken"}]
         /\ \A k \in DOMAIN Loads : k # l => asked'[k] = asked[k] /\ last'[k] = last[k]
         /\ last'[l] = "shown" => last[l] = "waits" /\ i = Len(asked[l]) /\ how = "shown"
         /\ last'[l] = "waits" => /\ last[l] = "waits" /\ i # Len(asked[l]) /\ asked'[l] # <<>>
                                  /\ asked'[l][Len(asked'[l])] = asked[l][Len(asked[l])]
<1>1. /\ asked \in [DOMAIN Loads -> Seq(Nat \ {0})]
      /\ last \in [DOMAIN Loads -> {"waits", "shown", "failed", "overtaken"}]
  BY DEF ListsHeld
<1>2. PICK q \in Seq(Nat \ {0}) : q = asked[l]
  BY <1>1
<1>3. i \in DOMAIN q /\ DOMAIN q = 1..Len(q) /\ Len(q) \in Nat
  BY <1>2, LenProperties
<1>4. /\ RemoveAt(q, i) \in Seq(Nat \ {0}) /\ DOMAIN RemoveAt(q, i) = 1..(Len(q) - 1)
      /\ \A j \in 1..(Len(q) - 1) : RemoveAt(q, i)[j] = q[IF j < i THEN j ELSE j + 1]
  BY <1>3, Removed
<1>5. Len(RemoveAt(q, i)) = Len(q) - 1
  <2>1. PICK m \in Nat : m = Len(RemoveAt(q, i)) /\ DOMAIN RemoveAt(q, i) = 1..m
    BY <1>4, LenProperties
  <2>2. PICK n \in Nat : n = Len(q) - 1
    <3>1. Len(q) - 1 \in Nat
      BY <1>3
    <3> QED BY <3>1
  <2>3. 1..m = 1..n
    BY <1>4, <2>1, <2>2
  <2>4. (m \in 1..m <=> m \in 1..n) /\ (n \in 1..n <=> n \in 1..m)
    BY <2>3
  <2> QED BY <2>1, <2>2, <2>4
<1>6. i # Len(q) => RemoveAt(q, i) # <<>> /\ RemoveAt(q, i)[Len(RemoveAt(q, i))] = q[Len(q)]
  <2> SUFFICES ASSUME i # Len(q)
               PROVE  RemoveAt(q, i) # <<>> /\ RemoveAt(q, i)[Len(RemoveAt(q, i))] = q[Len(q)]
    OBVIOUS
  <2>1. Len(q) - 1 \in 1..(Len(q) - 1) /\ ~(Len(q) - 1 < i) /\ (Len(q) - 1) + 1 = Len(q)
    BY <1>3
  <2>2. RemoveAt(q, i)[Len(q) - 1] = q[Len(q)]
    BY <1>4, <2>1
  <2>3. RemoveAt(q, i) # <<>>
    BY <1>4, <1>5, <2>1, EmptySeq
  <2> QED BY <1>5, <2>2, <2>3
<1>7. asked' = [asked EXCEPT ![l] = RemoveAt(q, i)]
  BY <1>2 DEF Settle
<1>8. asked' \in [DOMAIN Loads -> Seq(Nat \ {0})] /\ asked'[l] = RemoveAt(q, i)
      /\ \A k \in DOMAIN Loads : k # l => asked'[k] = asked[k]
  BY <1>1, <1>4, <1>7
<1>9. /\ \A k \in DOMAIN Loads : k # l => last'[k] = last[k]
      /\ last'[l] = CASE last[l] # "waits" -> "overtaken"
                      [] last[l] = "waits" /\ i = Len(asked[l]) -> how
                      [] OTHER -> "waits"
      /\ last' = [k \in DOMAIN Loads |-> last'[k]]
  BY <1>1 DEF Settle
<1>10. last'[l] \in {"waits", "shown", "failed", "overtaken"}
  BY <1>9
<1>11. last' \in [DOMAIN Loads -> {"waits", "shown", "failed", "overtaken"}]
  BY <1>1, <1>9, <1>10
<1>12. last'[l] = "shown" => last[l] = "waits" /\ i = Len(asked[l]) /\ how = "shown"
  BY <1>9
<1>13. last'[l] = "waits" => last[l] = "waits" /\ i # Len(asked[l])
  BY <1>9
<1>14. last'[l] = "waits" => asked'[l] # <<>> /\ asked'[l][Len(asked'[l])] = asked[l][Len(asked[l])]
  BY <1>2, <1>6, <1>8, <1>13
<1> QED BY <1>8, <1>9, <1>11, <1>12, <1>13, <1>14

\* Asking for lists leaves each up to date with what the page was told.
LEMMA AskKeeps ==
  ASSUME ListsInv, LogHeld, page' = page, NEW S, Ask(S), UNCHANGED <<log, held, mine>>
  PROVE  ListsInv'
<1>1. /\ asked' \in [DOMAIN Loads -> Seq(Nat \ {0})]
      /\ \A l \in DOMAIN Loads : l \notin S => asked'[l] = asked[l]
      /\ \A l \in DOMAIN Loads : l \in S => asked'[l] # <<>> /\ asked'[l][Len(asked'[l])] = Len(log)
  BY SentSays DEF Ask, ListsInv
<1>2. last' \in [DOMAIN Loads -> {"waits", "shown", "failed", "overtaken"}]
      /\ \A l \in DOMAIN Loads : last'[l] = IF l \in S THEN "waits" ELSE last[l]
  BY DEF Ask, ListsInv, ListsHeld
<1>3. Loads' = Loads
  BY PageSame
<1>4. ListsHeld'
  BY <1>1, <1>2, <1>3 DEF ListsInv, ListsHeld
<1>5. NoneEmptied'
  BY <1>3 DEF ListsInv, NoneEmptied
<1>6. Shows'
  <2> SUFFICES ASSUME NEW l \in DOMAIN Loads, NEW v \in mine, Covers(l, v)
               PROVE  UpTo(asked'[l], held[l], last'[l], v)
    BY <1>3 DEF ListsInv, Shows, Covers
  <2>1. v \in 2..Len(log) /\ UpTo(asked[l], held[l], last[l], v) /\ Len(log) \in Nat
    BY LenProperties DEF ListsInv, Shows, LogHeld
  <2>2. CASE l \in S
    BY <1>1, <1>2, <2>1, <2>2 DEF UpTo
  <2>3. CASE l \notin S
    BY <1>1, <1>2, <2>1, <2>3
  <2> QED BY <2>2, <2>3
<1> QED BY <1>4, <1>5, <1>6 DEF ListsInv

\* An answer: shown, it is at least as new as its request; a failure shows nothing new.
LEMMA SettleKeeps ==
  ASSUME ListsInv, LogHeld, page' = page, NEW l \in DOMAIN Loads, NEW i \in DOMAIN asked[l],
         NEW how \in {"shown", "failed"}, Settle(l, i, how), NEW h \in Int, h <= Len(log),
         held' = [held EXCEPT ![l] = h], how = "shown" => h >= asked[l][i],
         h = Empty => Loads[l].starts = Empty \/ Loads[l].failure = "emptied",
         UNCHANGED <<log, mine>>
  PROVE  ListsInv'
<1>1. ListsHeld
  BY DEF ListsInv
<1>2. /\ asked' \in [DOMAIN Loads -> Seq(Nat \ {0})]
      /\ last' \in [DOMAIN Loads -> {"waits", "shown", "failed", "overtaken"}]
      /\ \A k \in DOMAIN Loads : k # l => asked'[k] = asked[k] /\ last'[k] = last[k]
      /\ last'[l] = "shown" => last[l] = "waits" /\ i = Len(asked[l]) /\ how = "shown"
      /\ last'[l] = "waits" => /\ last[l] = "waits" /\ i # Len(asked[l]) /\ asked'[l] # <<>>
                               /\ asked'[l][Len(asked'[l])] = asked[l][Len(asked[l])]
  BY <1>1, SettleSays
<1>3. /\ held' \in [DOMAIN Loads -> Int] /\ held'[l] = h
      /\ \A k \in DOMAIN Loads : k # l => held'[k] = held[k]
  BY <1>1 DEF ListsHeld
<1>4. Loads' = Loads
  BY PageSame
<1>5. ListsHeld'
  BY <1>1, <1>2, <1>3, <1>4 DEF ListsHeld
<1>6. NoneEmptied'
  BY <1>3, <1>4 DEF ListsInv, NoneEmptied
<1>7. Shows'
  <2> SUFFICES ASSUME NEW k \in DOMAIN Loads, NEW v \in mine, Covers(k, v)
               PROVE  UpTo(asked'[k], held'[k], last'[k], v)
    BY <1>4 DEF ListsInv, Shows, Covers
  <2>1. v \in 2..Len(log) /\ UpTo(asked[k], held[k], last[k], v)
    BY DEF ListsInv, Shows
  <2>2. CASE k # l
    BY <1>2, <1>3, <2>1, <2>2
  <2>3. CASE k = l
    <3>1. last'[l] = "shown" => h >= v
      <4> SUFFICES ASSUME last'[l] = "shown" PROVE h >= v
        OBVIOUS
      <4>1. asked[l][i] \in Nat /\ h >= asked[l][i] /\ asked[l][i] >= v
        BY <1>1, <1>2, <2>1, <2>3, ElementOfSeq, LenProperties DEF UpTo, ListsHeld
      <4>2. PICK n \in Nat : n = asked[l][i]
        BY <4>1
      <4>3. v \in Int
        BY <2>1, LenProperties DEF LogHeld
      <4> QED BY <4>1, <4>2, <4>3
    <3>2. last'[l] = "waits" => asked'[l] # <<>> /\ asked'[l][Len(asked'[l])] >= v
      BY <1>2, <2>1, <2>3 DEF UpTo
    <3> QED BY <1>3, <2>3, <3>1, <3>2 DEF UpTo
  <2> QED BY <2>2, <2>3
<1> QED BY <1>5, <1>6, <1>7 DEF ListsInv

\* The lists stay as they are, whatever is added to the log.
LEMMA ListsStay ==
  ASSUME ListsInv, LogHeld, page' = page, Longer, UNCHANGED <<asked, held, last, mine>>
  PROVE  ListsInv'
<1>1. Len(log) \in Nat
  BY LenProperties DEF LogHeld
<1>2. Loads' = Loads
  BY PageSame
<1>3. ListsHeld'
  BY <1>1, <1>2 DEF ListsInv, ListsHeld, Longer
<1>4. NoneEmptied'
  BY <1>2 DEF ListsInv, NoneEmptied
<1>5. Shows'
  <2>1. mine \subseteq 2..Len(log') /\ \A v \in mine : log'[v] = log[v]
    BY <1>1 DEF ListsInv, Shows, Longer
  <2>2. ASSUME NEW l \in DOMAIN Loads, NEW v \in mine
        PROVE  Covers(l, v)' => UpTo(asked[l], held[l], last[l], v)
    BY <1>2, <2>1 DEF ListsInv, Shows, Covers
  <2> QED BY <1>2, <2>1, <2>2 DEF Shows, UpTo
<1> QED BY <1>3, <1>4, <1>5 DEF ListsInv

-----------------------------------------------------------------------------
LEMMA WritesStay ==
  ASSUME WritesHeld, PageHeld, LogHeld, Longer, page' = page, chosen' \in Nat, chosen' >= chosen,
         presses' \in Nat, NEW W, \A w \in W : w \in writes
  PROVE  \A w \in W : WriteHeld(w)'
BY WriteStays DEF WritesHeld

\* A request that is answered keeps what it was sent with.
LEMMA WriteMoves ==
  ASSUME WritesHeld, PageHeld, LogHeld, Longer, page' = page, UNCHANGED <<chosen, presses>>,
         NEW w \in writes, NEW stage \in {"done", "refused"}, NEW place \in Nat,
         stage = "done" => place \in 2..Len(log') /\ log'[place].act = w.act,
         writes' = Moved(w, stage, place)
  PROVE  WritesHeld'
<1>1. WriteHeld(w)
  BY DEF WritesHeld
<1> DEFINE z == [w EXCEPT !.stage = stage, !.at = place]
<1>2. w \in [n : Nat, act : DOMAIN Acts, seen : Statuses(page) \cup {None}, at : Nat,
             stage : {"sent", "done", "refused"}]
  BY <1>1 DEF WriteHeld
<1>3. /\ z \in [n : Nat, act : DOMAIN Acts, seen : Statuses(page) \cup {None}, at : Nat,
                stage : {"sent", "done", "refused"}]
      /\ z.act = w.act /\ z.seen = w.seen /\ z.stage = stage /\ z.at = place
  BY <1>2
<1>4. chosen' \in Nat /\ chosen' >= chosen /\ presses' \in Nat
  BY DEF WritesHeld
<1>5. WriteHeld(w)' /\ \A x \in writes \ {w} : WriteHeld(x)'
  BY <1>4, WriteStays DEF WritesHeld
<1>6. WriteHeld(z)'
  <2> HIDE DEF z
  <2>1. SeenBy(z)'
    BY <1>3, <1>5 DEF WriteHeld, SeenBy
  <2>2. Acts' = Acts
    BY PageSame
  <2>3. z.stage = "done" => z.at \in 2..Len(log') /\ log'[z.at].act = z.act
    BY <1>3
  <2> QED BY <1>3, <2>1, <2>2, <2>3 DEF WriteHeld
<1>7. \A x \in writes' : x \in writes \ {w} \/ x = z
  BY DEF Moved
<1> HIDE DEF z
<1> QED BY <1>4, <1>5, <1>6, <1>7 DEF WritesHeld

LEMMA VerdictsStay ==
  ASSUME VerdictsInv, UNCHANGED <<page, role, verdicts>>
  PROVE  VerdictsInv'
BY DEF VerdictsInv, verdicts, NoDeadButton, RolesCanWork, NoneSilent

LEMMA PageStays ==
  ASSUME PageHeld, UNCHANGED <<page, role>>
  PROVE  PageHeld'
BY DEF PageHeld

\* Loads that are asked for.
LEMMA ChooseKeeps ==
  ASSUME BrowserInv, Choose
  PROVE  BrowserInv'
<1>1. /\ UNCHANGED <<page, role, log, held, writes, mine, verdicts, counters>>
      /\ chosen' = chosen + 1 /\ Ask(LoadsAt(chosen'))
  BY DEF Choose
<1>2. PICK S : Ask(S)
  BY <1>1
<1>3. chosen' \in Nat /\ chosen' >= chosen /\ presses' \in Nat
  BY <1>1 DEF BrowserInv, WritesHeld, counters
<1>4. LogHeld' /\ Longer
  BY <1>1, LogStays DEF BrowserInv
<1>5. ListsInv'
  BY <1>1, <1>2, AskKeeps DEF BrowserInv
<1>6. WritesHeld'
  BY <1>1, <1>3, <1>4, WritesStay DEF BrowserInv, WritesHeld
<1> QED BY <1>1, <1>4, <1>5, <1>6, VerdictsStay, PageStays DEF BrowserInv

LEMMA PollKeeps ==
  ASSUME BrowserInv, NEW l, Poll(l)
  PROVE  BrowserInv'
<1>1. /\ UNCHANGED <<page, role, log, held, chosen, writes, mine, verdicts, counters>>
      /\ Ask({l})
  BY DEF Poll
<1>2. chosen' \in Nat /\ chosen' >= chosen /\ presses' \in Nat
  BY <1>1 DEF BrowserInv, WritesHeld, counters
<1>3. LogHeld' /\ Longer
  BY <1>1, LogStays DEF BrowserInv
<1>4. ListsInv'
  BY <1>1, AskKeeps DEF BrowserInv
<1>5. WritesHeld'
  BY <1>1, <1>2, <1>3, WritesStay DEF BrowserInv, WritesHeld
<1> QED BY <1>1, <1>3, <1>4, <1>5, VerdictsStay, PageStays DEF BrowserInv

\* An answer shows a version no older than its request.
LEMMA ArriveKeeps ==
  ASSUME BrowserInv, NEW l \in DOMAIN Loads, Arrive(l)
  PROVE  BrowserInv'
<1>1. PICK i \in DOMAIN asked[l] : \E v \in Versions(l, asked[l][i]) :
        /\ Settle(l, i, "shown")
        /\ held' = [held EXCEPT ![l] = v]
        /\ UNCHANGED <<page, role, log, chosen, writes, mine, verdicts, counters>>
  BY DEF Arrive
<1>0. PICK v \in Versions(l, asked[l][i]) :
        /\ Settle(l, i, "shown")
        /\ held' = [held EXCEPT ![l] = v]
        /\ UNCHANGED <<page, role, log, chosen, writes, mine, verdicts, counters>>
  BY <1>1
<1>2. asked[l] \in Seq(Nat \ {0}) /\ Len(log) \in Nat
  BY LenProperties DEF BrowserInv, ListsInv, ListsHeld, LogHeld
<1>3. asked[l][i] \in Nat \ {0}
  BY <1>2, ElementOfSeq, LenProperties
<1>4. v \in asked[l][i]..Len(log)
  BY DEF Versions
<1>5. v \in Int /\ v <= Len(log) /\ v >= asked[l][i] /\ v # Empty
  <2>1. PICK n \in Nat \ {0}, k \in Nat : n = asked[l][i] /\ k = Len(log)
    BY <1>2, <1>3
  <2>2. v \in n..k
    BY <1>4, <2>1
  <2> QED BY <2>1, <2>2 DEF Empty
<1>6. chosen' \in Nat /\ chosen' >= chosen /\ presses' \in Nat
  BY <1>0 DEF BrowserInv, WritesHeld, counters
<1>7. LogHeld' /\ Longer
  BY <1>0, LogStays DEF BrowserInv
<1>8. ListsInv'
  BY <1>0, <1>5, SettleKeeps DEF BrowserInv
<1>9. WritesHeld'
  BY <1>0, <1>6, <1>7, WritesStay DEF BrowserInv, WritesHeld
<1> QED BY <1>0, <1>7, <1>8, <1>9, VerdictsStay, PageStays DEF BrowserInv

\* A list is refused to a role only where the page is known to ask too much.
LEMMA LoadFailsKeeps ==
  ASSUME BrowserInv, NEW l \in DOMAIN Loads, LoadFails(l)
  PROVE  BrowserInv'
<1>1. PICK i \in DOMAIN asked[l] :
        /\ barred' = barred \/ (~Granted(Loads[l].route) /\ barred' = barred \cup {l})
        /\ Settle(l, i, "failed")
        /\ held' = [held EXCEPT ![l] = IF Loads[l].failure = "emptied" THEN Empty ELSE @]
        /\ UNCHANGED <<page, role, log, chosen, writes, mine, failed, told, dead, presses>>
  BY DEF LoadFails
<1>2. chosen' \in Nat /\ chosen' >= chosen /\ presses' \in Nat
  BY <1>1 DEF BrowserInv, WritesHeld
<1>3. LogHeld' /\ Longer
  BY <1>1, LogStays DEF BrowserInv
<1>4. ListsInv'
  <2>1. PICK h : h = (IF Loads[l].failure = "emptied" THEN Empty ELSE held[l])
    OBVIOUS
  <2>2. held[l] \in Int /\ held[l] <= Len(log) /\ Len(log) \in Nat
        /\ (held[l] = Empty => Loads[l].starts = Empty \/ Loads[l].failure = "emptied")
    BY LenProperties DEF BrowserInv, ListsInv, ListsHeld, NoneEmptied, LogHeld
  <2>3. h \in Int /\ h <= Len(log) /\ (h = Empty => Loads[l].starts = Empty \/ Loads[l].failure = "emptied")
    BY <2>1, <2>2 DEF Empty
  <2>4. held' = [held EXCEPT ![l] = h]
    BY <1>1, <2>1
  <2> QED BY <1>1, <2>3, <2>4, SettleKeeps DEF BrowserInv
<1>5. WritesHeld'
  BY <1>1, <1>2, <1>3, WritesStay DEF BrowserInv, WritesHeld
<1>6. RolesCanWork'
  <2>1. Granted(Loads[l].route) \/ <<page, role, l>> \in ShutDoors
    BY PagesAssumption DEF BrowserInv, PageHeld, Admits, Granted, Loads
  <2> QED BY <1>1, <2>1 DEF BrowserInv, VerdictsInv, RolesCanWork
<1>7. VerdictsInv'
  BY <1>1, <1>6 DEF BrowserInv, VerdictsInv, NoDeadButton, NoneSilent
<1> QED BY <1>1, <1>3, <1>4, <1>5, <1>7, PageStays DEF BrowserInv

\* The status a button is pressed on is one that the page shows.
LEMMA PressKeeps ==
  ASSUME BrowserInv, NEW a \in DOMAIN Acts, Press(a)
  PROVE  BrowserInv'
<1>0. PICK x : x = [n |-> presses, act |-> a, seen |-> Shown(a), at |-> 0, stage |-> "sent"]
  OBVIOUS
<1>1. /\ presses' = presses + 1 /\ Offered(a) /\ writes' = writes \cup {x}
      /\ failed' = failed \ {a} /\ told' = told \ {a}
      /\ UNCHANGED <<page, role, log, held, asked, last, chosen, mine, dead, barred, troubles>>
  BY <1>0 DEF Press
<1>2. chosen' \in Nat /\ chosen' >= chosen /\ presses' \in Nat /\ presses \in Nat
  BY <1>1 DEF BrowserInv, WritesHeld
<1>3. LogHeld' /\ Longer
  BY <1>1, LogStays DEF BrowserInv
<1>4. ListsInv'
  BY <1>1, <1>3, ListsStay DEF BrowserInv
<1>5. \A w \in writes : WriteHeld(w)'
  BY <1>1, <1>2, <1>3, WritesStay DEF BrowserInv
<1>6. WriteHeld(x)
  <2> DEFINE b == Screen.buttons[a]
  <2>1. b.in \in DOMAIN Loads \cup {None}
    BY PagesAssumption DEF BrowserInv, PageHeld, Wired, Screen, Loads, Acts
  <2>2. /\ b.in # None => held[b.in] >= 1 /\ (b.offers = {} \/ Shown(a) \in b.offers)
        /\ chosen >= b.level
    BY <1>1 DEF Offered
  <2>3. b.in # None => Shown(a) \in Statuses(page)
    <3> SUFFICES ASSUME b.in # None PROVE Shown(a) \in Statuses(page)
      OBVIOUS
    <3>1. held[b.in] \in Int /\ held[b.in] <= Len(log) /\ Len(log) \in Nat
      BY <2>1, LenProperties DEF BrowserInv, ListsInv, ListsHeld, LogHeld
    <3>2. held[b.in] \in 1..Len(log)
      BY <2>2, <3>1
    <3>3. log[held[b.in]] \in Version
      BY <3>2, ElementOfSeq DEF BrowserInv, LogHeld
    <3> QED BY <3>3 DEF Shown, Version
  <2>4. b.in = None => Shown(a) = None
    BY DEF Shown
  <2>5. Shown(a) \in Statuses(page) \cup {None}
    BY <2>3, <2>4
  <2>6. /\ x \in [n : Nat, act : DOMAIN Acts, seen : Statuses(page) \cup {None}, at : Nat,
                  stage : {"sent", "done", "refused"}]
        /\ x.act = a /\ x.seen = Shown(a) /\ x.stage # "done"
    BY <1>0, <1>2, <2>5
  <2>7. SeenBy(x)
    BY <2>2, <2>3, <2>4, <2>6 DEF SeenBy
  <2> QED BY <2>6, <2>7 DEF WriteHeld
<1>7. WriteHeld(x)'
  BY <1>1, <1>2, <1>3, <1>6, WriteStays DEF BrowserInv, WritesHeld
<1>8. WritesHeld'
  BY <1>1, <1>2, <1>5, <1>7 DEF WritesHeld
<1>9. VerdictsInv'
  BY <1>1 DEF BrowserInv, VerdictsInv, NoDeadButton, RolesCanWork, NoneSilent
<1> QED BY <1>1, <1>3, <1>4, <1>8, <1>9, PageStays DEF BrowserInv

\* The version a request makes is the newest.
LEMMA ServeKeeps ==
  ASSUME BrowserInv, NEW w \in writes, Serve(w)
  PROVE  BrowserInv'
<1>1. w.act \in DOMAIN Acts
  BY DEF BrowserInv, WritesHeld, WriteHeld
<1>2. PICK s \in Outcomes(w.act) : log' = Change(w.act, s)
  BY DEF Serve
<1>3. /\ writes' = Moved(w, "done", Len(log'))
      /\ UNCHANGED <<page, role, held, asked, last, chosen, mine, verdicts, counters>>
  BY DEF Serve
<1>4. LogHeld' /\ Longer /\ Len(log') = Len(log) + 1 /\ log'[Len(log')].act = w.act
  BY <1>1, <1>2, <1>3, LogGrows DEF BrowserInv
<1>5. ListsInv'
  BY <1>3, <1>4, ListsStay DEF BrowserInv
<1>6. PICK n \in Nat : n = Len(log')
  BY <1>4 DEF Longer
<1>7. n \in 2..Len(log')
  <2>1. Len(log) \in Nat /\ Len(log) >= 1
    BY LenProperties DEF BrowserInv, LogHeld
  <2> QED BY <1>4, <1>6, <2>1
<1>8. WritesHeld'
  BY <1>3, <1>4, <1>6, <1>7, WriteMoves DEF BrowserInv, counters
<1> QED BY <1>3, <1>4, <1>5, <1>8, VerdictsStay, PageStays DEF BrowserInv

\* A request is refused to a role, or for a status, only where the page is known to offer it.
LEMMA RefuseKeeps ==
  ASSUME BrowserInv, NEW w \in writes, Refuse(w)
  PROVE  BrowserInv'
<1>1. /\ writes' = Moved(w, "refused", 0)
      /\ UNCHANGED <<page, role, log, held, asked, last, chosen, mine, failed, told, counters>>
  BY DEF Refuse
<1>2. LogHeld' /\ Longer
  BY <1>1, LogStays DEF BrowserInv
<1>3. ListsInv'
  BY <1>1, <1>2, ListsStay DEF BrowserInv
<1>4. WritesHeld'
  BY <1>1, <1>2, WriteMoves DEF BrowserInv, counters
<1>5. WriteHeld(w) /\ w.act \in DOMAIN Acts /\ SeenBy(w)
  BY DEF BrowserInv, WritesHeld, WriteHeld
<1>6. RolesCanWork'
  <2>1. Granted(Acts[w.act].route) \/ <<page, role, w.act>> \in ShutDoors
    BY <1>5, PagesAssumption DEF BrowserInv, PageHeld, Admits, Granted, Acts
  <2>2. barred' = barred \/ (~Granted(Acts[w.act].route) /\ barred' = barred \cup {w.act})
    BY DEF Refuse
  <2> QED BY <1>1, <2>1, <2>2 DEF BrowserInv, VerdictsInv, RolesCanWork
<1>7. NoDeadButton'
  <2>1. dead' = dead \/ (~Takes(w.act) /\ w.seen = Now /\ dead' = dead \cup {w.act})
    BY DEF Refuse
  <2>2. ASSUME ~Takes(w.act), w.seen = Now PROVE <<page, w.act>> \in DeadButtons
    <3> DEFINE b == Screen.buttons[w.act]
               route == Acts[w.act].route
    <3>1. route.on # None /\ Now \notin route.from
      BY <2>2 DEF Takes, RouteOf
    <3>2. Now \in Statuses(page)
      BY <1>5, StatusesOfAct DEF BrowserInv
    <3>3. \/ None \notin Statuses(page)
             /\ (IF b.in = None THEN {} ELSE IF b.offers = {} THEN Statuses(page) ELSE b.offers \cap Statuses(page))
                \subseteq route.from
          \/ <<page, w.act>> \in DeadButtons
      BY <1>5, <3>1, PagesAssumption DEF BrowserInv, PageHeld, Enables, Screen, Acts
    <3>4. IF b.in = None THEN w.seen = None ELSE w.seen \in Statuses(page) /\ (b.offers = {} \/ w.seen \in b.offers)
      BY <1>5 DEF SeenBy
    <3> HIDE DEF b, route
    <3> QED BY <2>2, <3>1, <3>2, <3>3, <3>4
  <2> QED BY <1>1, <2>1, <2>2 DEF BrowserInv, VerdictsInv, NoDeadButton
<1>8. VerdictsInv'
  BY <1>1, <1>6, <1>7 DEF BrowserInv, VerdictsInv, NoneSilent
<1> QED BY <1>1, <1>2, <1>3, <1>4, <1>8, PageStays DEF BrowserInv

LEMMA LoseKeeps ==
  ASSUME BrowserInv, NEW w \in writes, Lose(w)
  PROVE  BrowserInv'
<1>1. /\ writes' = Moved(w, "refused", 0)
      /\ UNCHANGED <<page, role, log, held, asked, last, chosen, mine, verdicts, presses>>
  BY DEF Lose
<1>2. LogHeld' /\ Longer
  BY <1>1, LogStays DEF BrowserInv
<1>3. ListsInv'
  BY <1>1, <1>2, ListsStay DEF BrowserInv
<1>4. WritesHeld'
  BY <1>1, <1>2, WriteMoves DEF BrowserInv
<1> QED BY <1>1, <1>2, <1>3, <1>4, VerdictsStay, PageStays DEF BrowserInv

\* What a request made is told: its lists are asked for again, or hold the answer.
LEMMA SucceedsKeeps ==
  ASSUME BrowserInv, NEW w \in writes, Succeeds(w)
  PROVE  BrowserInv'
<1> DEFINE R == Acts[w.act].reloads
           P == Acts[w.act].patches
<1>1. /\ w.stage = "done" /\ writes' = writes \ {w} /\ mine' = mine \cup {w.at}
      /\ asked' = Sent(R)
      /\ last' = [l \in DOMAIN last |->
                    IF l \in P THEN (IF \E v \in mine : v > w.at THEN "overtaken" ELSE "shown")
                    ELSE IF l \in R THEN "waits" ELSE last[l]]
      /\ held' = [l \in DOMAIN held |-> IF l \in P THEN w.at ELSE held[l]]
      /\ UNCHANGED <<page, role, log, chosen, verdicts, counters>>
  BY DEF Succeeds
<1>2. LogHeld' /\ Longer
  BY <1>1, LogStays DEF BrowserInv
<1>3. chosen' \in Nat /\ chosen' >= chosen /\ presses' \in Nat
  BY <1>1 DEF BrowserInv, WritesHeld, counters
<1>4. WritesHeld'
  BY <1>1, <1>2, <1>3, WritesStay DEF BrowserInv, WritesHeld
<1>5. /\ w.act \in DOMAIN Acts /\ w.at \in 2..Len(log) /\ log[w.at].act = w.act
      /\ log[w.at].changes = Acts[w.act].route.changes
  BY <1>1 DEF BrowserInv, WritesHeld, WriteHeld, LogHeld
<1>6. Len(log) \in Nat /\ w.at \in Nat /\ w.at >= 2 /\ w.at <= Len(log)
  <2>1. Len(log) \in Nat
    BY LenProperties DEF BrowserInv, LogHeld
  <2> QED BY <1>5, <2>1
<1>7. ListsHeld /\ NoneEmptied /\ Shows /\ LogHeld
  BY DEF BrowserInv, ListsInv
<1>8. /\ asked' \in [DOMAIN Loads -> Seq(Nat \ {0})]
      /\ \A l \in DOMAIN Loads : l \notin R => asked'[l] = asked[l]
      /\ \A l \in DOMAIN Loads : l \in R => asked'[l] # <<>> /\ asked'[l][Len(asked'[l])] = Len(log)
  BY <1>1, <1>7, SentSays
<1> HIDE DEF R, P
<1>9. /\ last' \in [DOMAIN Loads -> {"waits", "shown", "failed", "overtaken"}]
      /\ \A l \in DOMAIN Loads :
           last'[l] = IF l \in P THEN (IF \E v \in mine : v > w.at THEN "overtaken" ELSE "shown")
                      ELSE IF l \in R THEN "waits" ELSE last[l]
  BY <1>1, <1>7 DEF ListsHeld
<1>10. /\ held' \in [DOMAIN Loads -> Int]
       /\ \A l \in DOMAIN Loads : held'[l] = IF l \in P THEN w.at ELSE held[l]
  BY <1>1, <1>6, <1>7 DEF ListsHeld
<1>11. Loads' = Loads
  BY <1>1, PageSame
<1>12. ListsHeld'
  BY <1>1, <1>6, <1>7, <1>8, <1>9, <1>10, <1>11 DEF ListsHeld
<1>13. NoneEmptied'
  BY <1>6, <1>7, <1>10, <1>11 DEF NoneEmptied, Empty
<1>14. ASSUME NEW l \in DOMAIN Loads, NEW v \in mine \cup {w.at}, Covers(l, v)
       PROVE  UpTo(asked'[l], held'[l], last'[l], v)
  <2>1. v \in 2..Len(log)
    BY <1>5, <1>7 DEF Shows
  <2>2. v \in Nat /\ v <= Len(log)
    BY <1>6, <2>1
  <2>3. CASE l \in P
    <3>1. held'[l] = w.at /\ last'[l] # "waits"
          /\ (last'[l] = "shown" => ~\E u \in mine : u > w.at)
      BY <1>9, <1>10, <2>3
    <3>2. last'[l] = "shown" => w.at >= v
      BY <1>6, <2>2, <3>1
    <3> QED BY <3>1, <3>2 DEF UpTo
  <2>4. CASE l \notin P /\ l \in R
    BY <1>8, <1>9, <2>2, <2>4 DEF UpTo
  <2>5. CASE l \notin P /\ l \notin R
    <3>1. asked'[l] = asked[l] /\ last'[l] = last[l] /\ held'[l] = held[l]
      BY <1>8, <1>9, <1>10, <2>5
    <3>2. v # w.at
      <4>1. \/ Acts[w.act].route.changes \cap Loads[l].shows = {}
            \/ l \in R \cup P \/ <<page, w.act, l>> \in StaleLists
        BY <1>5, PagesAssumption DEF BrowserInv, PageHeld, Reloads, Acts, Loads, R, P
      <4> QED BY <1>5, <1>14, <2>5, <4>1 DEF Covers
    <3> QED BY <1>7, <1>14, <3>1, <3>2 DEF Shows
  <2> QED BY <2>3, <2>4, <2>5
<1>15. Shows'
  <2>1. mine' \subseteq 2..Len(log')
    BY <1>1, <1>5, <1>7 DEF Shows
  <2>2. \A l \in DOMAIN Loads, v \in mine : Covers(l, v)' <=> Covers(l, v)
    BY <1>1, <1>11 DEF Covers
  <2>3. \A l \in DOMAIN Loads : Covers(l, w.at)' <=> Covers(l, w.at)
    BY <1>1, <1>11 DEF Covers
  <2> QED BY <1>1, <1>11, <1>14, <2>1, <2>2, <2>3 DEF Shows
<1> QED BY <1>1, <1>2, <1>4, <1>12, <1>13, <1>15, VerdictsStay, PageStays DEF BrowserInv, ListsInv

\* A failure is told, or its lists asked for again, or the page is known to say nothing.
LEMMA FailsKeeps ==
  ASSUME BrowserInv, NEW w \in writes, Fails(w)
  PROVE  BrowserInv'
<1> DEFINE how == Acts[w.act].failure
           tells == how = "told" \/ (how = "told if chosen" /\ chosen > 0)
<1>1. /\ writes' = writes \ {w}
      /\ told' = IF tells THEN told \cup {w.act} ELSE told
      /\ failed' = IF how = "reloads" THEN failed ELSE failed \cup {w.act}
      /\ Ask(Acts[w.act].reloads) \/ UNCHANGED <<asked, last>>
      /\ UNCHANGED <<page, role, log, held, chosen, mine, dead, barred, counters>>
  BY DEF Fails
<1>2. chosen' \in Nat /\ chosen' >= chosen /\ presses' \in Nat /\ chosen \in Nat
  <2>1. UNCHANGED <<chosen, counters>>
    BY DEF Fails
  <2> QED BY <2>1 DEF BrowserInv, WritesHeld, counters
<1>3. LogHeld' /\ Longer
  BY <1>1, LogStays DEF BrowserInv
<1>4. ListsInv'
  <2>1. CASE Ask(Acts[w.act].reloads)
    BY <1>1, <2>1, AskKeeps DEF BrowserInv
  <2>2. CASE UNCHANGED <<asked, last>>
    BY <1>1, <1>3, <2>2, ListsStay DEF BrowserInv
  <2> QED BY <1>1, <2>1, <2>2
<1>5. WritesHeld'
  BY <1>1, <1>2, <1>3, WritesStay DEF BrowserInv, WritesHeld
<1>6. w.act \in DOMAIN Acts /\ SeenBy(w)
  BY DEF BrowserInv, WritesHeld, WriteHeld
<1>7. how = "reloads" \/ tells \/ <<page, w.act>> \in Silences
  <2>1. \/ how \in {"told", "reloads"}
        \/ how = "told if chosen" /\ Screen.buttons[w.act].level > 0
        \/ <<page, w.act>> \in Silences
    BY <1>6, PagesAssumption DEF BrowserInv, PageHeld, Speaks, Screen, Acts
  <2>2. Screen.buttons[w.act].level \in Nat /\ chosen >= Screen.buttons[w.act].level
    BY <1>6, PagesAssumption DEF BrowserInv, PageHeld, Wired, Screen, Acts, SeenBy
  <2>3. Screen.buttons[w.act].level > 0 => chosen > 0
    BY <1>2, <2>2
  <2> HIDE DEF how
  <2> QED BY <2>1, <2>3
<1> HIDE DEF how, tells
<1>8. NoneSilent'
  BY <1>1, <1>7 DEF BrowserInv, VerdictsInv, NoneSilent
<1>9. VerdictsInv'
  BY <1>1, <1>8 DEF BrowserInv, VerdictsInv, NoDeadButton, RolesCanWork
<1> QED BY <1>1, <1>3, <1>4, <1>5, <1>9, PageStays DEF BrowserInv

LEMMA OtherKeeps ==
  ASSUME BrowserInv, NEW a \in DOMAIN Acts, Other(a)
  PROVE  BrowserInv'
<1>1. UNCHANGED <<page, role, held, asked, last, chosen, writes, mine, verdicts, presses>>
  BY DEF Other
<1>2. PICK s \in Outcomes(a) : log' = Change(a, s)
  BY DEF Other
<1>3. LogHeld' /\ Longer
  BY <1>1, <1>2, LogGrows DEF BrowserInv
<1>4. ListsInv'
  BY <1>1, <1>3, ListsStay DEF BrowserInv
<1>5. chosen' \in Nat /\ chosen' >= chosen /\ presses' \in Nat
  BY <1>1 DEF BrowserInv, WritesHeld
<1>6. WritesHeld'
  BY <1>1, <1>3, <1>5, WritesStay DEF BrowserInv, WritesHeld
<1> QED BY <1>1, <1>3, <1>4, <1>6, VerdictsStay, PageStays DEF BrowserInv

LEMMA NextBrowser == BrowserInv /\ [BrowserNext]_browserVars => BrowserInv'
<1> SUFFICES ASSUME BrowserInv, [BrowserNext]_browserVars PROVE BrowserInv'
  OBVIOUS
<1>1. CASE Choose
  BY <1>1, ChooseKeeps
<1>2. ASSUME NEW l \in DOMAIN Loads, Arrive(l) \/ LoadFails(l) \/ Poll(l) PROVE BrowserInv'
  BY <1>2, ArriveKeeps, LoadFailsKeeps, PollKeeps
<1>3. ASSUME NEW a \in DOMAIN Acts, Press(a) \/ Other(a) PROVE BrowserInv'
  BY <1>3, PressKeeps, OtherKeeps
<1>4. ASSUME NEW w \in writes, Serve(w) \/ Refuse(w) \/ Lose(w) \/ Succeeds(w) \/ Fails(w)
      PROVE  BrowserInv'
  BY <1>4, ServeKeeps, RefuseKeeps, LoseKeeps, SucceedsKeeps, FailsKeeps
<1>5. CASE UNCHANGED browserVars
  <2>1. /\ UNCHANGED <<page, role, log, held, asked, last, chosen, writes, mine>>
        /\ UNCHANGED <<failed, told, dead, barred, presses, troubles>>
    BY <1>5 DEF browserVars, verdicts, counters
  <2>2. LogHeld' /\ Longer
    BY <2>1, LogStays DEF BrowserInv
  <2>3. ListsInv'
    BY <2>1, <2>2, ListsStay DEF BrowserInv
  <2>4. chosen' \in Nat /\ chosen' >= chosen /\ presses' \in Nat
    BY <2>1 DEF BrowserInv, WritesHeld
  <2>5. WritesHeld'
    BY <2>1, <2>2, <2>4, WritesStay DEF BrowserInv, WritesHeld
  <2>6. VerdictsInv'
    BY <2>1, VerdictsStay DEF BrowserInv, verdicts
  <2> QED BY <2>1, <2>2, <2>3, <2>5, <2>6, PageStays DEF BrowserInv
<1> QED BY <1>1, <1>2, <1>3, <1>4, <1>5 DEF BrowserNext

LEMMA BrowserStarts == BrowserInit => BrowserInv
<1> SUFFICES ASSUME BrowserInit PROVE BrowserInv
  OBVIOUS
<1>1. PageHeld
  BY DEF BrowserInit, PageHeld
<1>2. PICK s \in Statuses(page) : log = <<[status |-> s, changes |-> {}, act |-> None]>>
  BY DEF BrowserInit
<1>3. log \in Seq(Version) /\ Len(log) = 1
  <2> DEFINE x == [status |-> s, changes |-> {}, act |-> None]
  <2>1. x \in Version
    BY DEF Version
  <2>2. log = <<x>>
    BY <1>2
  <2> HIDE DEF x
  <2> QED BY <2>1, <2>2
<1>4. LogHeld
  BY <1>3 DEF LogHeld
<1>5. \A l \in DOMAIN Loads : Loads[l].starts \in {Loading, Empty}
  BY <1>1, PagesAssumption DEF PageHeld, Wired, Loads
<1>6. /\ held = [l \in DOMAIN Loads |-> Loads[l].starts]
      /\ asked = [l \in DOMAIN Loads |-> IF l \in LoadsAt(0) THEN <<1>> ELSE <<>>]
      /\ last = [l \in DOMAIN Loads |-> "waits"]
      /\ chosen = 0 /\ writes = {} /\ mine = {} /\ failed = {} /\ told = {}
      /\ dead = {} /\ barred = {} /\ presses = 0
  BY DEF BrowserInit
<1>7. ListsHeld
  <2>1. <<1>> \in Seq(Nat \ {0}) /\ <<>> \in Seq(Nat \ {0})
    OBVIOUS
  <2>2. asked \in [DOMAIN Loads -> Seq(Nat \ {0})]
    BY <1>6, <2>1
  <2>3. held \in [DOMAIN Loads -> Int] /\ \A l \in DOMAIN Loads : held[l] <= 1
    BY <1>5, <1>6 DEF Loading, Empty
  <2>4. last \in [DOMAIN Loads -> {"waits", "shown", "failed", "overtaken"}]
    BY <1>6
  <2> QED BY <1>3, <2>2, <2>3, <2>4 DEF ListsHeld
<1>8. NoneEmptied
  BY <1>6 DEF NoneEmptied
<1>9. Shows
  BY <1>6 DEF Shows
<1>10. WritesHeld
  BY <1>6 DEF WritesHeld
<1>11. VerdictsInv
  BY <1>6 DEF VerdictsInv, NoDeadButton, RolesCanWork, NoneSilent
<1> QED BY <1>1, <1>4, <1>7, <1>8, <1>9, <1>10, <1>11 DEF BrowserInv, ListsInv

LEMMA BrowserKeeps == BrowserSpec => []BrowserInv
<1> QED BY BrowserStarts, NextBrowser, PTL DEF BrowserSpec

\* A list shows what its page was told that it made (the reloads after a button, the
\* answers put in a list, and the requests still in flight, in any order).
THEOREM ListsAreReloaded == BrowserSpec => []WritesAreShown
<1>1. BrowserInv => WritesAreShown
  <2> SUFFICES ASSUME BrowserInv, NEW l \in DOMAIN Loads, NEW v \in mine,
                      last[l] = "shown", log[v].changes \cap Loads[l].shows # {}
               PROVE  held[l] >= v \/ <<page, log[v].act, l>> \in StaleLists
    BY DEF WritesAreShown
  <2> QED BY DEF BrowserInv, ListsInv, Shows, Covers, UpTo
<1> QED BY <1>1, BrowserKeeps, PTL

\* No button is refused for the status its row is shown with: the rows it is offered on are
\* in statuses that its route accepts.
THEOREM ButtonsAreAlive == BrowserSpec => []NoDeadButton
<1>1. BrowserInv => NoDeadButton
  BY DEF BrowserInv, VerdictsInv
<1> QED BY <1>1, BrowserKeeps, PTL

\* No role whose work a page is for is refused what the page loads and sends.
THEOREM DoorsAreOpen == BrowserSpec => []RolesCanWork
<1>1. BrowserInv => RolesCanWork
  BY DEF BrowserInv, VerdictsInv
<1> QED BY <1>1, BrowserKeeps, PTL

\* Whatever fails is told, and no failure passes for an empty list.
THEOREM FailuresAreTold == BrowserSpec => []NothingIsHidden
<1>1. BrowserInv => NothingIsHidden
  <2> SUFFICES ASSUME BrowserInv PROVE NothingIsHidden
    OBVIOUS
  <2>1. \A a \in failed \ told : <<page, a>> \in Silences
    BY DEF BrowserInv, VerdictsInv, NoneSilent
  <2>2. ASSUME NEW l \in Screen.none, held[l] = Empty PROVE <<page, l>> \in Silences
    <3>1. l \in DOMAIN Loads
      BY PagesAssumption DEF BrowserInv, PageHeld, Wired, Screen, Loads
    <3>2. Loads[l].starts = Empty \/ Loads[l].failure = "emptied"
      BY <2>2, <3>1 DEF BrowserInv, ListsInv, NoneEmptied
    <3> QED BY <3>2, PagesAssumption DEF BrowserInv, PageHeld, Speaks, Screen, Loads
  <2> QED BY <2>1, <2>2 DEF NothingIsHidden
<1> QED BY <1>1, BrowserKeeps, PTL
=============================================================================
