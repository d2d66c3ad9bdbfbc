-------------------------- MODULE DeliveriesProofs --------------------------
(***************************************************************************)
(* Proofs about Deliveries: the inductive invariant and the properties it  *)
(* implies.                                                                *)
(***************************************************************************)
EXTENDS Deliveries, TLAPS

(***************************************************************************)
(* What the place of a call says of its own request and of its delivery.   *)
(***************************************************************************)
CallOK(c) ==
  LET d == call[c].d
  IN /\ call[c].at = "update" =>
          call[c].to \in Requested /\ call[c].to \in Allowed(call[c].from)
     /\ call[c].at = "proof" => call[c].from = "IN_TRANSIT"
     /\ c \in Proofs /\ call[c].at \in {"proof", "trace"} => call[c].to = "DELIVERED"
     /\ c \in Proofs => call[c].at # "update"
     /\ call[c].at \in {"proof", "fee", "link"} => c \in Proofs
     /\ c \in Proofs /\ call[c].at \in {"trace", "fee", "link"} => proof[d]
     /\ call[c].at = "fee" => FeeDue[d]
     /\ call[c].at = "link" => fees[d] > 0

CallsOK == \A c \in Calls : CallOK(c)

\* The fee is charged of what has its proof, and what names an entry has one.
FeeOK == \A d \in Deliveries : (fees[d] > 0 => proof[d] /\ FeeDue[d]) /\ (linked[d] => fees[d] > 0)

\* Proofs that have been filed and may still charge the fee.
Charging(d) == {c \in Proofs : call[c].at \in {"trace", "fee"} /\ call[c].d = d}

(***************************************************************************)
(* While no calls have crossed on a delivery, a call about to write it is  *)
(* alone and the status is the one it read; a proof that may charge is     *)
(* alone, of a DELIVERED delivery, and the first to charge.                *)
(***************************************************************************)
Alone(d) ==
  /\ \A c \in Deciding(d) : status[d] = call[c].from
  /\ \A c, e \in Deciding(d) : c = e
  /\ \A c \in Charging(d) : status[d] = "DELIVERED" /\ fees[d] = 0
  /\ \A c, e \in Charging(d) : c = e
  /\ fees[d] > 0 => status[d] = "DELIVERED"
  /\ fees[d] <= 1

AllAlone == \A d \in Deliveries : d \notin crossed => Alone(d)

(***************************************************************************)
(* A status missing in the history is about to be added by some call.      *)
(***************************************************************************)
Traced ==
  faults = 0 =>
    \A d \in Deliveries : status[d] # "absent" =>
      \/ status[d] \in history[d]
      \/ \E c \in Calls : call[c].at = "trace" /\ call[c].d = d /\ call[c].to = status[d]

IInv ==
  /\ TypeOK
  /\ CallsOK
  /\ FeeOK
  /\ DeliveredHasProof
  /\ AllAlone
  /\ Traced

-----------------------------------------------------------------------------
\* A call that moves on keeps its request, and the other calls stay.
LEMMA GotoFacts ==
  ASSUME TypeOK, NEW c \in Calls, NEW p, Goto(c, p)
  PROVE  /\ call' = [e \in Calls |-> IF e = c THEN [call[c] EXCEPT !.at = p] ELSE call[e]]
         /\ call'[c] = [call[c] EXCEPT !.at = p]
         /\ call'[c].at = p /\ call'[c].d = call[c].d
         /\ call'[c].from = call[c].from /\ call'[c].to = call[c].to
         /\ \A e \in Calls : e # c => call'[e] = call[e]
BY DEF Goto, TypeOK

\* A restart ends the calls that run.
LEMMA CrashFacts ==
  ASSUME TypeOK, Crash
  PROVE  \A c \in Calls : /\ call'[c].at \in {"idle", "ended"}
                          /\ call'[c].d = call[c].d
                          /\ call'[c].from = call[c].from /\ call'[c].to = call[c].to
<1> SUFFICES ASSUME NEW c \in Calls
             PROVE  /\ call'[c].at \in {"idle", "ended"}
                    /\ call'[c].d = call[c].d
                    /\ call'[c].from = call[c].from /\ call'[c].to = call[c].to
  OBVIOUS
<1>1. call'[c] = IF Running(c) THEN [call[c] EXCEPT !.at = "ended"] ELSE call[c]
  BY DEF Crash
<1>2. QED
  BY <1>1 DEF Running, TypeOK

\* The initial states.
LEMMA InitIInv == Init => IInv
<1> SUFFICES ASSUME Init PROVE IInv
  OBVIOUS
<1>1. (CHOOSE d \in Deliveries : TRUE) \in Deliveries
  BY DeliveriesAssumption
<1>2. TypeOK
  BY <1>1, DeliveriesAssumption DEF Init, TypeOK, Call, Status
<1>3. \A c \in Calls : call[c].at = "idle"
  BY DEF Init, Call
<1>4. CallsOK
  BY <1>3 DEF CallsOK, CallOK
<1>5. FeeOK /\ DeliveredHasProof
  BY DEF Init, FeeOK, DeliveredHasProof
<1>6. AllAlone
  <2> SUFFICES ASSUME NEW d \in Deliveries PROVE Alone(d)
    BY DEF AllAlone
  <2>1. Deciding(d) = {} /\ Charging(d) = {}
    BY <1>3 DEF Deciding, Charging, Calls
  <2>2. fees[d] = 0
    BY DEF Init
  <2>3. QED
    BY <2>1, <2>2 DEF Alone
<1>7. Traced
  BY DEF Init, Traced
<1>8. QED
  BY <1>2, <1>4, <1>5, <1>6, <1>7 DEF IInv

-----------------------------------------------------------------------------
\* Every step keeps the types.
LEMMA TypeStep ==
  ASSUME TypeOK, CallsOK, [Next]_vars
  PROVE  TypeOK'
<1> USE DeliveriesAssumption
<1>1. ASSUME NEW d \in Deliveries, Create(d)
      PROVE  TypeOK'
  BY <1>1 DEF Create, TypeOK, Status
<1>2. ASSUME NEW c \in Assigns, NEW d \in Deliveries, AssignRead(c, d)
      PROVE  TypeOK'
  BY <1>2 DEF AssignRead, TypeOK, Call, Calls, Status
<1>3. ASSUME NEW c \in Assigns, AssignWrite(c)
      PROVE  TypeOK'
  BY <1>3 DEF AssignWrite, TypeOK, Goto, Calls
<1>4. ASSUME NEW c \in Updates, NEW d \in Deliveries, NEW u \in Users, NEW to \in Status,
             UpdateRead(c, d, u, to)
      PROVE  TypeOK'
  BY <1>4 DEF UpdateRead, NoteCrossing, TypeOK, Call, Calls
<1>5. ASSUME NEW c \in Updates, UpdateWrite(c)
      PROVE  TypeOK'
  BY <1>5 DEF UpdateWrite, TypeOK, Goto, Calls
<1>6. ASSUME NEW c \in Proofs, NEW d \in Deliveries, NEW u \in Users, ProofRead(c, d, u)
      PROVE  TypeOK'
  BY <1>6 DEF ProofRead, NoteCrossing, TypeOK, Call, Calls, Status
<1>7. ASSUME NEW c \in Proofs, ProofWrite(c)
      PROVE  TypeOK'
  BY <1>7 DEF ProofWrite, TypeOK, Goto, Calls, Status
<1>8. ASSUME NEW c \in Updates \cup Proofs, Trace(c)
      PROVE  TypeOK'
  <2>1. c \in Calls
    BY DEF Calls
  <2>2. PICK p \in {"ended", "fee", "loss"} : Goto(c, p)
    BY <1>8 DEF Trace
  <2>3. call' \in [Calls -> [at: {"idle", "assign", "update", "proof", "trace", "fee", "link",
                                  "loss", "ended"}, d: Deliveries, from: Status, to: Status]]
    BY <2>1, <2>2 DEF TypeOK, Goto
  <2>4. history' \in [Deliveries -> SUBSET Status]
    BY <1>8, <2>1 DEF Trace, TypeOK
  <2>5. QED
    BY <1>8, <2>3, <2>4 DEF Trace, TypeOK
<1>9. ASSUME NEW c \in Proofs, PostFee(c)
      PROVE  TypeOK'
  BY <1>9 DEF PostFee, TypeOK, Goto, Calls
<1>10. ASSUME NEW c \in Proofs, LinkFee(c) \/ LinkFails(c)
       PROVE  TypeOK'
  <2>1. CASE LinkFee(c)
    BY <2>1 DEF LinkFee, TypeOK, Goto, Calls
  <2>2. CASE LinkFails(c)
    <3>1. faults' \in 0..MaxFaults
      BY <2>2 DEF LinkFails, Fault, TypeOK
    <3>2. QED
      BY <2>2, <3>1 DEF LinkFails, TypeOK, Goto, Calls
  <2>3. QED
    BY <1>10, <2>1, <2>2
<1>11. ASSUME NEW c \in Updates, PostLoss(c)
       PROVE  TypeOK'
  BY <1>11 DEF PostLoss, TypeOK, Goto, Calls
<1>12. CASE Crash
  BY <1>12 DEF Crash, Fault, TypeOK, Running
<1>13. CASE UNCHANGED vars
  BY <1>13 DEF vars, TypeOK
<1>14. QED
  BY <1>1, <1>2, <1>3, <1>4, <1>5, <1>6, <1>7, <1>8, <1>9, <1>10, <1>11, <1>12, <1>13 DEF Next

-----------------------------------------------------------------------------
\* A call that does not move keeps what its place says: proofs and fees stay.
LEMMA CallKept ==
  ASSUME TypeOK, NEW e \in Calls, CallOK(e), call'[e] = call[e],
         \A d \in Deliveries : proof[d] => proof'[d],
         \A d \in Deliveries : fees[d] > 0 => fees'[d] > 0
  PROVE  CallOK(e)'
<1>1. call[e].d \in Deliveries
  BY DEF TypeOK
<1>2. QED
  BY <1>1 DEF CallOK

\* Every step keeps what the places of the calls say.
LEMMA CallsStep ==
  ASSUME TypeOK, CallsOK, [Next]_vars
  PROVE  CallsOK'
<1> USE DeliveriesAssumption
<1>0. /\ \A c \in Calls : CallOK(c) /\ call[c].d \in Deliveries
      /\ \A c \in Updates : c \in Calls /\ c \notin Proofs
      /\ \A c \in Proofs : c \in Calls
      /\ \A c \in Assigns : c \in Calls /\ c \notin Proofs
  BY DEF CallsOK, TypeOK, Calls
<1> DEFINE Kept == /\ \A d \in Deliveries : proof[d] => proof'[d]
                   /\ \A d \in Deliveries : fees[d] > 0 => fees'[d] > 0
<1>a. ASSUME NEW c \in Calls, Kept, CallOK(c)', \A e \in Calls : e # c => call'[e] = call[e]
      PROVE  CallsOK'
  <2>1. ASSUME NEW e \in Calls, e # c PROVE CallOK(e)'
    BY <1>0, <1>a, <2>1, CallKept
  <2>2. QED
    BY <1>a, <2>1 DEF CallsOK
<1>b. ASSUME Kept, call' = call
      PROVE  CallsOK'
  BY <1>0, <1>b, CallKept DEF CallsOK
<1>1. ASSUME NEW d \in Deliveries, Create(d)
      PROVE  CallsOK'
  BY <1>1, <1>b DEF Create
<1>2. ASSUME NEW c \in Assigns, NEW d \in Deliveries, AssignRead(c, d)
      PROVE  CallsOK'
  <2>1. Kept /\ c \in Calls /\ c \notin Proofs
    BY <1>0, <1>2 DEF AssignRead
  <2>2. /\ call'[c].at = "assign" /\ \A e \in Calls : e # c => call'[e] = call[e]
    BY <1>2, <2>1 DEF AssignRead, Call, TypeOK
  <2>3. CallOK(c)'
    BY <2>1, <2>2 DEF CallOK
  <2>4. QED
    BY <1>a, <2>1, <2>2, <2>3
<1>3. ASSUME NEW c \in Assigns, AssignWrite(c)
      PROVE  CallsOK'
  <2>1. Kept /\ c \in Calls /\ Goto(c, "ended")
    BY <1>0, <1>3 DEF AssignWrite
  <2>2. call'[c].at = "ended" /\ \A e \in Calls : e # c => call'[e] = call[e]
    BY <2>1, GotoFacts
  <2>3. CallOK(c)'
    BY <2>2 DEF CallOK
  <2>4. QED
    BY <1>a, <2>1, <2>2, <2>3
<1>4. ASSUME NEW c \in Updates, NEW d \in Deliveries, NEW u \in Users, NEW to \in Status,
             UpdateRead(c, d, u, to)
      PROVE  CallsOK'
  <2>1. Kept /\ c \in Calls /\ c \notin Proofs
    BY <1>0, <1>4 DEF UpdateRead
  <2>2. /\ call'[c].at = "update" /\ call'[c].from = status[d] /\ call'[c].to = to
        /\ \A e \in Calls : e # c => call'[e] = call[e]
    <3>1. call' = [call EXCEPT ![c] = Call("update", d, status[d], to)]
      BY <1>4 DEF UpdateRead
    <3>2. QED
      BY <2>1, <3>1 DEF Call, TypeOK
  <2>3. to \in Requested /\ to \in Allowed(status[d])
    BY <1>4 DEF UpdateRead
  <2>4. CallOK(c)'
    BY <2>1, <2>2, <2>3 DEF CallOK, Allowed, Requested
  <2>5. QED
    BY <1>a, <2>1, <2>2, <2>4
<1>5. ASSUME NEW c \in Updates, UpdateWrite(c)
      PROVE  CallsOK'
  <2>1. Kept /\ c \in Calls /\ c \notin Proofs /\ Goto(c, "trace")
    BY <1>0, <1>5 DEF UpdateWrite
  <2>2. call'[c].at = "trace" /\ \A e \in Calls : e # c => call'[e] = call[e]
    BY <2>1, GotoFacts
  <2>3. CallOK(c)'
    BY <2>1, <2>2 DEF CallOK
  <2>4. QED
    BY <1>a, <2>1, <2>2, <2>3
<1>6. ASSUME NEW c \in Proofs, NEW d \in Deliveries, NEW u \in Users, ProofRead(c, d, u)
      PROVE  CallsOK'
  <2>1. Kept /\ c \in Calls
    BY <1>0, <1>6 DEF ProofRead
  <2>2. /\ call'[c].at = "proof" /\ call'[c].from = "IN_TRANSIT" /\ call'[c].to = "DELIVERED"
        /\ \A e \in Calls : e # c => call'[e] = call[e]
    BY <1>6, <2>1 DEF ProofRead, Call, TypeOK
  <2>3. /\ call'[c].at \notin {"update", "trace", "fee", "link"}
        /\ call'[c].from = "IN_TRANSIT" /\ call'[c].to = "DELIVERED" /\ c \in Proofs
    BY <2>2
  <2>4. CallOK(c)'
    BY <2>3 DEF CallOK
  <2>5. QED
    BY <1>a, <2>1, <2>2, <2>4
<1>7. ASSUME NEW c \in Proofs, ProofWrite(c)
      PROVE  CallsOK'
  <2>1. c \in Calls /\ Goto(c, "trace") /\ call[c].at = "proof" /\ CallOK(c)
    BY <1>0, <1>7 DEF ProofWrite
  <2>2. Kept /\ proof'[call[c].d]
    BY <1>0, <1>7, <2>1 DEF ProofWrite, TypeOK
  <2>3. /\ call'[c].at = "trace" /\ call'[c].d = call[c].d /\ call'[c].to = call[c].to
        /\ \A e \in Calls : e # c => call'[e] = call[e]
    BY <2>1, GotoFacts
  <2>4. CallOK(c)'
    BY <2>1, <2>2, <2>3 DEF CallOK
  <2>5. QED
    BY <1>a, <2>1, <2>2, <2>3, <2>4
<1>8. ASSUME NEW c \in Updates \cup Proofs, Trace(c)
      PROVE  CallsOK'
  <2>1. Kept /\ c \in Calls /\ call[c].at = "trace" /\ CallOK(c)
    BY <1>0, <1>8 DEF Trace
  <2>2. PICK p \in {"ended", "fee", "loss"} :
           Goto(c, p) /\ (p = "fee" => c \in Proofs /\ FeeDue[call[c].d])
    BY <1>8 DEF Trace
  <2>3. /\ call'[c].at = p /\ call'[c].d = call[c].d
        /\ \A e \in Calls : e # c => call'[e] = call[e]
    BY <2>1, <2>2, GotoFacts
  <2>4. proof' = proof
    BY <1>8 DEF Trace
  <2>5. CallOK(c)'
    BY <2>1, <2>2, <2>3, <2>4 DEF CallOK
  <2>6. QED
    BY <1>a, <2>1, <2>3, <2>5
<1>9. ASSUME NEW c \in Proofs, PostFee(c)
      PROVE  CallsOK'
  <2>1. c \in Calls /\ call[c].at = "fee" /\ CallOK(c) /\ call[c].d \in Deliveries
    BY <1>0, <1>9 DEF PostFee
  <2>2. Kept
    BY <1>9, <2>1 DEF PostFee, TypeOK
  <2>3. PICK p \in {"link", "ended"} :
           Goto(c, p) /\ (p = "link" => fees'[call[c].d] > 0)
    BY <1>9, <2>1 DEF PostFee, TypeOK
  <2>4. /\ call'[c].at = p /\ call'[c].d = call[c].d
        /\ \A e \in Calls : e # c => call'[e] = call[e]
    BY <2>1, <2>3, GotoFacts
  <2>5. proof' = proof
    BY <1>9 DEF PostFee
  <2>6. CallOK(c)'
    BY <2>1, <2>3, <2>4, <2>5 DEF CallOK
  <2>7. QED
    BY <1>a, <2>1, <2>2, <2>4, <2>6
<1>10. ASSUME NEW c \in Proofs, LinkFee(c) \/ LinkFails(c)
       PROVE  CallsOK'
  <2>1. Kept /\ c \in Calls /\ Goto(c, "ended")
    BY <1>0, <1>10 DEF LinkFee, LinkFails
  <2>2. call'[c].at = "ended" /\ \A e \in Calls : e # c => call'[e] = call[e]
    BY <2>1, GotoFacts
  <2>3. CallOK(c)'
    BY <2>2 DEF CallOK
  <2>4. QED
    BY <1>a, <2>1, <2>2, <2>3
<1>11. ASSUME NEW c \in Updates, PostLoss(c)
       PROVE  CallsOK'
  <2>1. Kept /\ c \in Calls /\ Goto(c, "ended")
    BY <1>0, <1>11 DEF PostLoss
  <2>2. call'[c].at = "ended" /\ \A e \in Calls : e # c => call'[e] = call[e]
    BY <2>1, GotoFacts
  <2>3. CallOK(c)'
    BY <2>2 DEF CallOK
  <2>4. QED
    BY <1>a, <2>1, <2>2, <2>3
<1>12. CASE Crash
  BY <1>12, CrashFacts DEF CallsOK, CallOK
<1>13. CASE UNCHANGED vars
  BY <1>13, <1>b DEF vars
<1>14. QED
  BY <1>1, <1>2, <1>3, <1>4, <1>5, <1>6, <1>7, <1>8, <1>9, <1>10, <1>11, <1>12, <1>13 DEF Next

-----------------------------------------------------------------------------
\* Every step keeps proofs before fees and before DELIVERED.
LEMMA FeeStep ==
  ASSUME TypeOK, CallsOK, FeeOK, DeliveredHasProof, [Next]_vars
  PROVE  FeeOK' /\ DeliveredHasProof'
<1> USE DeliveriesAssumption
<1>0. /\ \A c \in Calls : CallOK(c) /\ call[c].d \in Deliveries
      /\ \A c \in Updates : c \in Calls
      /\ \A c \in Proofs : c \in Calls
  BY DEF CallsOK, TypeOK, Calls
<1>1. ASSUME NEW d \in Deliveries, Create(d)
      PROVE  FeeOK' /\ DeliveredHasProof'
  BY <1>1 DEF Create, FeeOK, DeliveredHasProof, TypeOK
<1>2. ASSUME NEW c \in Assigns, NEW d \in Deliveries, AssignRead(c, d)
      PROVE  FeeOK' /\ DeliveredHasProof'
  BY <1>2 DEF AssignRead, FeeOK, DeliveredHasProof
<1>3. ASSUME NEW c \in Assigns, AssignWrite(c)
      PROVE  FeeOK' /\ DeliveredHasProof'
  BY <1>3 DEF AssignWrite, FeeOK, DeliveredHasProof
<1>4. ASSUME NEW c \in Updates, NEW d \in Deliveries, NEW u \in Users, NEW to \in Status,
             UpdateRead(c, d, u, to)
      PROVE  FeeOK' /\ DeliveredHasProof'
  BY <1>4 DEF UpdateRead, FeeOK, DeliveredHasProof
<1>5. ASSUME NEW c \in Updates, UpdateWrite(c)
      PROVE  FeeOK' /\ DeliveredHasProof'
  <2>1. call[c].to # "DELIVERED"
    BY <1>0, <1>5 DEF UpdateWrite, CallOK, Requested
  <2>2. DeliveredHasProof'
    BY <1>5, <2>1 DEF UpdateWrite, DeliveredHasProof, TypeOK
  <2>3. FeeOK'
    BY <1>5 DEF UpdateWrite, FeeOK
  <2>4. QED
    BY <2>2, <2>3
<1>6. ASSUME NEW c \in Proofs, NEW d \in Deliveries, NEW u \in Users, ProofRead(c, d, u)
      PROVE  FeeOK' /\ DeliveredHasProof'
  BY <1>6 DEF ProofRead, FeeOK, DeliveredHasProof
<1>7. ASSUME NEW c \in Proofs, ProofWrite(c)
      PROVE  FeeOK' /\ DeliveredHasProof'
  BY <1>0, <1>7 DEF ProofWrite, FeeOK, DeliveredHasProof, TypeOK
<1>8. ASSUME NEW c \in Updates \cup Proofs, Trace(c)
      PROVE  FeeOK' /\ DeliveredHasProof'
  BY <1>8 DEF Trace, FeeOK, DeliveredHasProof
<1>9. ASSUME NEW c \in Proofs, PostFee(c)
      PROVE  FeeOK' /\ DeliveredHasProof'
  <2>1. proof[call[c].d] /\ FeeDue[call[c].d]
    BY <1>0, <1>9 DEF PostFee, CallOK
  <2>2. FeeOK'
    BY <1>0, <1>9, <2>1 DEF PostFee, FeeOK, TypeOK
  <2>3. DeliveredHasProof'
    BY <1>9 DEF PostFee, DeliveredHasProof
  <2>4. QED
    BY <2>2, <2>3
<1>10. ASSUME NEW c \in Proofs, LinkFee(c) \/ LinkFails(c)
       PROVE  FeeOK' /\ DeliveredHasProof'
  <2>1. fees[call[c].d] > 0
    BY <1>0, <1>10 DEF LinkFee, LinkFails, CallOK
  <2>2. FeeOK'
    BY <1>10, <2>1 DEF LinkFee, LinkFails, FeeOK, TypeOK
  <2>3. DeliveredHasProof'
    BY <1>10 DEF LinkFee, LinkFails, DeliveredHasProof
  <2>4. QED
    BY <2>2, <2>3
<1>11. ASSUME NEW c \in Updates, PostLoss(c)
       PROVE  FeeOK' /\ DeliveredHasProof'
  BY <1>11 DEF PostLoss, FeeOK, DeliveredHasProof
<1>12. CASE Crash
  BY <1>12 DEF Crash, FeeOK, DeliveredHasProof
<1>13. CASE UNCHANGED vars
  BY <1>13 DEF vars, FeeOK, DeliveredHasProof
<1>14. QED
  BY <1>1, <1>2, <1>3, <1>4, <1>5, <1>6, <1>7, <1>8, <1>9, <1>10, <1>11, <1>12, <1>13 DEF Next

-----------------------------------------------------------------------------
\* A step that leaves a delivery alone, and adds no call about to write or charge, keeps Alone.
LEMMA AloneKept ==
  ASSUME NEW d \in Deliveries, Alone(d),
         status'[d] = status[d], fees'[d] = fees[d],
         \A e \in Deciding(d)' : e \in Deciding(d) /\ call'[e].from = call[e].from,
         \A e \in Charging(d)' : e \in Charging(d)
  PROVE  Alone(d)'
<1>1. \A e \in Deciding(d)' : status'[d] = call'[e].from
  BY DEF Alone
<1>2. \A e, f \in Deciding(d)' : e = f
  BY DEF Alone
<1>3. \A e \in Charging(d)' : status'[d] = "DELIVERED" /\ fees'[d] = 0
  BY DEF Alone
<1>4. \A e, f \in Charging(d)' : e = f
  BY DEF Alone
<1>5. (fees'[d] > 0 => status'[d] = "DELIVERED") /\ fees'[d] <= 1
  BY DEF Alone
<1>6. QED
  BY <1>1, <1>2, <1>3, <1>4, <1>5 DEF Alone

\* What a lone call about to write says of its delivery: nobody charges it.
LEMMA DecidingFacts ==
  ASSUME TypeOK, CallsOK, NEW d \in Deliveries, Alone(d), NEW c \in Deciding(d)
  PROVE  /\ status[d] # "DELIVERED" /\ fees[d] = 0
         /\ Charging(d) = {}
         /\ \A e \in Deciding(d) : e = c
<1>1. c \in Calls /\ CallOK(c) /\ call[c].at \in {"update", "proof"}
  BY DEF Deciding, CallsOK
<1>2. call[c].from # "DELIVERED"
  BY <1>1 DEF CallOK, Allowed
<1>3. status[d] # "DELIVERED"
  BY <1>2 DEF Alone
<1>4. QED
  BY <1>3 DEF Alone, TypeOK


\* Every step keeps Alone of what no calls have crossed on.
LEMMA AloneStep ==
  ASSUME TypeOK, CallsOK, AllAlone, [Next]_vars
  PROVE  AllAlone'
<1> USE DeliveriesAssumption
<1>0. /\ \A c \in Calls : CallOK(c) /\ call[c].d \in Deliveries
      /\ \A c \in Updates : c \in Calls /\ c \notin Proofs
      /\ \A c \in Proofs : c \in Calls
      /\ \A c \in Assigns : c \in Calls /\ c \notin Proofs
  BY DEF CallsOK, TypeOK, Calls
<1>d. crossed \subseteq crossed'
  BY DEF Next, vars, Create, AssignRead, AssignWrite, UpdateRead, UpdateWrite, NoteCrossing,
         ProofRead, ProofWrite, Trace, PostFee, LinkFee, LinkFails, PostLoss, Crash
<1> SUFFICES ASSUME NEW d \in Deliveries, d \notin crossed' PROVE Alone(d)'
  BY DEF AllAlone
<1>e. Alone(d) /\ d \notin crossed
  BY <1>d DEF AllAlone
\* A call that moves on elsewhere, or ends, takes nothing to the delivery.
<1>a. ASSUME NEW c \in Calls, NEW p, Goto(c, p),
             status'[d] = status[d], fees'[d] = fees[d],
             \/ call[c].d # d
             \/ p \in {"ended", "link", "loss"}
             \/ p = "fee" /\ call[c].at = "trace"
      PROVE  Alone(d)'
  <2>1. /\ call'[c].at = p /\ call'[c].d = call[c].d
        /\ call'[c].from = call[c].from
        /\ \A e \in Calls : e # c => call'[e] = call[e]
    BY <1>a, GotoFacts
  <2>2. \A e \in Deciding(d)' : e \in Deciding(d) /\ call'[e].from = call[e].from
    BY <1>a, <2>1 DEF Deciding
  <2>3. \A e \in Charging(d)' : e \in Charging(d)
    BY <1>0, <1>a, <2>1 DEF Charging
  <2>4. QED
    BY <1>a, <1>e, <2>2, <2>3, AloneKept
<1>b. ASSUME status'[d] = status[d], fees'[d] = fees[d], call' = call
      PROVE  Alone(d)'
  BY <1>b, <1>e, AloneKept DEF Deciding, Charging
\* A call that begins on the delivery reads its status, and no other is about to write.
<1>c. ASSUME NEW c \in Calls, call[c].at = "idle",
             call'[c].at \in {"assign", "update", "proof"},
             call'[c].from = status[call'[c].d],
             \A e \in Calls : e # c => call'[e] = call[e],
             call'[c].d = d /\ call'[c].at # "assign" => Deciding(d) = {},
             status'[d] = status[d], fees'[d] = fees[d]
      PROVE  Alone(d)'
  <2>1. \A e \in Charging(d)' : e \in Charging(d)
    BY <1>0, <1>c DEF Charging
  <2>2. CASE call'[c].d # d \/ call'[c].at = "assign"
    <3>1. \A e \in Deciding(d)' : e \in Deciding(d) /\ call'[e].from = call[e].from
      BY <1>c, <2>2 DEF Deciding
    <3>2. QED
      BY <1>c, <1>e, <2>1, <3>1, AloneKept
  <2>3. CASE call'[c].d = d /\ call'[c].at # "assign"
    <3>1. \A e \in Deciding(d)' : e = c
      BY <1>c, <2>3 DEF Deciding
    <3>2. \A e \in Deciding(d)' : status'[d] = call'[e].from
      BY <1>c, <2>3, <3>1
    <3>3. /\ \A e \in Charging(d)' : status'[d] = "DELIVERED" /\ fees'[d] = 0
          /\ \A e, f \in Charging(d)' : e = f
          /\ (fees'[d] > 0 => status'[d] = "DELIVERED") /\ fees'[d] <= 1
      BY <1>c, <1>e, <2>1 DEF Alone
    <3>4. QED
      BY <3>1, <3>2, <3>3 DEF Alone
  <2>4. QED
    BY <2>2, <2>3
<1>1. ASSUME NEW g \in Deliveries, Create(g)
      PROVE  Alone(d)'
  <2>1. CASE g # d
    BY <1>1, <1>b, <2>1 DEF Create, TypeOK
  <2>2. CASE g = d
    <3>1. Deciding(d) = {} /\ Charging(d) = {} /\ fees[d] = 0
      BY <1>1, <1>e, <2>2 DEF Create, Alone, Deciding, TypeOK, Status
    <3>2. Deciding(d)' = {} /\ Charging(d)' = {} /\ fees'[d] = 0
      BY <1>1, <3>1 DEF Create, Deciding, Charging
    <3>3. QED
      BY <3>2 DEF Alone
  <2>3. QED
    BY <2>1, <2>2
<1>2. ASSUME NEW c \in Assigns, NEW g \in Deliveries, AssignRead(c, g)
      PROVE  Alone(d)'
  <2>1. c \in Calls /\ call[c].at = "idle" /\ status[g] = "PENDING" /\ UNCHANGED <<status, fees>>
    BY <1>0, <1>2 DEF AssignRead
  <2>2. /\ call'[c].at = "assign" /\ call'[c].d = g /\ call'[c].from = "PENDING"
        /\ \A e \in Calls : e # c => call'[e] = call[e]
    BY <1>2, <2>1 DEF AssignRead, Call, TypeOK
  <2>3. QED
    BY <1>c, <2>1, <2>2
<1>3. ASSUME NEW c \in Assigns, AssignWrite(c)
      PROVE  Alone(d)'
  BY <1>0, <1>3, <1>a DEF AssignWrite
<1>4. ASSUME NEW c \in Updates, NEW g \in Deliveries, NEW u \in Users, NEW to \in Status,
             UpdateRead(c, g, u, to)
      PROVE  Alone(d)'
  <2>1. g = d => Deciding(d) = {}
    BY <1>4 DEF UpdateRead, NoteCrossing
  <2>2. QED
    <3>1. c \in Calls /\ call[c].at = "idle" /\ UNCHANGED <<status, fees>>
      BY <1>0, <1>4 DEF UpdateRead
    <3>2. call' = [call EXCEPT ![c] = Call("update", g, status[g], to)]
      BY <1>4 DEF UpdateRead
    <3>3. /\ call'[c].at = "update" /\ call'[c].d = g /\ call'[c].from = status[g]
          /\ \A e \in Calls : e # c => call'[e] = call[e]
      BY <3>1, <3>2 DEF Call, TypeOK
    <3>4. QED
      BY <1>c, <2>1, <3>1, <3>3
<1>5. ASSUME NEW c \in Updates, UpdateWrite(c)
      PROVE  Alone(d)'
  <2>1. c \in Calls /\ c \notin Proofs /\ Goto(c, "trace")
    BY <1>0, <1>5 DEF UpdateWrite
  <2>2. CASE call[c].d # d
    BY <1>5, <1>a, <2>1, <2>2 DEF UpdateWrite, TypeOK
  <2>3. CASE call[c].d = d
    <3>1. c \in Deciding(d)
      BY <1>5, <2>1, <2>3 DEF UpdateWrite, Deciding
    <3>2. fees[d] = 0 /\ Charging(d) = {} /\ \A e \in Deciding(d) : e = c
      BY <1>e, <3>1, DecidingFacts
    <3>3. call'[c].at = "trace" /\ \A e \in Calls : e # c => call'[e] = call[e]
      BY <2>1, GotoFacts
    <3>4. Deciding(d)' = {}
      BY <3>2, <3>3 DEF Deciding
    <3>5. Charging(d)' = {}
      BY <1>0, <2>1, <3>2, <3>3 DEF Charging
    <3>6. fees'[d] = 0
      BY <1>5, <3>2 DEF UpdateWrite
    <3>7. QED
      BY <3>4, <3>5, <3>6 DEF Alone
  <2>4. QED
    BY <2>2, <2>3
<1>6. ASSUME NEW c \in Proofs, NEW g \in Deliveries, NEW u \in Users, ProofRead(c, g, u)
      PROVE  Alone(d)'
  <2>1. g = d => Deciding(d) = {}
    BY <1>6 DEF ProofRead, NoteCrossing
  <2>2. QED
    <3>1. /\ c \in Calls /\ call[c].at = "idle" /\ status[g] = "IN_TRANSIT"
          /\ UNCHANGED <<status, fees>>
      BY <1>0, <1>6 DEF ProofRead
    <3>2. /\ call'[c].at = "proof" /\ call'[c].d = g /\ call'[c].from = "IN_TRANSIT"
          /\ \A e \in Calls : e # c => call'[e] = call[e]
      BY <1>6, <3>1 DEF ProofRead, Call, TypeOK
    <3>3. QED
      BY <1>c, <2>1, <3>1, <3>2
<1>7. ASSUME NEW c \in Proofs, ProofWrite(c)
      PROVE  Alone(d)'
  <2>1. c \in Calls /\ Goto(c, "trace")
    BY <1>0, <1>7 DEF ProofWrite
  <2>2. CASE call[c].d # d
    BY <1>7, <1>a, <2>1, <2>2 DEF ProofWrite, TypeOK
  <2>3. CASE call[c].d = d
    <3>1. c \in Deciding(d)
      BY <1>7, <2>1, <2>3 DEF ProofWrite, Deciding
    <3>2. fees[d] = 0 /\ Charging(d) = {} /\ \A e \in Deciding(d) : e = c
      BY <1>e, <3>1, DecidingFacts
    <3>3. call'[c].at = "trace" /\ \A e \in Calls : e # c => call'[e] = call[e]
      BY <2>1, GotoFacts
    <3>4. Deciding(d)' = {}
      BY <3>2, <3>3 DEF Deciding
    <3>5. \A e \in Charging(d)' : e = c
      BY <1>0, <3>2, <3>3 DEF Charging
    <3>6. status'[d] = "DELIVERED" /\ fees'[d] = 0
      BY <1>7, <2>3, <3>2 DEF ProofWrite, TypeOK
    <3>7. QED
      BY <3>4, <3>5, <3>6 DEF Alone
  <2>4. QED
    BY <2>2, <2>3
<1>8. ASSUME NEW c \in Updates \cup Proofs, Trace(c)
      PROVE  Alone(d)'
  <2>1. PICK p \in {"ended", "fee", "loss"} : Goto(c, p)
    BY <1>8 DEF Trace
  <2>2. c \in Calls /\ call[c].at = "trace" /\ UNCHANGED <<status, fees>>
    BY <1>0, <1>8 DEF Trace
  <2>3. QED
    BY <1>a, <2>1, <2>2
<1>9. ASSUME NEW c \in Proofs, PostFee(c)
      PROVE  Alone(d)'
  <2>1. c \in Calls /\ call[c].at = "fee" /\ status' = status
    BY <1>0, <1>9 DEF PostFee
  <2>2. CASE Goto(c, "ended") /\ UNCHANGED fees
    BY <1>a, <2>1, <2>2
  <2>3. CASE call[c].d # d /\ Goto(c, "link") /\ fees' = [fees EXCEPT ![call[c].d] = @ + 1]
    BY <1>0, <1>a, <2>1, <2>3 DEF TypeOK
  <2>4. CASE call[c].d = d /\ Goto(c, "link") /\ fees' = [fees EXCEPT ![call[c].d] = @ + 1]
    <3>1. c \in Charging(d)
      BY <1>9, <2>1, <2>4 DEF Charging
    <3>2. status[d] = "DELIVERED" /\ fees[d] = 0 /\ \A e \in Charging(d) : e = c
      BY <1>e, <3>1 DEF Alone
    <3>3. Deciding(d) = {}
      BY <1>e, <3>2, DecidingFacts
    <3>4. call'[c].at = "link" /\ \A e \in Calls : e # c => call'[e] = call[e]
      BY <2>1, <2>4, GotoFacts
    <3>5. Deciding(d)' = {}
      BY <3>3, <3>4 DEF Deciding
    <3>6. Charging(d)' = {}
      BY <1>0, <3>2, <3>4 DEF Charging
    <3>7. fees'[d] = 1 /\ status'[d] = "DELIVERED"
      BY <2>1, <2>4, <3>2 DEF TypeOK
    <3>8. QED
      BY <3>5, <3>6, <3>7 DEF Alone
  <2>5. QED
    BY <1>9, <2>2, <2>3, <2>4 DEF PostFee
<1>10. ASSUME NEW c \in Proofs, LinkFee(c) \/ LinkFails(c)
       PROVE  Alone(d)'
  BY <1>0, <1>10, <1>a DEF LinkFee, LinkFails
<1>11. ASSUME NEW c \in Updates, PostLoss(c)
       PROVE  Alone(d)'
  BY <1>0, <1>11, <1>a DEF PostLoss
<1>12. CASE Crash
  <2>1. /\ Deciding(d)' = {} /\ Charging(d)' = {}
    BY <1>0, <1>12, CrashFacts DEF Deciding, Charging
  <2>2. QED
    BY <1>12, <1>e, <2>1 DEF Crash, Alone
<1>13. CASE UNCHANGED vars
  BY <1>13, <1>b DEF vars
<1>14. QED
  BY <1>1, <1>2, <1>3, <1>4, <1>5, <1>6, <1>7, <1>8, <1>9, <1>10, <1>11, <1>12, <1>13 DEF Next

-----------------------------------------------------------------------------
\* The history has the present status of d, or a call is about to add it.
Told(d) ==
  \/ status[d] \in history[d]
  \/ \E c \in Calls : call[c].at = "trace" /\ call[c].d = d /\ call[c].to = status[d]

\* Told survives a step that adds to the history and moves no call that is to add to it.
LEMMA ToldKept ==
  ASSUME NEW d \in Deliveries, Told(d), status'[d] = status[d],
         history[d] \subseteq history'[d],
         \A e \in Calls : call[e].at = "trace" /\ call[e].d = d => call'[e] = call[e]
  PROVE  Told(d)'
BY DEF Told

\* Every step keeps the history told, or is a fault.
LEMMA TracedStep ==
  ASSUME TypeOK, CallsOK, Traced, [Next]_vars
  PROVE  Traced'
<1> USE DeliveriesAssumption
<1>0. /\ \A c \in Calls : call[c].d \in Deliveries
      /\ \A c \in Updates : c \in Calls
      /\ \A c \in Proofs : c \in Calls
      /\ \A c \in Assigns : c \in Calls
  BY DEF TypeOK, Calls
<1>f. faults' = 0 => faults = 0 /\ ~ Fault
  <2>1. CASE Fault
    BY <2>1 DEF Fault, TypeOK
  <2>2. CASE ~ Fault
    BY <2>2 DEF Next, vars, Create, AssignRead, AssignWrite, UpdateRead, UpdateWrite,
                ProofRead, ProofWrite, Trace, PostFee, LinkFee, LinkFails, PostLoss, Crash
  <2>3. QED
    BY <2>1, <2>2
<1> SUFFICES ASSUME faults' = 0, NEW d \in Deliveries, status'[d] # "absent" PROVE Told(d)'
  BY DEF Traced, Told
<1>e. /\ status[d] # "absent" => Told(d)
      /\ ~ Fault
  BY <1>f DEF Traced, Told
\* A call that is not to add to the history moves, and the rest stays.
<1>a. ASSUME NEW c \in Calls, call[c].at # "trace",
             \A e \in Calls : e # c => call'[e] = call[e],
             status'[d] = status[d], history' = history
      PROVE  Told(d)'
  BY <1>a, <1>e, ToldKept
<1>1. ASSUME NEW g \in Deliveries, Create(g)
      PROVE  Told(d)'
  <2>1. CASE g # d
    BY <1>1, <1>e, <2>1, ToldKept DEF Create, TypeOK
  <2>2. CASE g = d
    BY <1>1, <2>2 DEF Create, Told, TypeOK
  <2>3. QED
    BY <2>1, <2>2
<1>2. ASSUME NEW c \in Assigns, NEW g \in Deliveries, AssignRead(c, g)
      PROVE  Told(d)'
  BY <1>0, <1>2, <1>a DEF AssignRead, TypeOK
<1>3. ASSUME NEW c \in Assigns, AssignWrite(c)
      PROVE  Told(d)'
  BY <1>0, <1>3, <1>a DEF AssignWrite, Goto, TypeOK
<1>4. ASSUME NEW c \in Updates, NEW g \in Deliveries, NEW u \in Users, NEW to \in Status,
             UpdateRead(c, g, u, to)
      PROVE  Told(d)'
  BY <1>0, <1>4, <1>a DEF UpdateRead, TypeOK
<1>w. ASSUME NEW c \in Calls, call[c].at # "trace", Goto(c, "trace"),
             status' = [status EXCEPT ![call[c].d] = call[c].to], history' = history
      PROVE  Told(d)'
  <2>1. /\ call'[c].at = "trace" /\ call'[c].d = call[c].d /\ call'[c].to = call[c].to
        /\ \A e \in Calls : e # c => call'[e] = call[e]
    BY <1>w, GotoFacts
  <2>2. CASE call[c].d = d
    BY <1>w, <2>1, <2>2 DEF Told, TypeOK
  <2>3. CASE call[c].d # d
    BY <1>a, <1>w, <2>1, <2>3 DEF TypeOK
  <2>4. QED
    BY <2>2, <2>3
<1>5. ASSUME NEW c \in Updates, UpdateWrite(c)
      PROVE  Told(d)'
  BY <1>0, <1>5, <1>w DEF UpdateWrite
<1>6. ASSUME NEW c \in Proofs, NEW g \in Deliveries, NEW u \in Users, ProofRead(c, g, u)
      PROVE  Told(d)'
  BY <1>0, <1>6, <1>a DEF ProofRead, TypeOK
<1>7. ASSUME NEW c \in Proofs, ProofWrite(c)
      PROVE  Told(d)'
  <2>1. c \in Calls /\ call[c].at = "proof" /\ Goto(c, "trace") /\ history' = history
    BY <1>0, <1>7 DEF ProofWrite
  <2>2. call[c].to = "DELIVERED"
    BY <1>7, <2>1 DEF CallsOK, CallOK
  <2>3. QED
    BY <1>7, <1>w, <2>1, <2>2 DEF ProofWrite
<1>8. ASSUME NEW c \in Updates \cup Proofs, Trace(c)
      PROVE  Told(d)'
  <2>1. PICK p \in {"ended", "fee", "loss"} : Goto(c, p)
    BY <1>8 DEF Trace
  <2>2. /\ c \in Calls /\ call[c].at = "trace" /\ status' = status
        /\ history' = [history EXCEPT ![call[c].d] = @ \cup {call[c].to}]
    BY <1>0, <1>8 DEF Trace
  <2>3. \A e \in Calls : e # c => call'[e] = call[e]
    BY <2>1, <2>2, GotoFacts
  <2>4. history[d] \subseteq history'[d]
    BY <2>2 DEF TypeOK
  <2>5. CASE call[c].d = d /\ call[c].to = status[d]
    BY <2>2, <2>5 DEF Told, TypeOK
  <2>6. CASE ~ (call[c].d = d /\ call[c].to = status[d])
    <3>1. Told(d)
      BY <1>e, <2>2
    <3>2. CASE status[d] \in history[d]
      BY <2>2, <2>4, <3>2 DEF Told
    <3>3. ASSUME NEW e \in Calls, call[e].at = "trace", call[e].d = d, call[e].to = status[d]
          PROVE  Told(d)'
      BY <2>2, <2>3, <2>6, <3>3 DEF Told
    <3>4. QED
      BY <3>1, <3>2, <3>3 DEF Told
  <2>7. QED
    BY <2>5, <2>6
<1>9. ASSUME NEW c \in Proofs, PostFee(c)
      PROVE  Told(d)'
  BY <1>0, <1>9, <1>a DEF PostFee, Goto, TypeOK
<1>10. ASSUME NEW c \in Proofs, LinkFee(c)
       PROVE  Told(d)'
  BY <1>0, <1>10, <1>a DEF LinkFee, Goto, TypeOK
<1>11. ASSUME NEW c \in Updates, PostLoss(c)
       PROVE  Told(d)'
  BY <1>0, <1>11, <1>a DEF PostLoss, Goto, TypeOK
<1>12. CASE UNCHANGED vars
  BY <1>12, <1>e, ToldKept DEF vars
<1>13. QED
  BY <1>1, <1>2, <1>3, <1>4, <1>5, <1>6, <1>7, <1>8, <1>9, <1>10, <1>11, <1>12, <1>e
     DEF Next, LinkFails, Crash

-----------------------------------------------------------------------------
\* IInv is inductive.
LEMMA IInvStep == IInv /\ [Next]_vars => IInv'
BY TypeStep, CallsStep, FeeStep, AloneStep, TracedStep DEF IInv

\* IInv holds in every reachable state.
LEMMA Invariance == Spec => []IInv
<1>1. IInv /\ [Next]_vars => IInv'
  BY IInvStep
<1>2. QED
  BY InitIInv, <1>1, PTL DEF Spec

(***************************************************************************)
(* Every variable keeps its type: statuses stay in the table, history rows *)
(* are statuses, counts of entries are naturals.                           *)
(***************************************************************************)
THEOREM DeliveryTypeCorrect == Spec => []TypeOK
<1>1. IInv => TypeOK
  BY DEF IInv
<1>2. QED
  BY Invariance, <1>1, PTL

(***************************************************************************)
(* A delivery is DELIVERED only with its proof, however calls and restarts *)
(* interleave: a proof writes both, and no update may ask for DELIVERED.   *)
(***************************************************************************)
THEOREM DeliveredWithProof == Spec => []DeliveredHasProof
<1>1. IInv => DeliveredHasProof
  BY DEF IInv
<1>2. QED
  BY Invariance, <1>1, PTL

(***************************************************************************)
(* A fee is charged only of what has its proof, and twice only after two   *)
(* calls crossed on the delivery; a linked entry exists.                   *)
(***************************************************************************)
THEOREM FeeWithProof == Spec => []FeeHasProof
<1>1. IInv => FeeHasProof
  BY DEF IInv, TypeOK, FeeOK, AllAlone, Alone, FeeHasProof
<1>2. QED
  BY Invariance, <1>1, PTL

(***************************************************************************)
(* Unless the process stopped, the present status of a delivery no call    *)
(* works on is in its history.                                             *)
(***************************************************************************)
THEOREM PresentStatusTraced == Spec => []PresentIsTraced
<1>1. IInv => PresentIsTraced
  <2> SUFFICES ASSUME IInv, NEW d \in Deliveries,
                      faults = 0, status[d] # "absent", Holding(d) = {}
               PROVE  status[d] \in history[d]
    BY DEF PresentIsTraced
  <2>1. \A c \in Calls : ~ (call[c].at = "trace" /\ call[c].d = d)
    BY DEF Holding, Running
  <2>2. QED
    BY <2>1 DEF IInv, Traced
<1>2. QED
  BY Invariance, <1>1, PTL

\* A step that changes the status of an uncrossed delivery follows the table.
LEMMA MoveStep ==
  ASSUME IInv, [Next]_vars, NEW d \in Deliveries,
         status'[d] # status[d], status[d] # "absent", d \notin crossed
  PROVE  status'[d] \in Allowed(status[d])
<1> USE DeliveriesAssumption
<1>0. /\ TypeOK /\ CallsOK /\ Alone(d)
      /\ \A c \in Updates \cup Proofs : c \in Calls
  BY DEF IInv, AllAlone, Calls
<1>1. ASSUME NEW c \in Updates, UpdateWrite(c)
      PROVE  status'[d] \in Allowed(status[d])
  <2>1. call[c].d = d /\ status'[d] = call[c].to
    BY <1>0, <1>1 DEF UpdateWrite, TypeOK
  <2>2. call[c].to \in Allowed(call[c].from)
    BY <1>0, <1>1 DEF UpdateWrite, CallsOK, CallOK
  <2>3. status[d] = call[c].from
    BY <1>0, <1>1, <2>1 DEF UpdateWrite, Alone, Deciding
  <2>4. QED
    BY <2>1, <2>2, <2>3
<1>2. ASSUME NEW c \in Proofs, ProofWrite(c)
      PROVE  status'[d] \in Allowed(status[d])
  <2>1. call[c].d = d /\ status'[d] = "DELIVERED"
    BY <1>0, <1>2 DEF ProofWrite, TypeOK
  <2>2. call[c].from = "IN_TRANSIT"
    BY <1>0, <1>2 DEF ProofWrite, CallsOK, CallOK
  <2>3. status[d] = call[c].from
    BY <1>0, <1>2, <2>1 DEF ProofWrite, Alone, Deciding
  <2>4. QED
    BY <2>1, <2>2, <2>3 DEF Allowed
<1>3. ASSUME NEW g \in Deliveries, Create(g)
      PROVE  FALSE
  BY <1>0, <1>3 DEF Create, TypeOK
<1>4. \/ \E c \in Updates : UpdateWrite(c)
      \/ \E c \in Proofs : ProofWrite(c)
      \/ \E g \in Deliveries : Create(g)
  BY DEF Next, vars, AssignRead, AssignWrite, UpdateRead, ProofRead, Trace, PostFee, LinkFee,
         LinkFails, PostLoss, Crash
<1>5. QED
  BY <1>1, <1>2, <1>3, <1>4

(***************************************************************************)
(* A delivery leaves the table of transitions only after two calls crossed *)
(* on it.                                                                  *)
(***************************************************************************)
THEOREM MovesAllowed == Spec => MovesAlongTable
<1>1. IInv /\ [Next]_vars =>
        [\A d \in Deliveries :
           (status'[d] # status[d] /\ status[d] # "absent" /\ d \notin crossed)
              => status'[d] \in Allowed(status[d])]_vars
  BY MoveStep
<1>2. QED
  BY Invariance, <1>1, PTL DEF Spec, MovesAlongTable
=============================================================================
