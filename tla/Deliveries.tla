----------------------------- MODULE Deliveries -----------------------------
(***************************************************************************)
(* Deliveries (modules/logistics/deliveries.service.ts and                 *)
(* delivery-posting.service.ts).                                           *)
(*                                                                         *)
(* A dispatcher assigns a driver to a pending delivery; drivers and        *)
(* dispatchers move it along a table of transitions; a proof of delivery   *)
(* moves it to DELIVERED and posts the fee.  Each call reads the delivery, *)
(* checks it, updates it and then appends to its history: four statements, *)
(* between which other calls run.                                          *)
(***************************************************************************)
EXTENDS Integers, FiniteSets

CONSTANTS Deliveries, \* delivery ids
          Updates,    \* updateStatus calls
          Proofs,     \* submitProofOfDelivery calls
          Assigns,    \* assignDriver calls
          Users,      \* who calls
          Managers,   \* users with "logistics.delivery.manage"
          NoDriver,   \* a delivery nobody is assigned to
          FeeDue,     \* FeeDue[d]: the fee is positive
          MaxFaults   \* bound: restarts, and posts that fail half way

Status == {"PENDING", "LOADED", "IN_TRANSIT", "DELIVERED", "FAILED", "CANCELLED"}

ASSUME DeliveriesAssumption ==
  /\ Deliveries # {} /\ Users # {} /\ Managers \subseteq Users /\ NoDriver \notin Users
  /\ FeeDue \in [Deliveries -> BOOLEAN] /\ MaxFaults \in Nat
  /\ Updates \cap Proofs = {} /\ Updates \cap Assigns = {} /\ Proofs \cap Assigns = {}

VARIABLES
  status,   \* status[d]: Delivery.status, or "absent"
  driver,   \* driver[d]
  proof,    \* proof[d]: podMethod and podScannedAt are set
  history,  \* history[d]: statuses in DeliveryStatusHistory
  fees,     \* fees[d]: entries for the delivery fee
  linked,   \* linked[d]: journalEntryId is set
  losses,   \* losses[d]: entries for goods lost in transit
  call,     \* call[c]: where call c stands and what it read
  crossed,  \* history: deliveries read by a call while another was about to write them
  faults

vars == <<status, driver, proof, history, fees, linked, losses, call, crossed, faults>>

Calls == Updates \cup Proofs \cup Assigns

\* A call: its place, its delivery, the status it read, and what it will write.
Call(at, d, from, to) == [at |-> at, d |-> d, from |-> from, to |-> to]

Init ==
  /\ status = [d \in Deliveries |-> "absent"]
  /\ driver = [d \in Deliveries |-> NoDriver]
  /\ proof = [d \in Deliveries |-> FALSE]
  /\ history = [d \in Deliveries |-> {}]
  /\ fees = [d \in Deliveries |-> 0]
  /\ linked = [d \in Deliveries |-> FALSE]
  /\ losses = [d \in Deliveries |-> 0]
  /\ crossed = {}
  /\ call = [c \in Calls |-> Call("idle", CHOOSE d \in Deliveries : TRUE, "PENDING", "PENDING")]
  /\ faults = 0

Goto(c, p) == call' = [call EXCEPT ![c].at = p]

Running(c) == call[c].at \notin {"idle", "ended"}

\* ALLOWED_TRANSITIONS
Allowed(s) ==
  CASE s = "PENDING"    -> {"LOADED", "CANCELLED"}
    [] s = "LOADED"     -> {"IN_TRANSIT", "CANCELLED"}
    [] s = "IN_TRANSIT" -> {"DELIVERED", "FAILED", "CANCELLED"}
    [] OTHER            -> {}

\* The statuses an update may ask for: not DELIVERED.
Requested == {"LOADED", "IN_TRANSIT", "FAILED", "CANCELLED"}

\* Calls between their read of the delivery and their write of its status.
Deciding(d) == {c \in Calls : call[c].at \in {"update", "proof"} /\ call[c].d = d}

NoteCrossing(d) == crossed' = IF Deciding(d) = {} THEN crossed ELSE crossed \cup {d}

CanAccess(u, d) == u = driver[d] \/ u \in Managers

-----------------------------------------------------------------------------
\* Mutant: the default of another document is used.
CreateDraft(d) ==
  /\ status[d] = "absent"
  /\ status' = [status EXCEPT ![d] = "DRAFT"]
  /\ history' = [history EXCEPT ![d] = {"PENDING"}]
  /\ \E u \in Users \cup {NoDriver} : driver' = [driver EXCEPT ![d] = u]
  /\ UNCHANGED <<proof, fees, linked, losses, call, crossed, faults>>

\* The delivery and its first history row are one insert.
Create(d) ==
  /\ status[d] = "absent"
  /\ status' = [status EXCEPT ![d] = "PENDING"]
  /\ history' = [history EXCEPT ![d] = {"PENDING"}]
  /\ \E u \in Users \cup {NoDriver} : driver' = [driver EXCEPT ![d] = u]
  /\ UNCHANGED <<proof, fees, linked, losses, call, crossed, faults>>

AssignRead(c, d) ==
  /\ call[c].at = "idle"
  /\ status[d] = "PENDING"
  /\ call' = [call EXCEPT ![c] = Call("assign", d, "PENDING", "PENDING")]
  /\ UNCHANGED <<status, driver, proof, history, fees, linked, losses, crossed, faults>>

AssignWrite(c) ==
  /\ call[c].at = "assign"
  /\ \E u \in Users : driver' = [driver EXCEPT ![call[c].d] = u]
  /\ Goto(c, "ended")
  /\ UNCHANGED <<status, proof, history, fees, linked, losses, crossed, faults>>

\* Mutant: the transition is not looked up.
UpdateReadAny(c, d, u, to) ==
  /\ call[c].at = "idle"
  /\ status[d] # "absent" /\ CanAccess(u, d) /\ to \in Requested
  /\ NoteCrossing(d)
  /\ call' = [call EXCEPT ![c] = Call("update", d, status[d], to)]
  /\ UNCHANGED <<status, driver, proof, history, fees, linked, losses, faults>>

UpdateRead(c, d, u, to) ==
  /\ call[c].at = "idle"
  /\ status[d] # "absent" /\ CanAccess(u, d)
  /\ to \in Requested /\ to \in Allowed(status[d])
  /\ NoteCrossing(d)
  /\ call' = [call EXCEPT ![c] = Call("update", d, status[d], to)]
  /\ UNCHANGED <<status, driver, proof, history, fees, linked, losses, faults>>

UpdateWrite(c) ==
  /\ call[c].at = "update"
  /\ status' = [status EXCEPT ![call[c].d] = call[c].to]
  /\ Goto(c, "trace")
  /\ UNCHANGED <<driver, proof, history, fees, linked, losses, crossed, faults>>

ProofRead(c, d, u) ==
  /\ call[c].at = "idle"
  /\ status[d] = "IN_TRANSIT" /\ CanAccess(u, d)
  /\ NoteCrossing(d)
  /\ call' = [call EXCEPT ![c] = Call("proof", d, "IN_TRANSIT", "DELIVERED")]
  /\ UNCHANGED <<status, driver, proof, history, fees, linked, losses, faults>>

ProofWrite(c) ==
  /\ call[c].at = "proof"
  /\ status' = [status EXCEPT ![call[c].d] = "DELIVERED"]
  /\ proof' = [proof EXCEPT ![call[c].d] = TRUE]
  /\ Goto(c, "trace")
  /\ UNCHANGED <<driver, history, fees, linked, losses, crossed, faults>>

\* Mutant: a failed delivery leaves no history row.
TraceButFailed(c) ==
  LET d == call[c].d
  IN /\ call[c].at = "trace"
     /\ history' = [history EXCEPT ![d] = IF call[c].to = "FAILED" THEN @ ELSE @ \cup {call[c].to}]
     /\ Goto(c, "ended")
     /\ UNCHANGED <<status, driver, proof, fees, linked, losses, crossed, faults>>

\* The history row; then a proof posts the fee, and a failure may declare a loss.
Trace(c) ==
  LET d == call[c].d
  IN /\ call[c].at = "trace"
     /\ history' = [history EXCEPT ![d] = @ \cup {call[c].to}]
     /\ IF c \in Proofs
        THEN Goto(c, IF FeeDue[d] THEN "fee" ELSE "ended")
        ELSE \/ Goto(c, "ended")
             \/ call[c].to = "FAILED" /\ Goto(c, "loss")
     /\ UNCHANGED <<status, driver, proof, fees, linked, losses, crossed, faults>>

\* Best effort: the entry may not be made, and its link may fail.
PostFee(c) ==
  /\ call[c].at = "fee"
  /\ \/ Goto(c, "link") /\ fees' = [fees EXCEPT ![call[c].d] = @ + 1]
     \/ Goto(c, "ended") /\ UNCHANGED fees
  /\ UNCHANGED <<status, driver, proof, history, linked, losses, crossed, faults>>

LinkFee(c) ==
  /\ call[c].at = "link"
  /\ linked' = [linked EXCEPT ![call[c].d] = TRUE]
  /\ Goto(c, "ended")
  /\ UNCHANGED <<status, driver, proof, history, fees, losses, crossed, faults>>

PostLoss(c) ==
  /\ call[c].at = "loss"
  /\ \/ losses' = [losses EXCEPT ![call[c].d] = @ + 1]
     \/ UNCHANGED losses
  /\ Goto(c, "ended")
  /\ UNCHANGED <<status, driver, proof, history, fees, linked, crossed, faults>>

Fault == faults < MaxFaults /\ faults' = faults + 1

\* Mutant: a link that fails makes the call post again.
LinkFailsRetries(c) ==
  /\ call[c].at = "link"
  /\ Fault
  /\ Goto(c, "fee")
  /\ UNCHANGED <<status, driver, proof, history, fees, linked, losses, crossed>>

LinkFails(c) ==
  /\ call[c].at = "link"
  /\ Fault
  /\ Goto(c, "ended")
  /\ UNCHANGED <<status, driver, proof, history, fees, linked, losses, crossed>>

Crash ==
  /\ Fault
  /\ call' = [c \in Calls |-> IF Running(c) THEN [call[c] EXCEPT !.at = "ended"] ELSE call[c]]
  /\ UNCHANGED <<status, driver, proof, history, fees, linked, losses, crossed>>

Next ==
  \/ \E d \in Deliveries :
       \/ Create(d)
       \/ \E c \in Assigns : AssignRead(c, d)
       \/ \E c \in Updates, u \in Users, to \in Status : UpdateRead(c, d, u, to)
       \/ \E c \in Proofs, u \in Users : ProofRead(c, d, u)
  \/ \E c \in Assigns : AssignWrite(c)
  \/ \E c \in Updates : UpdateWrite(c) \/ PostLoss(c)
  \/ \E c \in Proofs : ProofWrite(c) \/ PostFee(c) \/ LinkFee(c) \/ LinkFails(c)
  \/ \E c \in Updates \cup Proofs : Trace(c)
  \/ Crash

Spec == Init /\ [][Next]_vars

-----------------------------------------------------------------------------
TypeOK ==
  /\ status \in [Deliveries -> Status \cup {"absent"}]
  /\ driver \in [Deliveries -> Users \cup {NoDriver}]
  /\ proof \in [Deliveries -> BOOLEAN]
  /\ history \in [Deliveries -> SUBSET Status]
  /\ fees \in [Deliveries -> Nat] /\ losses \in [Deliveries -> Nat]
  /\ linked \in [Deliveries -> BOOLEAN]
  /\ call \in [Calls -> [at: {"idle", "assign", "update", "proof", "trace", "fee", "link",
                              "loss", "ended"}, d: Deliveries, from: Status, to: Status]]
  /\ crossed \subseteq Deliveries /\ faults \in 0..MaxFaults

\* The calls that have read delivery d and have not ended.
Holding(d) == {c \in Calls : Running(c) /\ call[c].d = d}

(***************************************************************************)
(* A delivery leaves the table of transitions only after two calls crossed *)
(* on it: one read it between the other's read and write.                  *)
(***************************************************************************)
MovesAlongTable ==
  [][\A d \in Deliveries :
       (status'[d] # status[d] /\ status[d] # "absent" /\ d \notin crossed)
          => status'[d] \in Allowed(status[d])]_vars

(***************************************************************************)
(* Unless the process stopped, once every call on it has ended the history *)
(* of a delivery has its present status: no later status hides in between. *)
(***************************************************************************)
PresentIsTraced ==
  \A d \in Deliveries :
    (faults = 0 /\ status[d] # "absent" /\ Holding(d) = {}) => status[d] \in history[d]

(***************************************************************************)
(* A fee is in the journal only of a delivery that has its proof, and only *)
(* once unless two calls crossed on it; a journal entry a delivery names   *)
(* is there.                                                               *)
(***************************************************************************)
FeeHasProof ==
  \A d \in Deliveries :
    /\ fees[d] > 0 => proof[d] /\ FeeDue[d]
    /\ fees[d] > 1 => d \in crossed
    /\ linked[d] => fees[d] > 0

(***************************************************************************)
(* A delivery is DELIVERED only with its proof ("the only path to that     *)
(* status").                                                               *)
(***************************************************************************)
DeliveredHasProof == \A d \in Deliveries : status[d] = "DELIVERED" => proof[d]
=============================================================================
