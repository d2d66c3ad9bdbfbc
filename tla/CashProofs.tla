----------------------------- MODULE CashProofs -----------------------------
(***************************************************************************)
(* Proofs about CashMovements: the inductive invariant and the safety      *)
(* properties it implies, of the movements and of the approvals they ask   *)
(* for.                                                                    *)
(***************************************************************************)
EXTENDS CashMovements, FiniteSetTheorems, TLAPS

RequestRow == [target: Targets, status: Verdicts \cup {"PENDING"}, by: SUBSET Decisions]

ApprovalTypes ==
  /\ rules \subseteq Rules
  /\ request \in [Asks -> RequestRow \cup {NoRequest}]
  /\ decide \in [Decisions -> [at: {"idle", "read", "may", "ended"}, ask: Asks]]
  /\ approved \subseteq Targets
  /\ ruleEdits \in Nat

(***************************************************************************)
(* An approval is remembered, and a request is there before anyone decides *)
(* it.                                                                     *)
(***************************************************************************)
RequestsHeld ==
  /\ \A a \in Asks : request[a] # NoRequest /\ request[a].status = "APPROVED"
                     => request[a].target \in approved
  /\ \A d \in Decisions : decide[d].at \in {"read", "may"} => request[decide[d].ask] # NoRequest

Qualified(d, t) == \E r \in TopRules(t) : RequiredRole[r] \in RolesOf[d]

-----------------------------------------------------------------------------
(***************************************************************************)
(* Approval requests: decisions, rules and restarts keep what is known of  *)
(* them.                                                                   *)
(***************************************************************************)
\* No row is the absence of one.
LEMMA RowsExist == NoRequest \notin RequestRow
BY ApprovalsAssumption DEF RequestRow

\* Until the rules are edited the applicable ones stay as they are.
LEMMA SameRules ==
  ASSUME UNCHANGED rules
  PROVE  \A t : /\ NeedsApproval(t)' <=> NeedsApproval(t)
                /\ \A d : Qualified(d, t)' <=> Qualified(d, t)
BY DEF NeedsApproval, Qualified, TopRules, Applicable

\* What a verdict leaves.
LEMMA Verdict ==
  ASSUME ApprovalTypes, RequestsHeld, NEW d \in Decisions, DecideWrite(d)
  PROVE  LET a == decide[d].ask IN
         /\ a \in Asks /\ request[a] \in RequestRow /\ request'[a] \in RequestRow
         /\ request'[a].target = request[a].target /\ request'[a].by = {d}
         /\ request'[a].status = "APPROVED" => request'[a].target \in approved'
         /\ request' = [request EXCEPT ![a] = request'[a]]
         /\ approved \subseteq approved' /\ approved' \subseteq Targets
<1> USE DEF ApprovalTypes
<1> DEFINE a == decide[d].ask
<1>1. a \in Asks /\ request[a] \in RequestRow
  BY DEF DecideWrite, RequestsHeld
<1>2. PICK s \in Verdicts :
        /\ request' = [request EXCEPT ![a].status = s, ![a].by = {d}]
        /\ approved' = IF s = "APPROVED" THEN approved \cup {request[a].target} ELSE approved
  BY DEF DecideWrite
<1>3. PICK new \in RequestRow : new = [request[a] EXCEPT !.status = s, !.by = {d}]
  BY <1>1 DEF RequestRow
<1>4. new.status = s /\ new.by = {d} /\ new.target = request[a].target
  BY <1>1, <1>3 DEF RequestRow
<1>5. request' = [request EXCEPT ![a] = new] /\ request[a].target \in Targets
  BY <1>1, <1>2, <1>3 DEF RequestRow
<1>6. QED
  BY <1>1, <1>2, <1>4, <1>5

\* What a new request leaves.
LEMMA NewRequest ==
  ASSUME ApprovalTypes, NEW a \in Asks, NEW t \in Targets, CreateRequest(a, t)
  PROVE  /\ request'[a] \in RequestRow /\ request'[a].target = t /\ request'[a].by = {}
         /\ request'[a].status = "PENDING"
         /\ request' = [request EXCEPT ![a] = request'[a]]
<1> DEFINE new == [target |-> t, status |-> "PENDING", by |-> {}]
<1>1. new \in RequestRow /\ new.target = t /\ new.by = {} /\ new.status = "PENDING"
  BY DEF RequestRow
<1>2. request' = [request EXCEPT ![a] = new]
  BY DEF CreateRequest
<1> HIDE DEF new
<1>3. QED
  BY <1>1, <1>2 DEF ApprovalTypes

\* Decisions and rule edits keep what is known of requests, and approvals stay.
LEMMA ApprovalsStep ==
  ASSUME ApprovalTypes, RequestsHeld, ApprovalsNext
  PROVE  ApprovalTypes' /\ RequestsHeld' /\ approved \subseteq approved'
<1> USE DEF ApprovalTypes
<1>1. CASE EditRules
  BY <1>1 DEF EditRules, RequestsHeld
<1>2. ASSUME NEW d \in Decisions, NEW a \in Asks, DecideRead(d, a)
      PROVE  ApprovalTypes' /\ RequestsHeld' /\ approved \subseteq approved'
  BY <1>2 DEF DecideRead, RequestsHeld
<1>3. ASSUME NEW d \in Decisions, DecideCheck(d)
      PROVE  ApprovalTypes' /\ RequestsHeld' /\ approved \subseteq approved'
  <2>1. PICK x \in {"may", "ended"} : decide' = [decide EXCEPT ![d].at = x]
    BY <1>3 DEF DecideCheck
  <2>2. decide[d].at = "read" /\ UNCHANGED <<rules, request, approved, ruleEdits>>
    BY <1>3 DEF DecideCheck
  <2>3. \A e \in Decisions : decide'[e].ask = decide[e].ask /\ (e # d => decide'[e] = decide[e])
    BY <2>1
  <2>4. ApprovalTypes'
    BY <2>1, <2>2
  <2>5. QED
    BY <2>2, <2>3, <2>4 DEF RequestsHeld
<1>4. ASSUME NEW d \in Decisions, DecideWrite(d)
      PROVE  ApprovalTypes' /\ RequestsHeld' /\ approved \subseteq approved'
  <2>1. /\ decide' \in [Decisions -> [at: {"idle", "read", "may", "ended"}, ask: Asks]]
        /\ \A e \in Decisions : decide'[e] = decide[e] \/ decide'[e].at = "ended"
        /\ UNCHANGED <<rules, ruleEdits>>
    BY <1>4 DEF DecideWrite
  <2> DEFINE a == decide[d].ask
  <2>2. /\ a \in Asks /\ request'[a] \in RequestRow
        /\ request'[a].status = "APPROVED" => request'[a].target \in approved'
        /\ request' = [request EXCEPT ![a] = request'[a]]
        /\ approved \subseteq approved' /\ approved' \subseteq Targets
    BY <1>4, Verdict
  <2>3. \A b \in Asks : b # a => request'[b] = request[b]
    BY <2>2
  <2>4. request' \in [Asks -> RequestRow \cup {NoRequest}]
    BY <2>2
  <2> HIDE DEF a
  <2>5. RequestsHeld'
    BY <2>1, <2>2, <2>3, RowsExist DEF RequestsHeld
  <2>6. QED
    BY <2>1, <2>2, <2>4, <2>5
<1>5. QED
  BY <1>1, <1>2, <1>3, <1>4 DEF ApprovalsNext

\* So does a new request,
LEMMA NewRequestStep ==
  ASSUME ApprovalTypes, RequestsHeld, NEW a \in Asks, NEW t \in Targets, CreateRequest(a, t)
  PROVE  ApprovalTypes' /\ RequestsHeld' /\ approved' = approved
<1>1. /\ request'[a] \in RequestRow /\ request'[a].status = "PENDING"
      /\ request' = [request EXCEPT ![a] = request'[a]]
  BY NewRequest
<1>2. UNCHANGED <<rules, decide, approved, ruleEdits>>
  BY DEF CreateRequest
<1>3. QED
  BY <1>1, <1>2, RowsExist DEF ApprovalTypes, RequestsHeld

\* and so does a restart.
LEMMA LostStep ==
  ASSUME ApprovalTypes, RequestsHeld, DecisionsLost, UNCHANGED <<rules, request, approved, ruleEdits>>
  PROVE  ApprovalTypes' /\ RequestsHeld'
<1>1. /\ \A d \in Decisions : decide'[d] = decide[d] \/ decide'[d].at = "ended"
      /\ decide' \in [Decisions -> [at: {"idle", "read", "may", "ended"}, ask: Asks]]
  BY DEF DecisionsLost, ApprovalTypes
<1>2. QED
  BY <1>1 DEF ApprovalTypes, RequestsHeld

-----------------------------------------------------------------------------
USE DEF ApprovalTypes, RequestsHeld

Types ==
  /\ ApprovalTypes
  /\ pc \in [Calls -> {"new", "created", "ask", "read", "post", "link", "ended"}]
  /\ mine \in [Posts -> Movements]
  /\ row \in [Movements -> {"absent", "unposted", "linked"}]
  /\ entries \in [Movements -> Nat]
  /\ overlaps \in [Movements -> Nat]
  /\ faults \in Nat

\* A request is of the movement it is named by.
RequestsOK ==
  /\ RequestsHeld
  /\ \A m \in Movements : request[m] # NoRequest => request[m].target = m

(***************************************************************************)
(* While the rules stay as they were, a request, or a call about to make   *)
(* one, has a rule, and who is about to decide holds the role of the       *)
(* highest.                                                                *)
(***************************************************************************)
RolesOK ==
  ruleEdits = 0 =>
    /\ \A m \in Movements : request[m] # NoRequest \/ pc[m] = "ask" => NeedsApproval(m)
    /\ \A d \in Decisions : decide[d].at = "may" => Qualified(d, decide[d].ask)
    /\ \A m \in Movements : request[m] # NoRequest => \A d \in request[m].by : Qualified(d, m)

(***************************************************************************)
(* Each call that may still make an entry of m has a cause of its own, but *)
(* for one; and while m can be read again and nobody holds it, each entry  *)
(* has one.                                                                *)
(***************************************************************************)
Waiting(m) == {c \in Calls : Movement(c) = m /\ pc[c] \in {"created", "ask", "read", "post"}}

CausesOf(m) ==
  /\ IsFiniteSet(Waiting(m))
  /\ entries[m] + Cardinality(Waiting(m)) <= 1 + overlaps[m] + faults
  /\ pc[m] = "new" => row[m] = "absent"
  /\ row[m] = "absent" => pc[m] = "new" /\ entries[m] = 0 /\ ~Touched(m)
  /\ row[m] = "unposted" /\ ~Touched(m) => entries[m] <= overlaps[m] + faults

CausesOK == \A m \in Movements : CausesOf(m)

(***************************************************************************)
(* While nothing overlapped or failed on an expense that is to be held:    *)
(* its own call never posts it, whoever reads it finds its request, and    *)
(* whoever posts it found it approved.                                     *)
(***************************************************************************)
Undisturbed(m) == Held(m) /\ overlaps[m] = 0 /\ faults = 0

HeldOf(m) ==
  /\ pc[m] \in {"new", "created", "ask", "ended"}
  /\ pc[m] = "ended" => request[m] # NoRequest
  /\ \A p \in Posts : mine[p] = m =>
       /\ pc[p] \in {"read", "post", "link"} => request[m] # NoRequest
       /\ pc[p] \in {"post", "link"} => m \in approved
  /\ entries[m] > 0 => m \in approved

HeldOK == \A m \in Movements : Undisturbed(m) => HeldOf(m)

IInv == Types /\ RequestsOK /\ RolesOK /\ CausesOK /\ HeldOK

-----------------------------------------------------------------------------
LEMMA Disjoint == Asks = Targets /\ Movements = Targets /\ Posts \cap Movements = {}
BY MovementsAssumption DEF Movements

LEMMA InitIInv == Init => IInv
<1> SUFFICES ASSUME Init PROVE IInv
  OBVIOUS
<1> USE ApprovalsAssumption, MovementsAssumption, Disjoint DEF Init, ApprovalsInit
<1>1. Types
  <2>1. (CHOOSE a \in Asks : TRUE) \in Asks /\ (CHOOSE m \in Movements : TRUE) \in Movements
    OBVIOUS
  <2>2. QED
    BY <2>1 DEF Types
<1>2. RequestsOK /\ RolesOK
  BY DEF RequestsOK, RolesOK, Calls
<1>3. \A m \in Movements : Waiting(m) = {} /\ ~Touched(m)
  BY DEF Waiting, Touched, Running
<1>4. CausesOK
  <2>1. ASSUME NEW m \in Movements
        PROVE  /\ IsFiniteSet(Waiting(m)) /\ Cardinality(Waiting(m)) = 0
               /\ pc[m] = "new" /\ row[m] = "absent" /\ entries[m] = 0 /\ overlaps[m] = 0
               /\ faults = 0
    BY <1>3, FS_EmptySet DEF Calls
  <2>2. QED
    BY <1>3, <2>1 DEF CausesOK, CausesOf
<1>5. HeldOK
  BY DEF HeldOK, HeldOf, Calls
<1>6. QED
  BY <1>1, <1>2, <1>4, <1>5 DEF IInv

-----------------------------------------------------------------------------
(***************************************************************************)
(* Types.                                                                  *)
(***************************************************************************)
\* What a call is about is a movement.
LEMMA MovementOfCall ==
  ASSUME Types, NEW c \in Calls
  PROVE  Movement(c) \in Movements
BY Disjoint DEF Types, Movement, Calls

LEMMA TypeStep ==
  ASSUME Types, RequestsOK, [Next]_vars
  PROVE  Types'
<1> USE Disjoint DEF Types, Goto, approvalVars, movementVars
<1>1. ASSUME ApprovalsNext, UNCHANGED movementVars
      PROVE  Types'
  BY <1>1, ApprovalsStep DEF RequestsOK
<1>2. ASSUME NEW m \in Movements, AddMovement(m)
      PROVE  Types'
  <2>1. m \in Calls /\ m \in Asks
    BY DEF Calls
  <2>2. CASE Create(m)
    BY <2>1, <2>2 DEF Create
  <2>3. CASE AskRule(m)
    BY <2>1, <2>3 DEF AskRule
  <2>4. CASE Hold(m)
    BY <2>1, <2>4, NewRequestStep DEF Hold, CreateRequest, RequestsOK
  <2>5. QED
    BY <1>2, <2>2, <2>3, <2>4 DEF AddMovement
<1>3. ASSUME NEW p \in Posts, PostApprovedMovement(p)
      PROVE  Types'
  BY <1>3 DEF PostApprovedMovement, PostCheck, PostRead, Calls
<1>4. ASSUME NEW c \in Calls, PostEntry(c) \/ Link(c) \/ LinkFails(c)
      PROVE  Types'
  BY <1>4, MovementOfCall DEF PostEntry, Link, LinkFails, Fault
<1>5. ASSUME Crash
      PROVE  Types'
  BY <1>5 DEF Crash, Fault, DecisionsLost
<1>6. CASE UNCHANGED vars
  BY <1>6 DEF vars
<1>7. QED
  BY <1>1, <1>2, <1>3, <1>4, <1>5, <1>6 DEF Next

-----------------------------------------------------------------------------
(***************************************************************************)
(* Requests and roles.                                                     *)
(***************************************************************************)
\* What a verdict leaves of a movement's request.
LEMMA MovementVerdict ==
  ASSUME Types, RequestsOK, NEW d \in Decisions, DecideWrite(d)
  PROVE  LET a == decide[d].ask IN
         /\ a \in Movements /\ request[a] # NoRequest
         /\ request'[a] # NoRequest /\ request'[a].target = a /\ request'[a].by = {d}
         /\ \A m \in Movements : m # a => request'[m] = request[m]
         /\ approved \subseteq approved'
<1> DEFINE a == decide[d].ask
<1>1. /\ a \in Asks /\ request[a] \in RequestRow /\ request'[a] \in RequestRow
      /\ request'[a].target = request[a].target /\ request'[a].by = {d}
      /\ request' = [request EXCEPT ![a] = request'[a]] /\ approved \subseteq approved'
  BY Verdict DEF Types, RequestsOK
<1>2. \A m \in Movements : m # a => request'[m] = request[m]
  BY <1>1, Disjoint DEF Types
<1>3. QED
  BY <1>1, <1>2, RowsExist, Disjoint DEF RequestsOK

LEMMA RequestsStep ==
  ASSUME Types, RequestsOK, [Next]_vars
  PROVE  RequestsOK'
<1> USE Disjoint DEF Types, Goto, approvalVars, movementVars
<1>1. ASSUME NEW d \in Decisions, DecideWrite(d)
      PROVE  RequestsOK'
  <2>1. RequestsHeld'
    BY <1>1, ApprovalsStep DEF ApprovalsNext, RequestsOK
  <2>2. QED
    BY <1>1, <2>1, MovementVerdict DEF RequestsOK
<1>2. ASSUME ApprovalsNext, UNCHANGED request
      PROVE  RequestsOK'
  BY <1>2, ApprovalsStep DEF RequestsOK
<1>3. ASSUME NEW m \in Movements, Hold(m)
      PROVE  RequestsOK'
  <2>1. /\ request'[m].target = m /\ request' = [request EXCEPT ![m] = request'[m]]
        /\ RequestsHeld'
    BY <1>3, NewRequest, NewRequestStep DEF Hold, RequestsOK
  <2>2. QED
    BY <2>1 DEF RequestsOK
<1>4. ASSUME UNCHANGED <<request, approved, decide>>
      PROVE  RequestsOK'
  BY <1>4 DEF RequestsOK
<1>5. ASSUME Crash
      PROVE  RequestsOK'
  BY <1>5, LostStep DEF Crash, RequestsOK
<1>6. ASSUME NEW c \in Calls, PostEntry(c) \/ Link(c) \/ LinkFails(c)
      PROVE  UNCHANGED <<request, approved, decide>>
  BY <1>6 DEF PostEntry, Link, LinkFails
<1>7. ASSUME NEW p \in Posts, PostApprovedMovement(p)
      PROVE  UNCHANGED <<request, approved, decide>>
  BY <1>7 DEF PostApprovedMovement, PostCheck, PostRead
<1>8. ASSUME NEW m \in Movements, Create(m) \/ AskRule(m)
      PROVE  UNCHANGED <<request, approved, decide>>
  BY <1>8 DEF Create, AskRule
<1>9. ASSUME ApprovalsNext
      PROVE  UNCHANGED request \/ \E d \in Decisions : DecideWrite(d)
  BY <1>9 DEF ApprovalsNext, EditRules, DecideRead, DecideCheck
<1>10. CASE UNCHANGED vars
  BY <1>4, <1>10 DEF vars
<1>11. QED
  BY <1>1, <1>2, <1>3, <1>4, <1>5, <1>6, <1>7, <1>8, <1>9, <1>10 DEF Next, AddMovement

\* A step that leaves the rules alone, and whatever RolesOK looks at.
LEMMA RolesKept ==
  ASSUME RolesOK, UNCHANGED <<rules, ruleEdits, request>>,
         \A m \in Movements : pc'[m] = "ask" => pc[m] = "ask",
         \A d \in Decisions : decide'[d] = decide[d] \/ decide'[d].at # "may"
  PROVE  RolesOK'
BY SameRules DEF RolesOK

LEMMA RolesStep ==
  ASSUME Types, RequestsOK, RolesOK, [Next]_vars
  PROVE  RolesOK'
<1> USE Disjoint DEF Types, Goto, approvalVars, movementVars
<1>1. ASSUME EditRules
      PROVE  RolesOK'
  BY <1>1 DEF EditRules, RolesOK
<1>2. ASSUME NEW d \in Decisions, NEW a \in Asks, DecideRead(d, a), UNCHANGED movementVars
      PROVE  RolesOK'
  BY <1>2, RolesKept DEF DecideRead
<1>3. ASSUME NEW d \in Decisions, DecideCheck(d), UNCHANGED movementVars
      PROVE  RolesOK'
  <2> DEFINE a == decide[d].ask
  <2>1. /\ a \in Movements /\ request[a] # NoRequest /\ request[a].target = a
        /\ UNCHANGED <<rules, ruleEdits, request, pc>>
    BY <1>3 DEF DecideCheck, RequestsOK
  <2>2. ASSUME ruleEdits = 0
        PROVE  \/ decide' = [decide EXCEPT ![d].at = "ended"]
               \/ decide' = [decide EXCEPT ![d].at = "may"] /\ Qualified(d, a)
    BY <1>3, <2>1, <2>2 DEF DecideCheck, Qualified, RolesOK
  <2>3. ASSUME ruleEdits = 0
        PROVE  \A e \in Decisions : /\ decide'[e].ask = decide[e].ask
                                    /\ e # d => decide'[e] = decide[e]
                                    /\ decide'[e].at = "may" => Qualified(e, decide[e].ask)
    BY <2>2, <2>3 DEF RolesOK
  <2> HIDE DEF a, Types
  <2>4. QED
    BY <2>1, <2>3, SameRules DEF RolesOK
<1>4. ASSUME NEW d \in Decisions, DecideWrite(d), UNCHANGED movementVars
      PROVE  RolesOK'
  <2> DEFINE a == decide[d].ask
  <2>1. \A e \in Decisions : decide'[e] = decide[e] \/ decide'[e].at # "may"
    BY <1>4 DEF DecideWrite
  <2>2. ASSUME ruleEdits = 0
        PROVE  Qualified(d, a)
    BY <1>4, <2>2 DEF DecideWrite, RolesOK
  <2>3. /\ a \in Movements /\ request[a] # NoRequest /\ request'[a].by = {d}
        /\ \A m \in Movements : m # a => request'[m] = request[m]
    BY <1>4, MovementVerdict
  <2>4. UNCHANGED <<rules, ruleEdits, pc>>
    BY <1>4 DEF DecideWrite
  <2> HIDE DEF a, Types
  <2>5. QED
    BY <2>1, <2>2, <2>3, <2>4, SameRules DEF RolesOK
<1>5. ASSUME NEW m \in Movements, AskRule(m)
      PROVE  RolesOK'
  <2>1. m \in Calls /\ \A q \in Movements : q \in Calls
    BY DEF Calls
  <2>2. /\ pc'[m] = "ask" => NeedsApproval(m)
        /\ \A q \in Movements : q # m => pc'[q] = pc[q]
        /\ UNCHANGED <<rules, ruleEdits, request, decide>>
    BY <1>5, <2>1 DEF AskRule
  <2> HIDE DEF Types
  <2>3. QED
    BY <2>2, SameRules DEF RolesOK
<1>6. ASSUME NEW m \in Movements, Hold(m)
      PROVE  RolesOK'
  <2> DEFINE new == [target |-> m, status |-> "PENDING", by |-> {}]
  <2>1. m \in Calls /\ \A q \in Movements : q \in Calls
    BY DEF Calls
  <2>2. request' = [request EXCEPT ![m] = new] /\ new.by = {}
    BY <1>6 DEF Hold, CreateRequest
  <2>3. /\ request'[m].by = {} /\ \A q \in Movements : q # m => request'[q] = request[q]
    BY <2>2
  <2>4. /\ pc[m] = "ask" /\ \A q \in Movements : pc'[q] = "ask" => pc[q] = "ask"
        /\ UNCHANGED <<rules, ruleEdits, decide>>
    BY <1>6, <2>1 DEF Hold, CreateRequest
  <2> HIDE DEF Types, new
  <2>5. QED
    BY <2>3, <2>4, SameRules DEF RolesOK
<1>7. ASSUME NEW m \in Movements, Create(m)
      PROVE  RolesOK'
  <2>1. m \in Calls /\ \A q \in Movements : q \in Calls
    BY DEF Calls
  <2>2. QED
    BY <1>7, <2>1, RolesKept DEF Create
<1>8. ASSUME NEW p \in Posts, PostApprovedMovement(p)
      PROVE  RolesOK'
  <2>1. p \in Calls /\ \A q \in Movements : q \in Calls /\ q # p
    BY DEF Calls
  <2>2. /\ \A q \in Movements : pc'[q] = pc[q]
        /\ UNCHANGED <<rules, ruleEdits, request, decide>>
    BY <1>8, <2>1 DEF PostApprovedMovement, PostCheck, PostRead
  <2>3. QED
    BY <2>2, RolesKept
<1>9. ASSUME NEW c \in Calls, PostEntry(c) \/ Link(c) \/ LinkFails(c)
      PROVE  RolesOK'
  <2>1. \A q \in Movements : q \in Calls
    BY DEF Calls
  <2>2. /\ \A q \in Movements : pc'[q] = "ask" => pc[q] = "ask"
        /\ UNCHANGED <<rules, ruleEdits, request, decide>>
    BY <1>9, <2>1 DEF PostEntry, Link, LinkFails
  <2>3. QED
    BY <2>2, RolesKept
<1>10. ASSUME Crash
       PROVE  RolesOK'
  <2>1. \A q \in Movements : q \in Calls
    BY DEF Calls
  <2>2. /\ \A d \in Decisions : decide'[d] = decide[d] \/ decide'[d].at # "may"
        /\ \A q \in Movements : pc'[q] # "ask"
    BY <1>10, <2>1 DEF Crash, DecisionsLost
  <2>3. QED
    BY <1>10, <2>2, RolesKept DEF Crash
<1>11. CASE UNCHANGED vars
  BY <1>11, RolesKept DEF vars
<1>12. QED
  BY <1>1, <1>2, <1>3, <1>4, <1>5, <1>6, <1>7, <1>8, <1>9, <1>10, <1>11
     DEF Next, ApprovalsNext, AddMovement

-----------------------------------------------------------------------------
(***************************************************************************)
(* Entries and their causes.                                               *)
(***************************************************************************)
\* What the move of one call does to those that wait for the same movement.
LEMMA CallMoves ==
  ASSUME Types, NEW c \in Calls, NEW x, Goto(c, x), UNCHANGED mine,
         NEW m \in Movements
  PROVE  /\ m # Movement(c) => Waiting(m)' = Waiting(m) /\ (Touched(m)' <=> Touched(m))
         /\ m = Movement(c) =>
              /\ x \in {"created", "ask", "read", "post"} => Waiting(m)' = Waiting(m) \cup {c}
              /\ x \notin {"created", "ask", "read", "post"} => Waiting(m)' = Waiting(m) \ {c}
              /\ x \notin {"new", "ended"} => Touched(m)'
<1>1. \A b \in Calls : /\ Movement(b)' = Movement(b)
                       /\ pc'[b] = IF b = c THEN x ELSE pc[b]
  BY DEF Types, Goto, Movement
<1>2. QED
  BY <1>1 DEF Waiting, Touched, Running

\* A movement that a step does not concern; it may excuse more.
LEMMA CausesKept ==
  ASSUME Types, Types', NEW m \in Movements, CausesOf(m),
         Waiting(m)' = Waiting(m), Touched(m)' <=> Touched(m),
         entries'[m] = entries[m], row'[m] = row[m], pc'[m] = "new" <=> pc[m] = "new",
         overlaps'[m] >= overlaps[m], faults' >= faults
  PROVE  CausesOf(m)'
<1>1. Cardinality(Waiting(m)) \in Nat
  BY FS_CardinalityType DEF CausesOf
<1>2. QED
  BY <1>1 DEF CausesOf, Types

\* A call that waits no longer, and has made no entry.
LEMMA OneLess ==
  ASSUME Types, Types', NEW m \in Movements, CausesOf(m), NEW c \in Waiting(m),
         Waiting(m)' = Waiting(m) \ {c},
         entries'[m] = entries[m], row'[m] = row[m], pc'[m] # "new", row[m] # "absent",
         overlaps'[m] = overlaps[m], faults' = faults
  PROVE  CausesOf(m)'
<1>1. /\ IsFiniteSet(Waiting(m)')
      /\ Cardinality(Waiting(m)') = Cardinality(Waiting(m)) - 1
  BY FS_RemoveElement DEF CausesOf
<1>2. Cardinality(Waiting(m)) \in Nat /\ Cardinality(Waiting(m)') \in Nat
  BY <1>1, FS_CardinalityType DEF CausesOf
<1>3. QED
  BY <1>1, <1>2 DEF CausesOf, Types

LEMMA CausesStep ==
  ASSUME Types, Types', CausesOK, [Next]_vars
  PROVE  CausesOK'
<1> SUFFICES ASSUME NEW n \in Movements
             PROVE  CausesOf(n)'
  BY DEF CausesOK
<1> USE Disjoint DEF approvalVars, movementVars
<1>1. CausesOf(n) /\ n \in Calls
  BY DEF CausesOK, Calls
<1>2. /\ Cardinality(Waiting(n)) \in Nat /\ entries[n] \in Nat /\ overlaps[n] \in Nat
      /\ faults \in Nat /\ row[n] \in {"absent", "unposted", "linked"}
  BY <1>1, FS_CardinalityType DEF CausesOf, Types
<1>3. ASSUME UNCHANGED movementVars
      PROVE  CausesOf(n)'
  <2>1. Waiting(n)' = Waiting(n) /\ (Touched(n)' <=> Touched(n))
    BY <1>3 DEF Waiting, Touched, Running, Movement
  <2>2. UNCHANGED <<entries, row, pc, overlaps, faults>>
    BY <1>3
  <2>3. QED
    BY <1>1, <2>1, <2>2 DEF CausesOf
<1>4. ASSUME NEW m \in Movements, AddMovement(m)
      PROVE  CausesOf(n)'
  <2>1. m \in Calls /\ Movement(m) = m
    BY DEF Calls, Movement
  <2>2. CASE Create(m)
    <3>1. UNCHANGED <<entries, overlaps, faults, mine>> /\ Goto(m, "created") /\ pc[m] = "new"
          /\ row' = [row EXCEPT ![m] = "unposted"]
      BY <2>2 DEF Create
    <3>2. CASE n = m
      <4>1. row[n] = "absent" /\ ~Touched(n) /\ entries[n] = 0
        BY <1>1, <3>1, <3>2 DEF CausesOf
      <4>2. Waiting(n) = {}
        BY <4>1 DEF Touched, Waiting, Running
      <4>3. Waiting(n)' = {m} /\ Touched(n)'
        BY <2>1, <3>1, <3>2, <4>2, CallMoves
      <4>4. IsFiniteSet(Waiting(n)') /\ Cardinality(Waiting(n)') = 1
        BY <4>3, FS_Singleton
      <4>5. pc'[n] = "created" /\ row'[n] = "unposted"
        BY <2>1, <3>1, <3>2 DEF Goto, Types
      <4>6. QED
        BY <1>2, <3>1, <4>1, <4>3, <4>4, <4>5 DEF CausesOf
    <3>3. CASE n # m
      <4>1. pc'[n] = pc[n] /\ row'[n] = row[n]
        BY <1>1, <3>1, <3>3 DEF Goto, Types
      <4>2. Waiting(n)' = Waiting(n) /\ (Touched(n)' <=> Touched(n))
        BY <2>1, <3>1, <3>3, CallMoves
      <4>3. QED
        BY <1>1, <1>2, <3>1, <4>1, <4>2, CausesKept
    <3>4. QED
      BY <3>2, <3>3
  <2>3. CASE AskRule(m)
    <3>1. PICK x \in {"ask", "post"} : Goto(m, x)
      BY <2>3 DEF AskRule
    <3>2. pc[m] = "created" /\ UNCHANGED <<mine, row, entries, overlaps, faults>>
      BY <2>3 DEF AskRule
    <3>3. m \in Waiting(m) /\ Touched(m)
      BY <2>1, <3>2 DEF Waiting, Touched, Running
    <3>4. Waiting(n)' = Waiting(n) /\ (Touched(n)' <=> Touched(n))
      BY <2>1, <3>1, <3>2, <3>3, CallMoves
    <3>5. pc'[n] = "new" <=> pc[n] = "new"
      BY <1>1, <2>1, <3>1, <3>2 DEF Goto, Types
    <3>6. QED
      BY <1>1, <1>2, <3>2, <3>4, <3>5, CausesKept
  <2>4. CASE Hold(m)
    <3>1. pc[m] = "ask" /\ Goto(m, "ended") /\ UNCHANGED <<mine, row, entries, overlaps, faults>>
      BY <2>4 DEF Hold
    <3>2. CASE n = m
      <4>1. m \in Waiting(n) /\ row[n] # "absent"
        BY <1>1, <2>1, <3>1, <3>2 DEF Waiting, CausesOf
      <4>2. Waiting(n)' = Waiting(n) \ {m}
        BY <2>1, <3>1, <3>2, CallMoves
      <4>3. pc'[n] # "new"
        BY <2>1, <3>1, <3>2 DEF Goto, Types
      <4>4. QED
        BY <1>1, <3>1, <4>1, <4>2, <4>3, OneLess
    <3>3. CASE n # m
      <4>1. pc'[n] = pc[n]
        BY <1>1, <3>1, <3>3 DEF Goto, Types
      <4>2. Waiting(n)' = Waiting(n) /\ (Touched(n)' <=> Touched(n))
        BY <2>1, <3>1, <3>3, CallMoves
      <4>3. QED
        BY <1>1, <1>2, <3>1, <4>1, <4>2, CausesKept
    <3>4. QED
      BY <3>2, <3>3
  <2>5. QED
    BY <1>4, <2>2, <2>3, <2>4 DEF AddMovement
<1>5. ASSUME NEW p \in Posts, NEW m \in Movements, PostRead(p, m)
      PROVE  CausesOf(n)'
  <2>1. p \in Calls /\ p # n /\ pc[p] = "new"
    BY <1>5 DEF Calls, PostRead
  <2>2. /\ \A b \in Calls : /\ Movement(b)' = IF b = p THEN m ELSE Movement(b)
                            /\ pc'[b] = IF b = p THEN "read" ELSE pc[b]
        /\ UNCHANGED <<row, entries, faults>> /\ row[m] = "unposted"
        /\ overlaps' = [overlaps EXCEPT ![m] = IF Touched(m) THEN @ + 1 ELSE @]
    BY <1>5, <2>1 DEF PostRead, Goto, Types, Movement
  <2>3. \A b \in Calls : b \in Waiting(n) => b # p
    BY <2>1 DEF Waiting
  <2>4. CASE n = m
    <3>1. Waiting(n)' = Waiting(n) \cup {p} /\ p \notin Waiting(n) /\ Touched(n)'
      BY <2>1, <2>2, <2>3, <2>4 DEF Waiting, Touched, Running
    <3>2. IsFiniteSet(Waiting(n)') /\ Cardinality(Waiting(n)') = Cardinality(Waiting(n)) + 1
      BY <1>1, <3>1, FS_AddElement DEF CausesOf
    <3>3. Touched(n) => overlaps'[n] = overlaps[n] + 1
      BY <2>2, <2>4 DEF Types
    <3>4. ~Touched(n) => overlaps'[n] = overlaps[n] /\ Waiting(n) = {}
      BY <2>2, <2>4 DEF Types, Touched, Waiting, Running
    <3>5. ~Touched(n) => Cardinality(Waiting(n)) = 0 /\ entries[n] <= overlaps[n] + faults
      BY <1>1, <2>2, <2>4, <3>4, FS_EmptySet DEF CausesOf
    <3>6. pc'[n] = pc[n] /\ row'[n] = "unposted"
      BY <1>1, <2>1, <2>2, <2>4
    <3>7. QED
      BY <1>1, <1>2, <2>2, <3>1, <3>2, <3>3, <3>5, <3>6 DEF CausesOf
  <2>5. CASE n # m
    <3>1. Waiting(n)' = Waiting(n)
      BY <2>1, <2>2, <2>3, <2>5 DEF Waiting
    <3>2. Touched(n)' <=> Touched(n)
      BY <2>1, <2>2, <2>5 DEF Touched, Running
    <3>3. pc'[n] = pc[n] /\ overlaps'[n] = overlaps[n]
      BY <1>1, <2>1, <2>2, <2>5 DEF Types
    <3>4. QED
      BY <1>1, <1>2, <2>2, <3>1, <3>2, <3>3, CausesKept
  <2>6. QED
    BY <2>4, <2>5
<1>6. ASSUME NEW p \in Posts, PostCheck(p)
      PROVE  CausesOf(n)'
  <2>1. p \in Calls /\ p # n
    BY DEF Calls
  <2>2. PICK x \in {"post", "ended"} : Goto(p, x)
    BY <1>6 DEF PostCheck
  <2>3. pc[p] = "read" /\ UNCHANGED <<mine, row, entries, overlaps, faults>>
    BY <1>6 DEF PostCheck
  <2>4. pc'[n] = pc[n]
    BY <1>1, <2>1, <2>2 DEF Goto, Types
  <2>5. CASE n = Movement(p)
    <3>1. p \in Waiting(n) /\ Touched(n)
      BY <2>1, <2>3, <2>5 DEF Waiting, Touched, Running
    <3>2. CASE x = "post"
      <4>1. Waiting(n)' = Waiting(n) /\ Touched(n)'
        BY <2>1, <2>2, <2>3, <2>5, <3>1, <3>2, CallMoves
      <4>2. QED
        BY <1>1, <1>2, <2>3, <2>4, <3>1, <4>1, CausesKept
    <3>3. CASE x = "ended"
      <4>1. Waiting(n)' = Waiting(n) \ {p}
        BY <2>1, <2>2, <2>3, <2>5, <3>3, CallMoves
      <4>2. row[n] # "absent" /\ pc[n] # "new"
        BY <1>1, <3>1 DEF CausesOf
      <4>3. QED
        BY <1>1, <2>3, <2>4, <3>1, <4>1, <4>2, OneLess
    <3>4. QED
      BY <2>2, <3>2, <3>3
  <2>6. CASE n # Movement(p)
    <3>1. Waiting(n)' = Waiting(n) /\ (Touched(n)' <=> Touched(n))
      BY <2>1, <2>2, <2>3, <2>6, CallMoves
    <3>2. QED
      BY <1>1, <1>2, <2>3, <2>4, <3>1, CausesKept
  <2>7. QED
    BY <2>5, <2>6
<1>7. ASSUME NEW c \in Calls, PostEntry(c) \/ Link(c) \/ LinkFails(c)
      PROVE  CausesOf(n)'
  <2>1. Movement(c) \in Movements
    BY MovementOfCall
  <2>2. /\ pc[c] \in {"post", "link"}
        /\ \E x \in {"link", "ended"} : Goto(c, x)
        /\ UNCHANGED <<mine, overlaps>>
    BY <1>7 DEF PostEntry, Link, LinkFails
  <2>3. pc'[n] = "new" <=> pc[n] = "new"
    BY <1>1, <2>2 DEF Goto, Types
  <2>4. CASE n # Movement(c)
    <3>1. Waiting(n)' = Waiting(n) /\ (Touched(n)' <=> Touched(n))
      BY <2>2, <2>4, CallMoves
    <3>2. /\ entries'[n] = entries[n] /\ row'[n] = row[n] /\ faults' \in {faults, faults + 1}
      BY <1>7, <2>1, <2>4 DEF PostEntry, Link, LinkFails, Fault, Types
    <3>3. QED
      BY <1>1, <1>2, <2>2, <2>3, <3>1, <3>2, CausesKept
  <2>5. CASE n = Movement(c)
    <3>1. Touched(n) /\ (pc[c] = "post" <=> c \in Waiting(n))
      BY <2>2, <2>5 DEF Touched, Running, Waiting
    <3>2. row[n] # "absent" /\ pc[n] # "new"
      BY <1>1, <3>1 DEF CausesOf
    <3>3. Waiting(n)' = Waiting(n) \ {c}
      BY <2>2, <2>5, CallMoves
    <3>4. CASE PostEntry(c) /\ entries' = entries
      BY <1>1, <2>3, <2>5, <3>1, <3>2, <3>3, <3>4, OneLess DEF PostEntry
    <3>5. CASE PostEntry(c) /\ entries' # entries
      <4>1. Goto(c, "link") /\ pc[c] = "post" /\ entries'[n] = entries[n] + 1
            /\ row' = row /\ overlaps' = overlaps /\ faults' = faults
        BY <2>5, <3>5 DEF PostEntry, Types
      <4>2. Touched(n)'
        BY <2>2, <2>5, <4>1, CallMoves
      <4>3. /\ IsFiniteSet(Waiting(n)')
            /\ Cardinality(Waiting(n)') = Cardinality(Waiting(n)) - 1
        BY <1>1, <3>1, <3>3, <4>1, FS_RemoveElement DEF CausesOf
      <4>4. Cardinality(Waiting(n)') \in Nat
        BY <4>3, FS_CardinalityType
      <4>5. QED
        BY <1>1, <1>2, <2>3, <3>2, <4>1, <4>2, <4>3, <4>4 DEF CausesOf
    <3>6. CASE Link(c) \/ LinkFails(c)
      <4>1. pc[c] = "link" /\ entries' = entries /\ overlaps' = overlaps
        BY <3>6 DEF Link, LinkFails
      <4>2. Waiting(n)' = Waiting(n)
        BY <3>1, <3>3, <4>1
      <4>3. \/ row'[n] = "linked" /\ faults' = faults
            \/ row'[n] = row[n] /\ faults' = faults + 1
        BY <2>5, <3>6 DEF Link, LinkFails, Fault, Types
      <4>4. QED
        BY <1>1, <1>2, <2>3, <3>2, <4>1, <4>2, <4>3 DEF CausesOf
    <3>7. QED
      BY <1>7, <3>4, <3>5, <3>6
  <2>6. QED
    BY <2>4, <2>5
<1>8. ASSUME Crash
      PROVE  CausesOf(n)'
  <2>1. /\ \A b \in Calls : pc'[b] \in {"new", "ended"} /\ (pc'[b] = "new" <=> pc[b] = "new")
        /\ UNCHANGED <<mine, row, entries, overlaps>> /\ faults' = faults + 1
    BY <1>8 DEF Crash, Fault
  <2>2. Waiting(n)' = {} /\ ~Touched(n)'
    BY <2>1 DEF Waiting, Touched, Running
  <2>3. IsFiniteSet(Waiting(n)') /\ Cardinality(Waiting(n)') = 0
    BY <2>2, FS_EmptySet
  <2>4. QED
    BY <1>1, <1>2, <2>1, <2>2, <2>3 DEF CausesOf
<1>9. CASE UNCHANGED vars
  BY <1>3, <1>9 DEF vars
<1>10. QED
  BY <1>3, <1>4, <1>5, <1>6, <1>7, <1>8, <1>9 DEF Next, PostApprovedMovement

-----------------------------------------------------------------------------
(***************************************************************************)
(* Movements that are held.                                                *)
(***************************************************************************)
\* What a step leaves undisturbed was so before, under the same rules.
LEMMA StillUndisturbed ==
  ASSUME Types, Types', [Next]_vars, NEW n \in Movements, Undisturbed(n)'
  PROVE  /\ Undisturbed(n) /\ overlaps'[n] = 0 /\ ~EditRules /\ ~Crash
         /\ \A c \in Calls : ~LinkFails(c)
<1> USE Disjoint DEF approvalVars, movementVars
<1>1. n \in Expenses /\ NeedsApproval(n)' /\ ruleEdits' = 0 /\ overlaps'[n] = 0 /\ faults' = 0
  BY DEF Undisturbed, Held
<1>2. ~EditRules /\ ~Crash /\ \A c \in Calls : ~LinkFails(c)
  BY <1>1 DEF EditRules, Crash, LinkFails, Fault, Types
<1>3. UNCHANGED <<rules, ruleEdits, faults>>
  BY <1>2 DEF Next, ApprovalsNext, DecideRead, DecideCheck, DecideWrite, AddMovement, Create,
              AskRule, Hold, CreateRequest, PostApprovedMovement, PostCheck, PostRead, PostEntry,
              Link, vars
<1>4. overlaps[n] = 0
  <2>1. ASSUME NEW p \in Posts, NEW m \in Movements, PostRead(p, m)
        PROVE  overlaps[n] = 0
    BY <1>1, <2>1 DEF PostRead, Types
  <2>2. ASSUME overlaps' = overlaps
        PROVE  overlaps[n] = 0
    BY <1>1, <2>2
  <2>3. QED
    BY <1>2, <2>1, <2>2
       DEF Next, ApprovalsNext, AddMovement, Create, AskRule, Hold, PostApprovedMovement,
           PostCheck, PostEntry, Link, vars
<1>5. QED
  BY <1>1, <1>2, <1>3, <1>4, SameRules DEF Undisturbed, Held

\* A step that moves neither the call of n nor a post of it.
LEMMA HeldKept ==
  ASSUME NEW n \in Movements, HeldOf(n), pc'[n] = pc[n], entries'[n] = entries[n],
         request[n] # NoRequest => request'[n] # NoRequest, approved \subseteq approved',
         \A p \in Posts : mine'[p] = n /\ pc'[p] \in {"read", "post", "link"}
                          => mine[p] = n /\ pc[p] = pc'[p]
  PROVE  HeldOf(n)'
BY DEF HeldOf

LEMMA HeldStep ==
  ASSUME IInv, Types', [Next]_vars
  PROVE  HeldOK'
<1> SUFFICES ASSUME NEW n \in Movements, Undisturbed(n)'
             PROVE  HeldOf(n)'
  BY DEF HeldOK
<1> USE Disjoint DEF approvalVars, movementVars
<1>1. /\ Undisturbed(n) /\ overlaps'[n] = 0 /\ ~EditRules /\ ~Crash
      /\ \A c \in Calls : ~LinkFails(c)
  BY StillUndisturbed DEF IInv
<1>2. HeldOf(n) /\ n \in Calls /\ Types
  BY <1>1 DEF IInv, HeldOK, Calls
<1>3. ASSUME NEW d \in Decisions, DecideWrite(d), UNCHANGED movementVars
      PROVE  HeldOf(n)'
  BY <1>2, <1>3, MovementVerdict, HeldKept DEF IInv
<1>4. ASSUME NEW d \in Decisions, DecideCheck(d) \/ (\E a \in Asks : DecideRead(d, a)),
             UNCHANGED movementVars
      PROVE  HeldOf(n)'
  BY <1>2, <1>4, HeldKept DEF DecideCheck, DecideRead
<1>5. ASSUME NEW m \in Movements, AddMovement(m)
      PROVE  HeldOf(n)'
  <2>1. m \in Calls /\ m \in Asks /\ \A p \in Posts : p \in Calls /\ p # m
    BY DEF Calls
  <2>2. /\ \A c \in Calls : c # m => pc'[c] = pc[c]
        /\ UNCHANGED <<mine, entries, approved>>
        /\ \A q \in Movements : request[q] # NoRequest => request'[q] # NoRequest
    <3>1. [target |-> m, status |-> "PENDING", by |-> {}] \in RequestRow
      BY DEF RequestRow
    <3>2. QED
      BY <1>2, <1>5, <2>1, <3>1, RowsExist
         DEF AddMovement, Create, AskRule, Hold, CreateRequest, Goto, Types
  <2>3. CASE n # m
    BY <1>2, <2>1, <2>2, <2>3, HeldKept
  <2>4. CASE n = m
    <3>1. \A p \in Posts : pc'[p] = pc[p] /\ mine'[p] = mine[p]
      BY <2>1, <2>2
    <3>2. \/ pc'[n] \in {"created", "ask"}
          \/ pc'[n] = "ended" /\ request'[n] # NoRequest
      <4>1. CASE Create(m)
        BY <1>2, <2>4, <4>1 DEF Create, Goto, Types
      <4>2. CASE AskRule(m)
        <5>1. m \in Expenses /\ NeedsApproval(m)
          BY <1>1, <2>4 DEF Undisturbed, Held
        <5>2. QED
          BY <1>2, <2>4, <4>2, <5>1 DEF AskRule, Goto, Types
      <4>3. CASE Hold(m)
        <5>1. [target |-> m, status |-> "PENDING", by |-> {}] \in RequestRow
          BY DEF RequestRow
        <5>2. QED
          BY <1>2, <2>1, <2>4, <4>3, <5>1, RowsExist DEF Hold, CreateRequest, Goto, Types
      <4>4. QED
        BY <1>5, <4>1, <4>2, <4>3 DEF AddMovement
    <3>3. QED
      BY <1>2, <2>2, <2>4, <3>1, <3>2 DEF HeldOf
  <2>5. QED
    BY <2>3, <2>4
<1>6. ASSUME NEW p \in Posts, NEW m \in Movements, PostRead(p, m)
      PROVE  HeldOf(n)'
  <2>1. /\ p \in Calls /\ p # n
        /\ mine' = [mine EXCEPT ![p] = m] /\ pc' = [pc EXCEPT ![p] = "read"]
        /\ UNCHANGED <<request, approved, entries>> /\ row[m] = "unposted"
    BY <1>6 DEF PostRead, Goto, Calls
  <2>2. /\ mine'[p] = m /\ pc'[p] = "read" /\ pc'[n] = pc[n]
        /\ \A q \in Posts : q # p => mine'[q] = mine[q] /\ pc'[q] = pc[q]
    BY <1>2, <2>1 DEF Types, Calls
  <2>3. CASE n # m
    BY <1>2, <2>1, <2>2, <2>3, HeldKept
  <2>4. CASE n = m
    <3>1. ~Touched(n)
      BY <1>1, <1>2, <1>6, <2>4 DEF PostRead, Types
    <3>2. Movement(n) = n
      BY DEF Movement
    <3>3. pc[n] = "ended"
      <4>1. pc[n] \in {"new", "ended"}
        BY <1>2, <3>1, <3>2 DEF Touched, Running
      <4>2. pc[n] # "new"
        BY <2>1, <2>4 DEF IInv, CausesOK, CausesOf
      <4>3. QED
        BY <4>1, <4>2
    <3>4. request[n] # NoRequest
      BY <1>2, <3>3 DEF HeldOf
    <3>5. QED
      BY <1>2, <2>1, <2>2, <3>3, <3>4 DEF HeldOf
  <2>5. QED
    BY <2>3, <2>4
<1>7. ASSUME NEW p \in Posts, PostCheck(p)
      PROVE  HeldOf(n)'
  <2>1. /\ p \in Calls /\ p # n /\ pc[p] = "read"
        /\ UNCHANGED <<request, approved, entries, mine>>
    BY <1>7 DEF PostCheck, Calls
  <2>2. /\ pc'[n] = pc[n] /\ pc'[p] \in {"post", "ended"}
        /\ \A q \in Posts : q # p => pc'[q] = pc[q]
    BY <1>2, <1>7 DEF PostCheck, Goto, Types, Calls
  <2>3. mine[p] = n /\ pc'[p] = "post" => n \in approved
    <3>1. mine[p] = n => request[n] # NoRequest
      BY <1>2, <2>1 DEF HeldOf
    <3>2. mine[p] = n /\ pc'[p] = "post" => request[n].status = "APPROVED"
      BY <1>2, <1>7, <2>1, <3>1 DEF PostCheck, Goto, Types
    <3>3. QED
      BY <3>1, <3>2 DEF IInv, RequestsOK
  <2>4. QED
    BY <1>2, <2>1, <2>2, <2>3 DEF HeldOf
<1>8. ASSUME NEW c \in Calls, PostEntry(c) \/ Link(c)
      PROVE  HeldOf(n)'
  <2>1. /\ pc[c] \in {"post", "link"} /\ UNCHANGED <<request, approved, mine>>
        /\ pc'[c] \in {"link", "ended"} /\ \A b \in Calls : b # c => pc'[b] = pc[b]
        /\ pc'[c] = "link" => pc[c] = "post"
    BY <1>2, <1>8 DEF PostEntry, Link, Goto, Types
  <2>2. c # n
    BY <1>2, <2>1 DEF HeldOf
  <2>3. CASE Movement(c) # n
    <3>1. entries'[n] = entries[n]
      BY <1>2, <1>8, <2>3, MovementOfCall DEF PostEntry, Link, Types
    <3>2. \A p \in Posts : mine'[p] = n /\ pc'[p] \in {"read", "post", "link"}
                           => mine[p] = n /\ pc[p] = pc'[p]
      BY <2>1, <2>3 DEF Movement, Calls
    <3>3. QED
      BY <1>2, <2>1, <2>2, <3>1, <3>2, HeldKept
  <2>4. CASE Movement(c) = n
    <3>1. c \in Posts /\ mine[c] = n
      BY <2>2, <2>4 DEF Movement
    <3>2. n \in approved /\ request[n] # NoRequest
      BY <1>2, <2>1, <3>1 DEF HeldOf
    <3>3. QED
      BY <1>2, <2>1, <2>2, <3>2 DEF HeldOf
  <2>5. QED
    BY <2>3, <2>4
<1>9. CASE UNCHANGED vars
  BY <1>2, <1>9, HeldKept DEF vars
<1>10. QED
  BY <1>1, <1>3, <1>4, <1>5, <1>6, <1>7, <1>8, <1>9 DEF Next, ApprovalsNext, PostApprovedMovement

-----------------------------------------------------------------------------
\* The inductive invariant holds in every reachable state.
LEMMA Invariance == Spec => []IInv
<1>1. IInv /\ [Next]_vars => IInv'
  BY TypeStep, RequestsStep, RolesStep, CausesStep, HeldStep DEF IInv
<1>2. QED
  BY <1>1, InitIInv, PTL DEF Spec

(***************************************************************************)
(* Whoever decides a request holds the role of the highest rule its amount *)
(* reaches, whatever decisions and movements run side by side, as long as  *)
(* the rules stay as they were.                                            *)
(***************************************************************************)
THEOREM DecisionsByRole == Spec => []DecidedByRole
<1>1. IInv => DecidedByRole
  <2> SUFFICES ASSUME IInv, ruleEdits = 0, NEW a \in Asks, request[a] # NoRequest,
                      NEW d \in request[a].by
               PROVE  \E r \in Applicable(request[a].target) :
                        /\ RequiredRole[r] \in RolesOf[d]
                        /\ \A q \in Applicable(request[a].target) : MinAmount[q] <= MinAmount[r]
    BY DEF DecidedByRole
  <2>1. request[a].target = a /\ request[a] \in RequestRow
    BY Disjoint DEF IInv, RequestsOK, Types
  <2>2. d \in Decisions
    BY <2>1 DEF RequestRow
  <2>3. Qualified(d, a)
    BY <2>2, Disjoint DEF IInv, RolesOK
  <2>4. QED
    BY <2>1, <2>3 DEF Qualified, TopRules
<1>2. QED
  BY <1>1, Invariance, PTL

(***************************************************************************)
(* A movement has one entry, and one more for each overlap and each fault  *)
(* at most: retries one after the other never book it twice.               *)
(***************************************************************************)
THEOREM EntriesHaveCauses == Spec => []SpareEntriesHaveCauses
<1>1. IInv => SpareEntriesHaveCauses
  <2> SUFFICES ASSUME IInv, NEW m \in Movements
               PROVE  entries[m] <= 1 + overlaps[m] + faults
    BY DEF SpareEntriesHaveCauses
  <2>1. CausesOf(m) /\ entries[m] \in Nat /\ overlaps[m] \in Nat /\ faults \in Nat
    BY DEF IInv, CausesOK, Types
  <2>2. Cardinality(Waiting(m)) \in Nat
    BY <2>1, FS_CardinalityType DEF CausesOf
  <2>3. QED
    BY <2>1, <2>2 DEF CausesOf
<1>2. QED
  BY <1>1, Invariance, PTL

(***************************************************************************)
(* An expense that reaches a threshold is booked after its approval only,  *)
(* when nothing overlapped or failed on it.                                *)
(***************************************************************************)
THEOREM ExpensesAreHeld == Spec => []HeldWhenUndisturbed
<1>1. IInv => HeldWhenUndisturbed
  BY DEF IInv, HeldOK, HeldOf, HeldWhenUndisturbed, Undisturbed
<1>2. QED
  BY <1>1, Invariance, PTL
=============================================================================
