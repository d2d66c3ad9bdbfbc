------------------------- MODULE ProcurementProofs -------------------------
(***************************************************************************)
(* Proofs about Procurement: an order above a threshold is sent after an   *)
(* approval, and is RECEIVED once its lines are.                           *)
(***************************************************************************)
EXTENDS Procurement, SumTheorems

RequestRow == [target: Targets, status: Verdicts \cup {"PENDING"}, by: SUBSET Decisions]

ApprovalTypes ==
  /\ rules \subseteq Rules
  /\ request \in [Asks -> RequestRow \cup {NoRequest}]
  /\ decide \in [Decisions -> [at: {"idle", "read", "may", "ended"}, ask: Asks]]
  /\ approved \subseteq Targets
  /\ ruleEdits \in Nat

(***************************************************************************)
(* An approval is remembered, and a request is there before anyone decides *)
(* it.                                                                     *)
(***************************************************************************)
RequestsHeld ==
  /\ \A a \in Asks : request[a] # NoRequest /\ request[a].status = "APPROVED"
                     => request[a].target \in approved
  /\ \A d \in Decisions : decide[d].at \in {"read", "may"} => request[decide[d].ask] # NoRequest

Qualified(d, t) == \E r \in TopRules(t) : RequiredRole[r] \in RolesOf[d]

-----------------------------------------------------------------------------
(***************************************************************************)
(* Approval requests: decisions, rules and restarts keep what is known of  *)
(* them.                                                                   *)
(***************************************************************************)
\* No row is the absence of one.
LEMMA RowsExist == NoRequest \notin RequestRow
BY ApprovalsAssumption DEF RequestRow

\* Until the rules are edited the applicable ones stay as they are.
LEMMA SameRules ==
  ASSUME UNCHANGED rules
  PROVE  \A t : /\ NeedsApproval(t)' <=> NeedsApproval(t)
                /\ \A d : Qualified(d, t)' <=> Qualified(d, t)
BY DEF NeedsApproval, Qualified, TopRules, Applicable

\* What a verdict leaves.
LEMMA Verdict ==
  ASSUME ApprovalTypes, RequestsHeld, NEW d \in Decisions, DecideWrite(d)
  PROVE  LET a == decide[d].ask IN
         /\ a \in Asks /\ request[a] \in RequestRow /\ request'[a] \in RequestRow
         /\ request'[a].target = request[a].target /\ request'[a].by = {d}
         /\ request'[a].status = "APPROVED" => request'[a].target \in approved'
         /\ request' = [request EXCEPT ![a] = request'[a]]
         /\ approved \subseteq approved' /\ approved' \subseteq Targets
<1> USE DEF ApprovalTypes
<1> DEFINE a == decide[d].ask
<1>1. a \in Asks /\ request[a] \in RequestRow
  BY DEF DecideWrite, RequestsHeld
<1>2. PICK s \in Verdicts :
        /\ request' = [request EXCEPT ![a].status = s, ![a].by = {d}]
        /\ approved' = IF s = "APPROVED" THEN approved \cup {request[a].target} ELSE approved
  BY DEF DecideWrite
<1>3. PICK new \in RequestRow : new = [request[a] EXCEPT !.status = s, !.by = {d}]
  BY <1>1 DEF RequestRow
<1>4. new.status = s /\ new.by = {d} /\ new.target = request[a].target
  BY <1>1, <1>3 DEF RequestRow
<1>5. request' = [request EXCEPT ![a] = new] /\ request[a].target \in Targets
  BY <1>1, <1>2, <1>3 DEF RequestRow
<1>6. QED
  BY <1>1, <1>2, <1>4, <1>5

\* What a new request leaves.
LEMMA NewRequest ==
  ASSUME ApprovalTypes, NEW a \in Asks, NEW t \in Targets, CreateRequest(a, t)
  PROVE  /\ request'[a] \in RequestRow /\ request'[a].target = t /\ request'[a].by = {}
         /\ request'[a].status = "PENDING"
         /\ request' = [request EXCEPT ![a] = request'[a]]
<1> DEFINE new == [target |-> t, status |-> "PENDING", by |-> {}]
<1>1. new \in RequestRow /\ new.target = t /\ new.by = {} /\ new.status = "PENDING"
  BY DEF RequestRow
<1>2. request' = [request EXCEPT ![a] = new]
  BY DEF CreateRequest
<1> HIDE DEF new
<1>3. QED
  BY <1>1, <1>2 DEF ApprovalTypes

\* Decisions and rule edits keep what is known of requests, and approvals stay.
LEMMA ApprovalsStep ==
  ASSUME ApprovalTypes, RequestsHeld, ApprovalsNext
  PROVE  ApprovalTypes' /\ RequestsHeld' /\ approved \subseteq approved'
<1> USE DEF ApprovalTypes
<1>1. CASE EditRules
  BY <1>1 DEF EditRules, RequestsHeld
<1>2. ASSUME NEW d \in Decisions, NEW a \in Asks, DecideRead(d, a)
      PROVE  ApprovalTypes' /\ RequestsHeld' /\ approved \subseteq approved'
  BY <1>2 DEF DecideRead, RequestsHeld
<1>3. ASSUME NEW d \in Decisions, DecideCheck(d)
      PROVE  ApprovalTypes' /\ RequestsHeld' /\ approved \subseteq approved'
  <2>1. PICK x \in {"may", "ended"} : decide' = [decide EXCEPT ![d].at = x]
    BY <1>3 DEF DecideCheck
  <2>2. decide[d].at = "read" /\ UNCHANGED <<rules, request, approved, ruleEdits>>
    BY <1>3 DEF DecideCheck
  <2>3. \A e \in Decisions : decide'[e].ask = decide[e].ask /\ (e # d => decide'[e] = decide[e])
    BY <2>1
  <2>4. ApprovalTypes'
    BY <2>1, <2>2
  <2>5. QED
    BY <2>2, <2>3, <2>4 DEF RequestsHeld
<1>4. ASSUME NEW d \in Decisions, DecideWrite(d)
      PROVE  ApprovalTypes' /\ RequestsHeld' /\ approved \subseteq approved'
  <2>1. /\ decide' \in [Decisions -> [at: {"idle", "read", "may", "ended"}, ask: Asks]]
        /\ \A e \in Decisions : decide'[e] = decide[e] \/ decide'[e].at = "ended"
        /\ UNCHANGED <<rules, ruleEdits>>
    BY <1>4 DEF DecideWrite
  <2> DEFINE a == decide[d].ask
  <2>2. /\ a \in Asks /\ request'[a] \in RequestRow
        /\ request'[a].status = "APPROVED" => request'[a].target \in approved'
        /\ request' = [request EXCEPT ![a] = request'[a]]
        /\ approved \subseteq approved' /\ approved' \subseteq Targets
    BY <1>4, Verdict
  <2>3. \A b \in Asks : b # a => request'[b] = request[b]
    BY <2>2
  <2>4. request' \in [Asks -> RequestRow \cup {NoRequest}]
    BY <2>2
  <2> HIDE DEF a
  <2>5. RequestsHeld'
    BY <2>1, <2>2, <2>3, RowsExist DEF RequestsHeld
  <2>6. QED
    BY <2>1, <2>2, <2>4, <2>5
<1>5. QED
  BY <1>1, <1>2, <1>3, <1>4 DEF ApprovalsNext

\* So does a new request,
LEMMA NewRequestStep ==
  ASSUME ApprovalTypes, RequestsHeld, NEW a \in Asks, NEW t \in Targets, CreateRequest(a, t)
  PROVE  ApprovalTypes' /\ RequestsHeld' /\ approved' = approved
<1>1. /\ request'[a] \in RequestRow /\ request'[a].status = "PENDING"
      /\ request' = [request EXCEPT ![a] = request'[a]]
  BY NewRequest
<1>2. UNCHANGED <<rules, decide, approved, ruleEdits>>
  BY DEF CreateRequest
<1>3. QED
  BY <1>1, <1>2, RowsExist DEF ApprovalTypes, RequestsHeld

\* and so does a restart.
LEMMA LostStep ==
  ASSUME ApprovalTypes, RequestsHeld, DecisionsLost, UNCHANGED <<rules, request, approved, ruleEdits>>
  PROVE  ApprovalTypes' /\ RequestsHeld'
<1>1. /\ \A d \in Decisions : decide'[d] = decide[d] \/ decide'[d].at = "ended"
      /\ decide' \in [Decisions -> [at: {"idle", "read", "may", "ended"}, ask: Asks]]
  BY DEF DecisionsLost, ApprovalTypes
<1>2. QED
  BY <1>1 DEF ApprovalTypes, RequestsHeld

-----------------------------------------------------------------------------
ReceiptRow == [status: {"absent", "creating", "DRAFT", "VALIDATED", "lost"}, order: Orders,
               qty: [Lines -> Nat \cup {Omitted}]]

Types ==
  /\ ApprovalTypes
  /\ plan \in Plans
  /\ order \in [Orders -> OrderStatus]
  /\ send \in [Sends -> [at: {"idle", "pending?", "rejected?", "approved?", "rule?", "ask",
                              "write", "ended"},
                         order: Orders]]
  /\ cancel \in [Cancels -> [at: {"idle", "write", "ended"}, order: Orders]]
  /\ receipt \in [Receipts -> ReceiptRow]
  /\ pc \in [Validates -> {"idle", "open", "stock", "line", "tallied", "set", "committed",
                           "posted", "failed", "ended"}]
  /\ mine \in [Validates -> Receipts]
  /\ was \in [Validates -> OrderStatus]
  /\ next \in [Validates -> OrderStatus]
  /\ todo \in [Validates -> SUBSET Lines]
  /\ DOMAIN cur = Validates
  /\ dLine \in [Validates -> [Lines -> Nat \cup {Unlocked}]]
  /\ received \in [Lines -> Nat]

Inside(v) == pc[v] \in {"open", "stock", "line", "tallied", "set"}
Tallied(v) == pc[v] \in {"tallied", "set"}
OrderBy(v) == receipt[mine[v]].order

(***************************************************************************)
(* A transaction enters the lines its receipt mentions, and the receipt    *)
(* stays what it was when the call read it, but for its status.            *)
(***************************************************************************)
LinesHeld ==
  \A v \in Validates :
    /\ Inside(v) => receipt[mine[v]].status \in {"DRAFT", "VALIDATED"}
    /\ Inside(v) => \A l \in todo[v] : Qty(v, l) # Omitted
    /\ pc[v] \in {"stock", "line"} => cur[v] \in todo[v]

(***************************************************************************)
(* Whoever is about to make an order SENT found an approval of it, or read *)
(* it SENT.                                                                *)
(***************************************************************************)
MayBeSent(o) ==
  ruleEdits = 0 /\ plan.order[o] # "SENT" /\ NeedsApproval(o) => o \in approved

SentHeld ==
  /\ \A o \in Orders : order[o] = "SENT" => MayBeSent(o)
  /\ \A s \in Sends : send[s].at = "write" => MayBeSent(send[s].order)
  /\ \A v \in Validates :
       /\ Inside(v) /\ was[v] = "SENT" => MayBeSent(OrderBy(v))
       /\ Tallied(v) /\ next[v] = "SENT" => MayBeSent(OrderBy(v))

(***************************************************************************)
(* Whoever is about to make an order RECEIVED counted all of its lines,    *)
(* what it entered itself included, or read it RECEIVED.                   *)
(***************************************************************************)
Complete(o) == \A l \in LinesOf(o) : received[l] >= Ordered[l]
CompleteWith(v) == \A l \in LinesOf(OrderBy(v)) : Received(v, l) >= Ordered[l]

ReceivedHeld ==
  /\ \A o \in Orders : order[o] = "RECEIVED" => Complete(o)
  /\ \A v \in Validates :
       /\ Inside(v) /\ was[v] = "RECEIVED" => Complete(OrderBy(v))
       /\ Tallied(v) /\ next[v] = "RECEIVED" => CompleteWith(v)

IInv == Types /\ RequestsHeld /\ LinesHeld /\ SentHeld /\ ReceivedHeld

-----------------------------------------------------------------------------
LEMMA InitIInv == Init => IInv
<1> SUFFICES ASSUME Init PROVE IInv
  OBVIOUS
<1> USE ProcurementAssumption, ApprovalsAssumption DEF Init, ApprovalsInit, Orders, Sends
<1>1. /\ (CHOOSE o \in Orders : TRUE) \in Orders /\ (CHOOSE g \in Receipts : TRUE) \in Receipts
      /\ order \in [Orders -> {"absent", "DRAFT", "SENT"}]
  OBVIOUS
<1>2. ApprovalTypes /\ RequestsHeld
  <2>1. \A d \in Decisions : decide[d].at = "idle"
    OBVIOUS
  <2>2. RequestsHeld
    BY <2>1 DEF RequestsHeld
  <2>3. ApprovalTypes
    BY DEF ApprovalTypes
  <2>4. QED
    BY <2>2, <2>3
<1>3. receipt \in [Receipts -> ReceiptRow]
  BY <1>1 DEF ReceiptRow, Row, Omitted
<1>4. Types
  BY <1>1, <1>2, <1>3 DEF Types, OrderStatus, NoLines, Unlocked
<1>5. \A v \in Validates : ~Inside(v) /\ ~Tallied(v) /\ pc[v] \notin {"stock", "line"}
  BY DEF Inside, Tallied
<1>6. LinesHeld
  BY <1>5 DEF LinesHeld
<1>7. SentHeld
  BY <1>1, <1>5 DEF SentHeld, MayBeSent
<1>8. ReceivedHeld
  BY <1>1, <1>5 DEF ReceivedHeld
<1>9. QED
  BY <1>2, <1>4, <1>6, <1>7, <1>8 DEF IInv

-----------------------------------------------------------------------------
(***************************************************************************)
(* What each kind of step leaves alone.                                    *)
(***************************************************************************)
Validating(v) == ValidateStep(v) \/ \E g \in Receipts : ValidateRead(v, g)

\* A step of one validate call.
LEMMA ValidatingFrame ==
  ASSUME Types, NEW v \in Validates, Validating(v)
  PROVE  /\ UNCHANGED <<approvalVars, send, cancel, crashes>>
         /\ \A w \in Validates : w # v =>
              UNCHANGED <<pc[w], mine[w], was[w], todo[w], cur[w], next[w], dLine[w]>>
         /\ \/ UNCHANGED <<order, receipt, received>>
            \/ Commit(v)
BY DEF Types, Validating, ValidateStep, ValidateRead, Begin, StockIn, LineIn, Tally, SetStatus,
       Commit, Enter, BreakDeadlock, Rollback, PostEntry, LinkEntry, Goto, approvalVars, orderVars,
       receiveVars, callVars, deltas, goods

-----------------------------------------------------------------------------
(***************************************************************************)
(* Types.                                                                  *)
(***************************************************************************)
\* A count is one, and adding to it keeps it so.
LEMMA ReceivedType ==
  ASSUME Types, NEW v \in Validates, NEW l \in Lines
  PROVE  Received(v, l) \in Nat /\ Received(v, l) >= received[l]
BY DEF Types, Received, Unlocked

LEMMA NextStatusType ==
  ASSUME Types, NEW v \in Validates, NEW o \in Orders
  PROVE  NextStatus(v, o) \in OrderStatus
BY DEF Types, NextStatus, OrderStatus

LEMMA OrderingTypes ==
  ASSUME Types, RequestsHeld, Ordering, UNCHANGED plan
  PROVE  Types'
<1> USE DEF Types, SendGoto, orderVars, receiveVars, callVars, deltas, goods, approvalVars, ApprovalTypes
<1>1. ASSUME NEW o \in Orders, CreateOrder(o)
      PROVE  Types'
  BY <1>1 DEF CreateOrder, OrderStatus
<1>2. ASSUME NEW s \in Sends, NEW o \in Orders, SendRead(s, o)
      PROVE  Types'
  BY <1>2 DEF SendRead
<1>3. ASSUME NEW s \in Sends, SendLook(s)
      PROVE  Types'
  <2>1. PICK p \in {"ended", "rejected?", "approved?", "rule?", "ask", "write"} : SendGoto(s, p)
    BY <1>3 DEF SendLook
  <2>2. QED
    BY <1>3, <2>1 DEF SendLook
<1>4. ASSUME NEW s \in Sends, SendHold(s)
      PROVE  Types'
  <2>1. ApprovalTypes'
    BY <1>4, NewRequestStep DEF SendHold, Orders, Sends
  <2>2. QED
    BY <1>4, <2>1 DEF SendHold
<1>5. ASSUME NEW s \in Sends, SendWrite(s)
      PROVE  Types'
  <2>1. order' \in [Orders -> OrderStatus]
    BY <1>5 DEF SendWrite, OrderStatus
  <2>2. /\ send' = [send EXCEPT ![s].at = "ended"]
        /\ UNCHANGED <<approvalVars, cancel, receiveVars, crashes>>
    BY <1>5 DEF SendWrite
  <2> DEFINE Call == [at: {"idle", "pending?", "rejected?", "approved?", "rule?", "ask",
                           "write", "ended"},
                      order: Orders]
  <2>3. send \in [Sends -> Call] /\ [send[s] EXCEPT !.at = "ended"] \in Call
    OBVIOUS
  <2>4. send' \in [Sends -> Call]
    <3> HIDE DEF Call, Types
    <3>1. QED
      BY <2>2, <2>3
  <2>5. QED
    BY <2>1, <2>2, <2>4
<1>6. ASSUME NEW c \in Cancels, NEW o \in Orders, CancelRead(c, o)
      PROVE  Types'
  BY <1>6 DEF CancelRead
<1>7. ASSUME NEW c \in Cancels, CancelWrite(c)
      PROVE  Types'
  <2>1. order' \in [Orders -> OrderStatus]
    BY <1>7 DEF CancelWrite, OrderStatus
  <2>2. QED
    BY <1>7, <2>1 DEF CancelWrite
<1>8. QED
  BY <1>1, <1>2, <1>3, <1>4, <1>5, <1>6, <1>7 DEF Ordering

LEMMA ReceivingTypes ==
  ASSUME Types, Receiving, UNCHANGED plan
  PROVE  Types'
<1> USE DEF Types, orderVars, callVars, deltas, goods, approvalVars, ApprovalTypes
<1>1. ASSUME NEW g \in Receipts, NEW o \in Orders, ReceiptRead(g, o)
      PROVE  Types'
  <2>1. PICK q \in [LinesOf(o) -> Quantities \cup {Omitted}] :
          receipt' = [receipt EXCEPT ![g] =
            Row("creating", o, [l \in Lines |-> IF l \in LinesOf(o) THEN q[l] ELSE Omitted])]
    BY <1>1 DEF ReceiptRead
  <2>2. Row("creating", o, [l \in Lines |-> IF l \in LinesOf(o) THEN q[l] ELSE Omitted])
          \in ReceiptRow
    BY <2>1, ProcurementAssumption DEF Row, ReceiptRow
  <2>3. QED
    BY <1>1, <2>1, <2>2 DEF ReceiptRead
<1>2. ASSUME NEW g \in Receipts, ReceiptInsert(g)
      PROVE  Types'
  <2>1. [receipt[g] EXCEPT !.status = "DRAFT"] \in ReceiptRow
    <3>1. receipt[g] \in ReceiptRow
      OBVIOUS
    <3>2. QED
      BY <3>1 DEF ReceiptRow
  <2>2. QED
    BY <1>2, <2>1 DEF ReceiptInsert
<1>3. QED
  BY <1>1, <1>2 DEF Receiving

LEMMA ValidatingTypes ==
  ASSUME Types, LinesHeld, NEW v \in Validates, Validating(v), UNCHANGED plan
  PROVE  Types'
<1> USE DEF Goto, orderVars, callVars, deltas, goods, receiveVars, approvalVars, ApprovalTypes
<1> DEFINE Calling == /\ pc \in [Validates -> {"idle", "open", "stock", "line", "tallied", "set",
                                               "committed", "posted", "failed", "ended"}]
                      /\ mine \in [Validates -> Receipts]
                      /\ was \in [Validates -> OrderStatus]
                      /\ next \in [Validates -> OrderStatus]
                      /\ todo \in [Validates -> SUBSET Lines]
                      /\ DOMAIN cur = Validates
                      /\ dLine \in [Validates -> [Lines -> Nat \cup {Unlocked}]]
<1>1. Calling
  BY DEF Types
<1>2. ASSUME NEW g \in Receipts, ValidateRead(v, g)
      PROVE  Calling'
  <2>1. order[receipt[g].order] \in OrderStatus
    BY DEF Types, ReceiptRow
  <2>2. QED
    BY <1>1, <1>2, <2>1 DEF ValidateRead
<1>3. ASSUME NEW l \in Lines, Begin(v, l)
      PROVE  Calling'
  BY <1>1, <1>3 DEF Begin
<1>4. ASSUME StockIn(v) \/ SetStatus(v) \/ PostEntry(v) \/ LinkEntry(v)
      PROVE  Calling'
  BY <1>1, <1>4 DEF StockIn, SetStatus, PostEntry, LinkEntry
<1>5. ASSUME LineIn(v)
      PROVE  Calling'
  <2>1. Qty(v, cur[v]) \in Nat \cup {Unlocked}
    <3>1. cur[v] \in Lines /\ receipt[mine[v]] \in ReceiptRow
      BY <1>5 DEF Types, LinesHeld, LineIn
    <3>2. QED
      BY <3>1 DEF ReceiptRow, Qty, Omitted, Unlocked
  <2>2. dLine' \in [Validates -> [Lines -> Nat \cup {Unlocked}]]
    BY <1>1, <1>5, <2>1 DEF LineIn
  <2>3. QED
    BY <1>1, <1>5, <2>2 DEF LineIn
<1>6. ASSUME Tally(v)
      PROVE  Calling'
  <2>1. NextStatus(v, receipt[mine[v]].order) \in OrderStatus
    BY NextStatusType DEF Types, ReceiptRow
  <2>2. QED
    BY <1>1, <1>6, <2>1 DEF Tally
<1>7. ASSUME Commit(v) \/ BreakDeadlock(v)
      PROVE  Calling'
  <2>1. NoLines \in [Lines -> Nat \cup {Unlocked}]
    BY DEF NoLines
  <2>2. /\ Goto(v, "committed") \/ Goto(v, "failed")
        /\ dLine' = [dLine EXCEPT ![v] = NoLines] /\ UNCHANGED <<mine, was, next, todo, cur>>
    BY <1>7 DEF Commit, Enter, BreakDeadlock, Rollback
  <2>3. QED
    BY <1>1, <2>1, <2>2
<1>8. Calling'
  BY <1>2, <1>3, <1>4, <1>5, <1>6, <1>7 DEF Validating, ValidateStep
<1>9. /\ order' \in [Orders -> OrderStatus] /\ receipt' \in [Receipts -> ReceiptRow]
      /\ received' \in [Lines -> Nat]
  <2>1. CASE UNCHANGED <<order, receipt, received>>
    BY <2>1 DEF Types
  <2>2. CASE Commit(v)
    <3>1. receipt[mine[v]] \in ReceiptRow
      BY DEF Types
    <3>2. [receipt[mine[v]] EXCEPT !.status = "VALIDATED"] \in ReceiptRow
      BY <3>1 DEF ReceiptRow
    <3>3. receipt' \in [Receipts -> ReceiptRow]
      BY <2>2, <3>2 DEF Commit, Enter, Types
    <3>4. order' \in [Orders -> OrderStatus]
      BY <2>2 DEF Commit, Enter, Types
    <3>5. received' \in [Lines -> Nat]
      BY <2>2, ReceivedType DEF Commit
    <3>6. QED
      BY <3>3, <3>4, <3>5
  <2>3. QED
    BY <2>1, <2>2, ValidatingFrame
<1>10. QED
  BY <1>8, <1>9, ValidatingFrame DEF Types

LEMMA CrashTypes ==
  ASSUME Types, RequestsHeld, Crash, UNCHANGED plan
  PROVE  Types'
<1>1. ApprovalTypes'
  BY LostStep DEF Crash, Types
<1>2. receipt' \in [Receipts -> ReceiptRow]
  <2>1. ASSUME NEW g \in Receipts
        PROVE  receipt[g] \in ReceiptRow /\ [receipt[g] EXCEPT !.status = "lost"] \in ReceiptRow
    <3>1. receipt[g] \in ReceiptRow
      BY DEF Types
    <3>2. QED
      BY <3>1 DEF ReceiptRow
  <2>2. QED
    BY <2>1 DEF Crash
<1>3. send' \in [Sends -> [at: {"idle", "pending?", "rejected?", "approved?", "rule?", "ask",
                              "write", "ended"},
                         order: Orders]]
  <2> DEFINE Call == [at: {"idle", "pending?", "rejected?", "approved?", "rule?", "ask",
                           "write", "ended"},
                      order: Orders]
  <2>1. send \in [Sends -> Call] /\ send' = Stopped(send)
    BY DEF Crash, Types
  <2>2. ASSUME NEW s \in Sends
        PROVE  [send[s] EXCEPT !.at = "ended"] \in Call
    BY <2>1
  <2> HIDE DEF Call
  <2>3. send' \in [Sends -> Call]
    BY <2>1, <2>2 DEF Stopped
  <2>4. QED
    BY <2>3 DEF Call
<1>4. cancel' \in [Cancels -> [at: {"idle", "write", "ended"}, order: Orders]]
  BY DEF Crash, Stopped, Types
<1>5. /\ dLine' \in [Validates -> [Lines -> Nat \cup {Unlocked}]]
      /\ pc' \in [Validates -> {"idle", "open", "stock", "line", "tallied", "set", "committed",
                                "posted", "failed", "ended"}]
  BY DEF Crash, NoLines, Types
<1>6. QED
  BY <1>1, <1>2, <1>3, <1>4, <1>5 DEF Crash, Types, callVars, goods

LEMMA TypeStep ==
  ASSUME Types, RequestsHeld, LinesHeld, [Next]_vars
  PROVE  Types' /\ RequestsHeld' /\ approved \subseteq approved'
<1> USE DEF approvalVars, orderVars, receiveVars, callVars, deltas, goods
<1>1. CASE ApprovalsNext /\ UNCHANGED <<orderVars, receiveVars, plan>>
  BY <1>1, ApprovalsStep DEF Types
<1>2. CASE Ordering /\ UNCHANGED plan
  <2>1. ASSUME NEW s \in Sends, SendHold(s)
        PROVE  RequestsHeld' /\ approved' = approved
    BY <2>1, NewRequestStep DEF SendHold, Types, Orders, Sends
  <2>2. UNCHANGED approvalVars \/ \E s \in Sends : SendHold(s)
    BY <1>2 DEF Ordering, CreateOrder, SendRead, SendLook, SendWrite, CancelRead, CancelWrite
  <2>3. QED
    BY <1>2, <2>1, <2>2, OrderingTypes DEF RequestsHeld
<1>3. CASE Receiving /\ UNCHANGED plan
  BY <1>3, ReceivingTypes DEF Receiving, ReceiptRead, ReceiptInsert, RequestsHeld
<1>4. ASSUME NEW v \in Validates, Validating(v), UNCHANGED plan
      PROVE  Types' /\ RequestsHeld' /\ approved \subseteq approved'
  BY <1>4, ValidatingTypes, ValidatingFrame DEF RequestsHeld
<1>5. CASE Crash /\ UNCHANGED plan
  BY <1>5, CrashTypes, LostStep DEF Crash, Types
<1>6. CASE UNCHANGED vars
  BY <1>6 DEF vars, Types, ApprovalTypes, RequestsHeld
<1>7. QED
  BY <1>1, <1>2, <1>3, <1>4, <1>5, <1>6 DEF Next, Validating

-----------------------------------------------------------------------------
(***************************************************************************)
(* The receipt a transaction enters stays as it is.                        *)
(***************************************************************************)
Drafted(g) == receipt[g].status \in {"DRAFT", "VALIDATED"}

LEMMA ReceiptKept ==
  ASSUME Types, [Next]_vars, NEW g \in Receipts, Drafted(g)
  PROVE  /\ Drafted(g)'
         /\ receipt'[g].order = receipt[g].order /\ receipt'[g].qty = receipt[g].qty
<1> USE DEF Drafted
<1>1. receipt[g] \in ReceiptRow
  BY DEF Types
<1>2. ASSUME UNCHANGED receipt
      PROVE  Drafted(g)' /\ receipt'[g] = receipt[g]
  BY <1>2
<1>3. ASSUME NEW h \in Receipts, (\E o \in Orders : ReceiptRead(h, o)) \/ ReceiptInsert(h)
      PROVE  receipt'[g] = receipt[g]
  BY <1>3 DEF ReceiptRead, ReceiptInsert, Types
<1>4. ASSUME NEW v \in Validates, Validating(v)
      PROVE  \/ receipt' = receipt
             \/ receipt' = [receipt EXCEPT ![mine[v]].status = "VALIDATED"]
  BY <1>4, ValidatingFrame DEF Commit, Enter
<1>5. ASSUME NEW h \in Receipts, receipt' = [receipt EXCEPT ![h].status = "VALIDATED"]
      PROVE  /\ Drafted(g)'
             /\ receipt'[g].order = receipt[g].order /\ receipt'[g].qty = receipt[g].qty
  <2>1. CASE h # g
    BY <1>5, <2>1 DEF Types
  <2>2. CASE h = g
    <3>1. receipt'[g] = [receipt[g] EXCEPT !.status = "VALIDATED"]
      BY <1>5, <2>2 DEF Types
    <3>2. QED
      BY <1>1, <3>1 DEF ReceiptRow
  <2>3. QED
    BY <2>1, <2>2
<1>6. ASSUME Crash
      PROVE  receipt'[g] = receipt[g]
  BY <1>6 DEF Crash
<1>7. ASSUME Ordering \/ (ApprovalsNext /\ UNCHANGED receiveVars) \/ UNCHANGED vars
      PROVE  UNCHANGED receipt
  BY <1>7 DEF Ordering, CreateOrder, SendRead, SendLook, SendHold, SendWrite, CancelRead,
              CancelWrite, receiveVars, vars
<1>8. \A v \in Validates : mine[v] \in Receipts
  BY DEF Types
<1>9. QED
  BY <1>2, <1>3, <1>4, <1>5, <1>6, <1>7, <1>8 DEF Next, Receiving, Validating

\* A call inside its transaction got there by its own step, or was there and did not move.
LEMMA CallKept ==
  ASSUME Types, [Next]_vars, NEW v \in Validates, ~Validating(v), Inside(v)'
  PROVE  /\ UNCHANGED <<pc[v], mine[v], was[v], todo[v], cur[v], next[v], dLine[v]>>
         /\ Inside(v) /\ (Tallied(v)' <=> Tallied(v))
<1> USE DEF Inside, Tallied
<1>1. ASSUME UNCHANGED <<callVars, dLine>>
      PROVE  UNCHANGED <<pc[v], mine[v], was[v], todo[v], cur[v], next[v], dLine[v]>>
  BY <1>1 DEF callVars
<1>2. ~Crash
  BY DEF Crash, Settled
<1>3. Receiving \/ Ordering \/ (ApprovalsNext /\ UNCHANGED receiveVars) \/ UNCHANGED vars
        => UNCHANGED <<callVars, dLine>>
  BY DEF Receiving, ReceiptRead, ReceiptInsert, Ordering, CreateOrder, SendRead, SendLook,
         SendHold, SendWrite, CancelRead, CancelWrite, receiveVars, callVars, deltas, vars
<1>4. ASSUME NEW w \in Validates, Validating(w)
      PROVE  UNCHANGED <<pc[v], mine[v], was[v], todo[v], cur[v], next[v], dLine[v]>>
  <2>1. v # w
    BY <1>4
  <2>2. QED
    BY <1>4, <2>1, ValidatingFrame
<1>5. UNCHANGED <<pc[v], mine[v], was[v], todo[v], cur[v], next[v], dLine[v]>>
  BY <1>1, <1>2, <1>3, <1>4 DEF Next, Validating
<1>6. QED
  BY <1>5

LEMMA LinesStep ==
  ASSUME Types, LinesHeld, [Next]_vars
  PROVE  LinesHeld'
<1> SUFFICES ASSUME NEW v \in Validates, Inside(v)'
             PROVE  /\ Drafted(mine[v])'
                    /\ \A l \in todo'[v] : Qty(v, l)' # Omitted
                    /\ pc'[v] \in {"stock", "line"} => cur'[v] \in todo'[v]
  BY DEF LinesHeld, Inside, Drafted
<1>1. CASE ~Validating(v)
  <2>1. /\ UNCHANGED <<pc[v], mine[v], todo[v], cur[v]>> /\ Inside(v)
    BY <1>1, CallKept
  <2>2. mine[v] \in Receipts /\ Drafted(mine[v])
    BY <2>1 DEF Types, LinesHeld, Drafted
  <2>3. Drafted(mine[v])' /\ receipt'[mine'[v]].qty = receipt[mine[v]].qty
    BY <2>1, <2>2, ReceiptKept DEF Drafted
  <2>4. QED
    BY <2>1, <2>3 DEF LinesHeld, Qty
<1>2. ASSUME NEW g \in Receipts, ValidateRead(v, g)
      PROVE  /\ Drafted(mine[v])'
             /\ \A l \in todo'[v] : Qty(v, l)' # Omitted
             /\ pc'[v] \in {"stock", "line"} => cur'[v] \in todo'[v]
  BY <1>2 DEF ValidateRead, Goto, Types, Drafted, Qty
<1>3. CASE ValidateStep(v)
  <2>1. ~Commit(v) /\ ~BreakDeadlock(v) /\ ~PostEntry(v) /\ ~LinkEntry(v)
    BY DEF Commit, Enter, BreakDeadlock, PostEntry, LinkEntry, Goto, Inside, Types
  <2>2. Inside(v) /\ mine'[v] = mine[v] /\ receipt' = receipt
    BY <1>3, <2>1 DEF ValidateStep, Begin, StockIn, LineIn, Tally, SetStatus, Inside
  <2>3. todo'[v] \subseteq todo[v]
    BY <1>3, <2>1 DEF ValidateStep, Begin, StockIn, LineIn, Tally, SetStatus, Types
  <2>4. pc'[v] \in {"stock", "line"} => cur'[v] \in todo'[v]
    <3>1. ASSUME NEW l \in Lines, Begin(v, l)
          PROVE  cur'[v] \in todo'[v]
      BY <3>1 DEF Begin, Types
    <3>2. CASE StockIn(v)
      BY <3>2 DEF StockIn, LinesHeld
    <3>3. ASSUME LineIn(v) \/ Tally(v) \/ SetStatus(v)
          PROVE  pc'[v] \notin {"stock", "line"}
      BY <3>3 DEF LineIn, Tally, SetStatus, Goto, Types
    <3>4. QED
      BY <1>3, <2>1, <3>1, <3>2, <3>3 DEF ValidateStep
  <2>5. QED
    BY <2>2, <2>3, <2>4 DEF LinesHeld, Drafted, Qty
<1>4. QED
  BY <1>1, <1>2, <1>3 DEF Validating

-----------------------------------------------------------------------------
(***************************************************************************)
(* Sending.                                                                *)
(***************************************************************************)
\* An order that may be sent may be, until the rules are edited.
LEMMA MayBeSentKept ==
  ASSUME Types, [Next]_vars, approved \subseteq approved', NEW o, MayBeSent(o)
  PROVE  MayBeSent(o)'
<1>1. ~EditRules => UNCHANGED <<rules, ruleEdits>>
  BY ValidatingFrame
     DEF Next, ApprovalsNext, DecideRead, DecideCheck, DecideWrite, Ordering, CreateOrder, SendRead,
         SendLook, SendHold, CreateRequest, SendWrite, CancelRead, CancelWrite, Receiving,
         ReceiptRead, ReceiptInsert, Validating, Crash, approvalVars, vars
<1>2. EditRules => ruleEdits' # 0
  BY DEF EditRules, Types, ApprovalTypes
<1>3. UNCHANGED plan
  BY DEF Next, vars
<1>4. QED
  BY <1>1, <1>2, <1>3, SameRules DEF MayBeSent

\* The order of a transaction is the same before and after a step.
LEMMA OrderByKept ==
  ASSUME Types, LinesHeld, [Next]_vars, NEW v \in Validates, Inside(v), mine'[v] = mine[v]
  PROVE  OrderBy(v)' = OrderBy(v)
<1>1. mine[v] \in Receipts /\ Drafted(mine[v])
  BY DEF Types, LinesHeld, Drafted
<1>2. QED
  BY <1>1, ReceiptKept DEF OrderBy

\* Within its transaction a call keeps what it read, and what it counted.
LEMMA InsideStep ==
  ASSUME Types, NEW v \in Validates, ValidateStep(v), Inside(v)'
  PROVE  /\ Inside(v) /\ mine'[v] = mine[v] /\ was'[v] = was[v]
         /\ UNCHANGED <<order, receipt, received>>
         /\ Tally(v) \/ (Tallied(v)' => Tallied(v) /\ next'[v] = next[v] /\ dLine'[v] = dLine[v])
<1> USE DEF Inside, Tallied
<1>1. ~Commit(v) /\ ~BreakDeadlock(v) /\ ~PostEntry(v) /\ ~LinkEntry(v)
  BY DEF Commit, Enter, BreakDeadlock, PostEntry, LinkEntry, Goto, Types
<1>2. /\ Inside(v) /\ UNCHANGED <<mine, was, order, receipt, received>>
  BY <1>1 DEF ValidateStep, Begin, StockIn, LineIn, Tally, SetStatus, orderVars, goods
<1>3. ASSUME NEW l \in Lines, Begin(v, l) \/ StockIn(v) \/ LineIn(v)
      PROVE  ~Tallied(v)'
  BY <1>3 DEF Begin, StockIn, LineIn, Goto, Types
<1>4. ASSUME SetStatus(v)
      PROVE  Tallied(v) /\ next'[v] = next[v] /\ dLine'[v] = dLine[v]
  BY <1>4 DEF SetStatus, deltas
<1>5. ASSUME StockIn(v) \/ LineIn(v)
      PROVE  ~Tallied(v)'
  BY <1>5 DEF StockIn, LineIn, Goto, Types
<1>6. QED
  BY <1>1, <1>2, <1>3, <1>4, <1>5 DEF ValidateStep

LEMMA SentOrders ==
  ASSUME Types, SentHeld, [Next]_vars, NEW o \in Orders, order'[o] = "SENT"
  PROVE  MayBeSent(o)
<1>1. ASSUME UNCHANGED order
      PROVE  MayBeSent(o)
  BY <1>1 DEF SentHeld
<1>2. ASSUME NEW q \in Orders, CreateOrder(q)
      PROVE  MayBeSent(o)
  BY <1>2 DEF CreateOrder, Types, SentHeld
<1>3. ASSUME NEW s \in Sends, SendWrite(s)
      PROVE  MayBeSent(o)
  BY <1>3 DEF SendWrite, Types, SentHeld
<1>4. ASSUME NEW c \in Cancels, CancelWrite(c)
      PROVE  MayBeSent(o)
  BY <1>4 DEF CancelWrite, Types, SentHeld
<1>5. ASSUME NEW v \in Validates, Commit(v)
      PROVE  MayBeSent(o)
  <2>1. Tallied(v) /\ order' = [order EXCEPT ![OrderBy(v)] = next[v]]
    BY <1>5 DEF Commit, Enter, Tallied, OrderBy
  <2>2. QED
    BY <2>1 DEF Types, SentHeld
<1>6. ASSUME (ApprovalsNext /\ UNCHANGED orderVars) \/ Receiving \/ Crash \/ UNCHANGED vars
      PROVE  UNCHANGED order
  BY <1>6 DEF Receiving, ReceiptRead, ReceiptInsert, Crash, orderVars, vars
<1>7. ASSUME Ordering
      PROVE  \/ UNCHANGED order
             \/ \E q \in Orders : CreateOrder(q)
             \/ \E s \in Sends : SendWrite(s)
             \/ \E c \in Cancels : CancelWrite(c)
  BY <1>7 DEF Ordering, SendRead, SendLook, SendHold, CancelRead
<1>8. ASSUME NEW v \in Validates, Validating(v)
      PROVE  UNCHANGED order \/ Commit(v)
  BY <1>8, ValidatingFrame
<1>9. QED
  BY <1>1, <1>2, <1>3, <1>4, <1>5, <1>6, <1>7, <1>8 DEF Next, Validating

\* Before it writes, a send found an approval, or no rule.
LEMMA SendsWrite ==
  ASSUME Types, RequestsHeld, SentHeld, [Next]_vars, NEW s \in Sends, send'[s].at = "write"
  PROVE  MayBeSent(send'[s].order)
<1>1. ASSUME send'[s] = send[s]
      PROVE  MayBeSent(send'[s].order)
  BY <1>1 DEF SentHeld
<1>2. CASE SendLook(s)
  <2>1. send'[s].order = send[s].order /\ send[s].order \in Targets
    BY <1>2 DEF SendLook, SendGoto, Types, Orders
  <2>2. \/ RequestsWith(send[s].order, "APPROVED") # {}
        \/ ~NeedsApproval(send[s].order)
    BY <1>2 DEF SendLook, SendGoto, Types
  <2>3. RequestsWith(send[s].order, "APPROVED") # {} => send[s].order \in approved
    BY DEF RequestsWith, RequestsHeld
  <2>4. QED
    BY <2>1, <2>2, <2>3 DEF MayBeSent
<1>3. ASSUME (\E o \in Orders : SendRead(s, o)) \/ SendHold(s) \/ SendWrite(s) \/ Crash
      PROVE  FALSE
  BY <1>3 DEF SendRead, SendHold, SendWrite, SendGoto, Crash, Stopped, Types
<1>4. ASSUME NEW z \in Sends, z # s,
             (\E o \in Orders : SendRead(z, o)) \/ SendLook(z) \/ SendHold(z) \/ SendWrite(z)
      PROVE  send'[s] = send[s]
  BY <1>4 DEF SendRead, SendLook, SendHold, SendWrite, SendGoto, Types
<1>5. ASSUME \/ \E o \in Orders : CreateOrder(o)
             \/ \E c \in Cancels : (\E o \in Orders : CancelRead(c, o)) \/ CancelWrite(c)
             \/ ApprovalsNext /\ UNCHANGED orderVars
             \/ Receiving
             \/ UNCHANGED vars
      PROVE  UNCHANGED send
  BY <1>5 DEF CreateOrder, CancelRead, CancelWrite, Receiving, ReceiptRead, ReceiptInsert, orderVars,
              vars
<1>6. ASSUME NEW v \in Validates, Validating(v)
      PROVE  UNCHANGED send
  BY <1>6, ValidatingFrame
<1>7. QED
  BY <1>1, <1>2, <1>3, <1>4, <1>5, <1>6 DEF Next, Ordering, Validating

LEMMA SentStep ==
  ASSUME Types, RequestsHeld, LinesHeld, SentHeld, approved \subseteq approved', Types', [Next]_vars
  PROVE  SentHeld'
<1>1. ASSUME NEW o \in Orders, order'[o] = "SENT"
      PROVE  MayBeSent(o)'
  BY <1>1, SentOrders, MayBeSentKept
<1>2. ASSUME NEW s \in Sends, send'[s].at = "write"
      PROVE  MayBeSent(send[s].order)'
  BY <1>2, SendsWrite, MayBeSentKept DEF MayBeSent
<1>3. ASSUME NEW v \in Validates, Inside(v)'
      PROVE  /\ was'[v] = "SENT" => MayBeSent(OrderBy(v))'
             /\ Tallied(v)' /\ next'[v] = "SENT" => MayBeSent(OrderBy(v))'
  <2>1. ASSUME Inside(v), mine'[v] = mine[v], MayBeSent(OrderBy(v))
        PROVE  MayBeSent(OrderBy(v))'
    <3>1. OrderBy(v)' = OrderBy(v)
      BY <2>1, OrderByKept
    <3>2. QED
      BY <2>1, <3>1, MayBeSentKept DEF MayBeSent
  <2>2. CASE ~Validating(v)
    BY <1>3, <2>1, <2>2, CallKept DEF SentHeld
  <2>3. ASSUME NEW g \in Receipts, ValidateRead(v, g)
        PROVE  /\ was'[v] = "SENT" => MayBeSent(OrderBy(v))'
               /\ ~Tallied(v)'
    <3>1. /\ was'[v] = order[receipt[g].order] /\ OrderBy(v)' = receipt[g].order /\ pc'[v] = "open"
          /\ receipt[g].order \in Orders
      BY <2>3 DEF ValidateRead, Goto, OrderBy, Types, ReceiptRow
    <3>2. was'[v] = "SENT" => MayBeSent(receipt[g].order)
      BY <3>1 DEF SentHeld
    <3>3. was'[v] = "SENT" => MayBeSent(OrderBy(v))'
      BY <3>1, <3>2, MayBeSentKept DEF MayBeSent
    <3>4. QED
      BY <3>1, <3>3 DEF Tallied
  <2>4. CASE ValidateStep(v)
    <3>1. /\ Inside(v) /\ mine'[v] = mine[v] /\ was'[v] = was[v]
          /\ Tally(v) \/ (Tallied(v)' => Tallied(v) /\ next'[v] = next[v])
      BY <1>3, <2>4, InsideStep
    <3>2. Tally(v) /\ next'[v] = "SENT" => was[v] = "SENT"
      BY DEF Tally, NextStatus, Types
    <3>3. QED
      BY <2>1, <3>1, <3>2 DEF SentHeld
  <2>5. QED
    BY <2>2, <2>3, <2>4 DEF Validating
<1>4. QED
  BY <1>1, <1>2, <1>3 DEF SentHeld, Inside, Tallied

-----------------------------------------------------------------------------
(***************************************************************************)
(* Receiving.                                                              *)
(***************************************************************************)
\* What the lines have received never shrinks.
LEMMA ReceivedGrows ==
  ASSUME Types, [Next]_vars, NEW l \in Lines
  PROVE  received'[l] >= received[l]
<1>1. UNCHANGED received \/ \E v \in Validates : Commit(v)
  <2>1. ASSUME NEW v \in Validates, Validating(v)
        PROVE  UNCHANGED received \/ Commit(v)
    BY <2>1, ValidatingFrame
  <2>2. QED
    BY <2>1 DEF Next, Ordering, CreateOrder, SendRead, SendLook, SendHold, SendWrite, CancelRead,
                CancelWrite, Receiving, ReceiptRead, ReceiptInsert, Crash, Validating, receiveVars,
                goods, vars
<1>2. received[l] \in Nat
  BY DEF Types
<1>3. QED
  BY <1>1, <1>2, ReceivedType DEF Commit

LEMMA CompleteKept ==
  ASSUME Types, Types', [Next]_vars, NEW o \in Orders, Complete(o)
  PROVE  Complete(o)'
<1>1. SUFFICES ASSUME NEW l \in LinesOf(o)
               PROVE  received'[l] >= Ordered[l]
  BY DEF Complete, LinesOf
<1>2. /\ l \in Lines /\ received[l] >= Ordered[l]
      /\ received[l] \in Nat /\ received'[l] \in Nat /\ Ordered[l] \in Nat
  BY ProcurementAssumption DEF Complete, LinesOf, Types
<1>3. QED
  BY <1>2, ReceivedGrows

LEMMA ReceivedOrders ==
  ASSUME Types, Types', ReceivedHeld, [Next]_vars, NEW o \in Orders, order'[o] = "RECEIVED"
  PROVE  Complete(o)'
<1>1. ASSUME order'[o] = order[o]
      PROVE  Complete(o)'
  BY <1>1, CompleteKept DEF ReceivedHeld
<1>2. ASSUME NEW v \in Validates, Commit(v)
      PROVE  Complete(o)'
  <2>1. Tallied(v) /\ order' = [order EXCEPT ![OrderBy(v)] = next[v]]
    BY <1>2 DEF Commit, Enter, Tallied, OrderBy
  <2>2. CASE o = OrderBy(v)
    <3>1. next[v] = "RECEIVED"
      BY <2>1, <2>2 DEF Types
    <3>2. CompleteWith(v)
      BY <2>1, <3>1 DEF ReceivedHeld
    <3>3. QED
      BY <1>2, <2>2, <3>2 DEF Commit, CompleteWith, Complete, LinesOf
  <2>3. CASE o # OrderBy(v)
    BY <1>1, <2>1, <2>3 DEF Types
  <2>4. QED
    BY <2>2, <2>3
<1>3. ASSUME Ordering
      PROVE  order'[o] = order[o]
  BY <1>3 DEF Ordering, CreateOrder, SendRead, SendLook, SendHold, SendWrite, CancelRead,
              CancelWrite, Types
<1>4. ASSUME (ApprovalsNext /\ UNCHANGED orderVars) \/ Receiving \/ Crash \/ UNCHANGED vars
      PROVE  UNCHANGED order
  BY <1>4 DEF Receiving, ReceiptRead, ReceiptInsert, Crash, orderVars, vars
<1>5. ASSUME NEW v \in Validates, Validating(v)
      PROVE  UNCHANGED order \/ Commit(v)
  BY <1>5, ValidatingFrame
<1>6. QED
  BY <1>1, <1>2, <1>3, <1>4, <1>5 DEF Next, Validating

LEMMA ReceivedStep ==
  ASSUME Types, Types', LinesHeld, ReceivedHeld, [Next]_vars
  PROVE  ReceivedHeld'
<1>1. ASSUME NEW v \in Validates, Inside(v)'
      PROVE  /\ was'[v] = "RECEIVED" => Complete(OrderBy(v))'
             /\ Tallied(v)' /\ next'[v] = "RECEIVED" => CompleteWith(v)'
  <2>1. ASSUME Inside(v), mine'[v] = mine[v]
        PROVE  /\ OrderBy(v)' = OrderBy(v) /\ OrderBy(v) \in Orders
               /\ Complete(OrderBy(v)) => Complete(OrderBy(v))'
    <3>1. OrderBy(v)' = OrderBy(v) /\ OrderBy(v) \in Orders
      BY <2>1, OrderByKept DEF Types, OrderBy, ReceiptRow
    <3>2. QED
      BY <3>1, CompleteKept DEF Complete
  <2>2. ASSUME Inside(v), mine'[v] = mine[v], dLine'[v] = dLine[v], CompleteWith(v)
        PROVE  CompleteWith(v)'
    <3>1. SUFFICES ASSUME NEW l \in LinesOf(OrderBy(v))
                   PROVE  Received(v, l)' >= Ordered[l]
      BY <2>1, <2>2 DEF CompleteWith, LinesOf
    <3>2. /\ l \in Lines /\ Received(v, l) >= Ordered[l] /\ Ordered[l] \in Nat
          /\ received[l] \in Nat /\ received'[l] \in Nat /\ dLine[v][l] \in Nat \cup {Unlocked}
      BY <2>2, ProcurementAssumption DEF CompleteWith, LinesOf, Types
    <3>3. received'[l] >= received[l]
      BY <3>2, ReceivedGrows
    <3>4. QED
      BY <2>2, <3>2, <3>3 DEF Received, Unlocked
  <2>3. CASE ~Validating(v)
    <3>1. UNCHANGED <<mine[v], was[v], next[v], dLine[v]>> /\ Inside(v) /\ (Tallied(v)' <=> Tallied(v))
      BY <1>1, <2>3, CallKept
    <3>2. QED
      BY <2>1, <2>2, <3>1 DEF ReceivedHeld
  <2>4. ASSUME NEW g \in Receipts, ValidateRead(v, g)
        PROVE  /\ was'[v] = "RECEIVED" => Complete(OrderBy(v))'
               /\ ~Tallied(v)'
    <3>1. /\ was'[v] = order[receipt[g].order] /\ OrderBy(v)' = receipt[g].order /\ pc'[v] = "open"
          /\ receipt[g].order \in Orders
      BY <2>4 DEF ValidateRead, Goto, OrderBy, Types, ReceiptRow
    <3>2. was'[v] = "RECEIVED" => Complete(receipt[g].order)
      BY <3>1 DEF ReceivedHeld
    <3>3. was'[v] = "RECEIVED" => Complete(OrderBy(v))'
      BY <3>1, <3>2, CompleteKept DEF Complete
    <3>4. QED
      BY <3>1, <3>3 DEF Tallied
  <2>5. CASE ValidateStep(v)
    <3>1. /\ Inside(v) /\ mine'[v] = mine[v] /\ was'[v] = was[v] /\ received' = received
          /\ \/ Tally(v)
             \/ Tallied(v)' => Tallied(v) /\ next'[v] = next[v] /\ dLine'[v] = dLine[v]
      BY <1>1, <2>5, InsideStep
    <3>2. ASSUME Tally(v), next'[v] = "RECEIVED"
          PROVE  CompleteWith(v)'
      <4>1. NextStatus(v, OrderBy(v)) = "RECEIVED" /\ dLine' = dLine
        BY <3>2 DEF Tally, Types, OrderBy, deltas
      <4>2. CompleteWith(v)
        <5>1. CASE was[v] = "RECEIVED"
          <6>1. SUFFICES ASSUME NEW l \in LinesOf(OrderBy(v))
                         PROVE  Received(v, l) >= Ordered[l]
            BY DEF CompleteWith
          <6>2. l \in Lines /\ received[l] >= Ordered[l] /\ Ordered[l] \in Nat /\ received[l] \in Nat
            BY <3>1, <5>1, ProcurementAssumption DEF ReceivedHeld, Complete, LinesOf, Types
          <6>3. QED
            BY <6>2, ReceivedType
        <5>2. CASE was[v] # "RECEIVED"
          BY <4>1, <5>2 DEF NextStatus, CompleteWith
        <5>3. QED
          BY <5>1, <5>2
      <4>3. QED
        BY <2>2, <3>1, <4>1, <4>2
    <3>3. QED
      BY <2>1, <2>2, <3>1, <3>2 DEF ReceivedHeld
  <2>6. QED
    BY <2>3, <2>4, <2>5 DEF Validating
<1>2. QED
  BY <1>1, ReceivedOrders DEF ReceivedHeld, Inside, Tallied

-----------------------------------------------------------------------------
\* The inductive invariant holds in every reachable state.
LEMMA Invariance == Spec => []IInv
<1>1. IInv /\ [Next]_vars => IInv'
  BY TypeStep, LinesStep, SentStep, ReceivedStep DEF IInv
<1>2. QED
  BY <1>1, InitIInv, PTL DEF Spec

(***************************************************************************)
(* Above the threshold of a rule an order is sent only once a request for  *)
(* it was approved, whatever sends, decisions, cancellations, receipts and *)
(* restarts run side by side, as long as the rules stay as they were.      *)
(***************************************************************************)
THEOREM OrdersAreApproved == Spec => []SentWasApproved
<1>1. IInv => SentWasApproved
  BY DEF IInv, SentHeld, MayBeSent, SentWasApproved
<1>2. QED
  BY <1>1, Invariance, PTL

(***************************************************************************)
(* An order is RECEIVED only once each of its lines has received what was  *)
(* ordered, however the transactions that receive it overlap.              *)
(***************************************************************************)
THEOREM OrdersAreComplete == Spec => []ReceivedIsComplete
<1>1. IInv => ReceivedIsComplete
  BY DEF IInv, ReceivedHeld, Complete, ReceivedIsComplete
<1>2. QED
  BY <1>1, Invariance, PTL

-----------------------------------------------------------------------------
(***************************************************************************)
(* What a transaction wrote so far: the lines that are not to do any more, *)
(* and the stock of their products, ahead by the line in hand once its     *)
(* stock is in.  With its lines counted it has none to do.                 *)
(***************************************************************************)
GoodsTypes ==
  /\ dStock \in [Validates -> [Products -> Nat]]
  /\ stock \in [Products -> Nat] /\ lots \in [Products -> Nat] /\ moved \in [Products -> Nat]
  /\ times \in [Receipts -> Nat]

Entering(v) == [l \in Lines |-> IF dLine[v][l] = Unlocked THEN 0 ELSE dLine[v][l]]
InHand(v, p) == IF pc[v] = "line" /\ ProductOf[cur[v]] = p THEN Qty(v, cur[v]) ELSE 0

LinesIn(v) == \A l \in Lines : dLine[v][l] = IF l \in todo[v] THEN Unlocked ELSE Qty(v, l)
StockOf(v) ==
  \A p \in Products : dStock[v][p] = SumFunctionOnSet(Entering(v), LinesFor(p)) + InHand(v, p)

OfReceipt(v) ==
  /\ Inside(v) => LinesIn(v) /\ StockOf(v) /\ (Tallied(v) => todo[v] = {})
  /\ ~Inside(v) => dLine[v] = NoLines /\ dStock[v] = NoStock

GoodsHeld == GoodsTypes /\ (\A v \in Validates : OfReceipt(v)) /\ StockIsReceived

LEMMA FiniteLines ==
  ASSUME NEW p
  PROVE  IsFiniteSet(LinesFor(p)) /\ LinesFor(p) \subseteq Lines
<1>1. LinesFor(p) \subseteq Lines
  BY DEF LinesFor
<1>2. QED
  BY <1>1, ProcurementAssumption, FS_Subset

LEMMA EnteringIsNat ==
  ASSUME Types, NEW v \in Validates
  PROVE  \A l \in Lines : Entering(v)[l] \in Nat /\ Received(v, l) = received[l] + Entering(v)[l]
BY DEF Types, Entering, Received, Unlocked

\* A receipt line that is mentioned carries a natural quantity.
LEMMA QtyIsNat ==
  ASSUME Types, LinesHeld, NEW v \in Validates, Inside(v), NEW l \in todo[v]
  PROVE  l \in Lines /\ Qty(v, l) \in Nat
<1>1. l \in Lines /\ receipt[mine[v]] \in ReceiptRow
  BY DEF Types
<1>2. QED
  BY <1>1 DEF LinesHeld, Qty, ReceiptRow

\* No line is locked by a transaction that has not begun or has ended.
LEMMA NothingEntered ==
  ASSUME NEW v \in Validates, NEW p, dLine[v] = NoLines
  PROVE  SumFunctionOnSet(Entering(v), LinesFor(p)) = 0
<1>1. \A l \in LinesFor(p) : Entering(v)[l] = 0
  BY FiniteLines DEF Entering, NoLines
<1>2. QED
  BY <1>1, FiniteLines, SumZero

-----------------------------------------------------------------------------
\* What a call of its own leaves a transaction with.
LEMMA OthersOfReceipt ==
  ASSUME Types, GoodsTypes, LinesHeld, NEW v \in Validates, OfReceipt(v), [Next]_vars,
         ~Validating(v)
  PROVE  OfReceipt(v)'
<1> USE DEF approvalVars, orderVars, receiveVars, callVars, deltas, goods
<1>1. CASE Crash
  <2>1. ~Inside(v)' /\ dLine'[v] = NoLines /\ dStock'[v] = NoStock
    BY <1>1 DEF Crash, Settled, Inside
  <2>2. QED
    BY <2>1 DEF OfReceipt, NoLines, NoStock
<1>2. CASE ~Crash
  <2>1. UNCHANGED <<pc[v], mine[v], todo[v], cur[v], dLine[v], dStock[v]>>
    <3>1. ASSUME NEW w \in Validates, Validating(w)
          PROVE  dStock'[v] = dStock[v] /\ w # v
      <4>1. w # v
        BY <3>1
      <4>2. \/ dStock' = dStock
            \/ \E n : dStock' = [dStock EXCEPT ![w] = n]
        BY <3>1 DEF Validating, ValidateStep, ValidateRead, Begin, StockIn, LineIn, Tally, SetStatus,
             Commit, Enter, BreakDeadlock, Rollback, PostEntry, LinkEntry, GoodsTypes
      <4>3. QED
        BY <4>1, <4>2 DEF GoodsTypes
    <3>2. ASSUME NEW w \in Validates, Validating(w)
          PROVE  UNCHANGED <<pc[v], mine[v], todo[v], cur[v], dLine[v], dStock[v]>>
      BY <3>1, <3>2, ValidatingFrame
    <3>3. ASSUME ~\E w \in Validates : Validating(w)
          PROVE  UNCHANGED <<callVars, deltas>>
      BY <1>2, <3>3 DEF Next, Validating, Receiving, ReceiptRead, ReceiptInsert, Ordering,
           CreateOrder, SendRead, SendLook, SendHold, SendWrite, CancelRead, CancelWrite, vars
    <3>4. QED
      BY <3>2, <3>3
  <2>2. Inside(v) => receipt'[mine[v]].qty = receipt[mine[v]].qty
    BY ReceiptKept DEF LinesHeld, Drafted, Types
  <2>3. CASE Inside(v)
    <3>1. /\ Inside(v)' /\ Entering(v)' = Entering(v)
          /\ \A l : Qty(v, l)' = Qty(v, l)
          /\ \A p : InHand(v, p)' = InHand(v, p) /\ LinesFor(p)' = LinesFor(p)
      BY <2>1, <2>2, <2>3 DEF Inside, Entering, Qty, InHand, LinesFor
    <3>2. LinesIn(v)' /\ StockOf(v)'
      BY <2>1, <2>3, <3>1 DEF OfReceipt, LinesIn, StockOf
    <3>3. QED
      BY <2>1, <2>3, <3>1, <3>2 DEF OfReceipt, Tallied
  <2>4. CASE ~Inside(v)
    BY <2>1, <2>4 DEF OfReceipt, Inside, NoLines, NoStock
  <2>5. QED
    BY <2>3, <2>4
<1>3. QED
  BY <1>1, <1>2

\* The stock of the line in hand comes in.
LEMMA StockInOfReceipt ==
  ASSUME Types, GoodsTypes, LinesHeld, NEW v \in Validates, OfReceipt(v), StockIn(v)
  PROVE  OfReceipt(v)' /\ dStock' \in [Validates -> [Products -> Nat]]
<1> DEFINE q == Qty(v, cur[v])
           x == ProductOf[cur[v]]
<1>1. Inside(v) /\ pc[v] = "stock" /\ cur[v] \in todo[v] /\ Inside(v)' /\ pc'[v] = "line"
  BY DEF StockIn, Inside, LinesHeld, Goto, Types
<1>2. q \in Nat /\ x \in Products /\ cur[v] \in Lines
  BY <1>1, QtyIsNat, ProcurementAssumption
<1>3. /\ UNCHANGED <<receipt, mine, todo, cur, dLine>>
      /\ dStock' = [dStock EXCEPT ![v][x] = @ + q]
  BY DEF StockIn
<1>4. /\ \A l : Qty(v, l)' = Qty(v, l)
      /\ Entering(v)' = Entering(v) /\ \A p : LinesFor(p)' = LinesFor(p)
  BY <1>3 DEF Qty, Entering, LinesFor
<1>5. \A p \in Products : InHand(v, p) = 0 /\ InHand(v, p)' = IF x = p THEN q ELSE 0
  BY <1>1, <1>3, <1>4 DEF InHand, Qty
<1> HIDE DEF q, x
<1>6. dStock'[v] = [dStock[v] EXCEPT ![x] = @ + q] /\ dStock[v] \in [Products -> Nat]
  BY <1>3 DEF GoodsTypes
<1>7. \A p \in Products : dStock'[v][p] = dStock[v][p] + InHand(v, p)'
  BY <1>2, <1>5, <1>6
<1>8. StockOf(v)'
  <2> SUFFICES ASSUME NEW p \in Products
               PROVE  dStock'[v][p] = SumFunctionOnSet(Entering(v), LinesFor(p)) + InHand(v, p)'
    BY <1>4 DEF StockOf
  <2>1. dStock[v][p] = SumFunctionOnSet(Entering(v), LinesFor(p)) + 0
    BY <1>1, <1>5 DEF OfReceipt, StockOf
  <2>2. SumFunctionOnSet(Entering(v), LinesFor(p)) \in Int
    BY EnteringIsNat, FiniteLines, SumInt
  <2>3. QED
    BY <1>7, <2>1, <2>2
<1>9. LinesIn(v)'
  BY <1>1, <1>3, <1>4 DEF OfReceipt, LinesIn
<1>10. dStock' \in [Validates -> [Products -> Nat]]
  BY <1>2, <1>3 DEF GoodsTypes
<1>11. QED
  BY <1>1, <1>8, <1>9, <1>10 DEF OfReceipt, Tallied

\* The order line takes what came in of it.
LEMMA LineInOfReceipt ==
  ASSUME Types, GoodsTypes, LinesHeld, NEW v \in Validates, OfReceipt(v), LineIn(v)
  PROVE  OfReceipt(v)'
<1> DEFINE i == cur[v]
           q == Qty(v, i)
<1>1. Inside(v) /\ pc[v] = "line" /\ i \in todo[v] /\ Inside(v)' /\ pc'[v] = "open"
  BY DEF LineIn, Inside, LinesHeld, Goto, Types
<1>2. q \in Nat /\ i \in Lines
  BY <1>1, QtyIsNat
<1>3. /\ UNCHANGED <<receipt, mine, cur, dStock>> /\ todo'[v] = todo[v] \ {i}
      /\ dLine' = [dLine EXCEPT ![v][i] = q]
  BY DEF LineIn, Types
<1>4. /\ \A l : Qty(v, l)' = Qty(v, l)
      /\ \A p : LinesFor(p)' = LinesFor(p)
  BY <1>3 DEF Qty, LinesFor
<1>5. \A p \in Products : InHand(v, p)' = 0 /\ InHand(v, p) = IF ProductOf[i] = p THEN q ELSE 0
  BY <1>1 DEF InHand
<1> HIDE DEF q, i
<1>6. dLine[v] \in [Lines -> Nat \cup {Unlocked}] /\ dLine'[v] = [dLine[v] EXCEPT ![i] = q]
  BY <1>3 DEF Types
<1>7. LinesIn(v)'
  <2>1. LinesIn(v)
    BY <1>1 DEF OfReceipt
  <2>2. QED
    BY <1>2, <1>3, <1>4, <1>6, <2>1 DEF LinesIn, q
<1>8. /\ Entering(v)[i] = 0 /\ Entering(v)'[i] = q
      /\ \A l \in Lines \ {i} : Entering(v)'[l] = Entering(v)[l]
  <2>1. dLine[v][i] = Unlocked
    BY <1>1, <1>2 DEF OfReceipt, LinesIn
  <2>2. q # Unlocked
    BY <1>2 DEF Unlocked
  <2>3. QED
    BY <1>2, <1>6, <2>1, <2>2 DEF Entering
<1>9. StockOf(v)'
  <2> SUFFICES ASSUME NEW p \in Products
               PROVE  dStock[v][p] = SumFunctionOnSet(Entering(v)', LinesFor(p))
    <3>1. \A p \in Products : SumFunctionOnSet(Entering(v)', LinesFor(p)) \in Int
      <4>1. \A l \in Lines : Entering(v)'[l] \in Int
        BY <1>2, <1>8, EnteringIsNat
      <4>2. QED
        BY <4>1, FiniteLines, SumInt
    <3>2. QED
      BY <1>3, <1>4, <1>5, <3>1 DEF StockOf
  <2>1. dStock[v][p] = SumFunctionOnSet(Entering(v), LinesFor(p)) + InHand(v, p)
    BY <1>1 DEF OfReceipt, StockOf
  <2>2. /\ SumFunctionOnSet(Entering(v), LinesFor(p)) \in Int
        /\ \A l \in LinesFor(p) : Entering(v)[l] \in Int
    BY EnteringIsNat, FiniteLines, SumInt
  <2>3. CASE ProductOf[i] = p
    <3>1. i \in LinesFor(p)
      BY <1>2, <2>3 DEF LinesFor
    <3>2. \A l \in LinesFor(p) \ {i} : Entering(v)'[l] = Entering(v)[l]
      BY <1>8, FiniteLines
    <3>3. SumFunctionOnSet(Entering(v)', LinesFor(p))
            = SumFunctionOnSet(Entering(v), LinesFor(p)) + (Entering(v)'[i] - Entering(v)[i])
      BY <1>2, <1>8, <2>2, <3>1, <3>2, FiniteLines, SumUpdate
    <3>4. QED
      BY <1>2, <1>5, <1>8, <2>1, <2>2, <2>3, <3>3
  <2>4. CASE ProductOf[i] # p
    <3>1. \A l \in LinesFor(p) : Entering(v)'[l] = Entering(v)[l]
      BY <1>8, <2>4 DEF LinesFor
    <3>2. SumFunctionOnSet(Entering(v)', LinesFor(p)) = SumFunctionOnSet(Entering(v), LinesFor(p))
      BY <3>1, FiniteLines, SumSame
    <3>3. QED
      BY <1>5, <2>1, <2>2, <2>4, <3>2
  <2>5. QED
    BY <2>3, <2>4
<1>10. QED
  BY <1>1, <1>7, <1>9 DEF OfReceipt, Tallied
\* A call keeps to what it wrote until it ends.
LEMMA OwnOfReceipt ==
  ASSUME Types, GoodsTypes, LinesHeld, NEW v \in Validates, OfReceipt(v), Validating(v)
  PROVE  OfReceipt(v)' /\ dStock' \in [Validates -> [Products -> Nat]]
<1> USE DEF Goto
<1>1. ASSUME NEW g \in Receipts, ValidateRead(v, g)
      PROVE  OfReceipt(v)' /\ dStock' = dStock
  <2>1. /\ ~Inside(v) /\ pc'[v] = "open" /\ UNCHANGED <<receipt, dLine, dStock>>
        /\ todo'[v] = {l \in Lines : receipt[g].qty[l] # Omitted} /\ mine'[v] = g
    BY <1>1 DEF ValidateRead, Inside, Types, deltas
  <2>2. dLine[v] = NoLines /\ dStock[v] = NoStock
    BY <2>1 DEF OfReceipt
  <2>3. LinesIn(v)'
    BY <2>1, <2>2 DEF LinesIn, NoLines, Qty, Omitted, Unlocked
  <2>4. StockOf(v)'
    <3>1. Entering(v)' = Entering(v) /\ \A p : LinesFor(p)' = LinesFor(p)
      BY <2>1 DEF Entering, LinesFor
    <3>2. \A p \in Products : InHand(v, p)' = 0 /\ dStock'[v][p] = 0
      BY <2>1, <2>2 DEF InHand, NoStock
    <3>3. \A p \in Products : SumFunctionOnSet(Entering(v), LinesFor(p)) = 0
      BY <2>2, NothingEntered
    <3>4. QED
      BY <3>1, <3>2, <3>3 DEF StockOf
  <2>5. QED
    BY <2>1, <2>3, <2>4 DEF OfReceipt, Inside, Tallied
<1>2. ASSUME NEW l \in Lines, Begin(v, l)
      PROVE  OfReceipt(v)' /\ dStock' = dStock
  <2>1. /\ Inside(v) /\ pc[v] = "open" /\ UNCHANGED <<receipt, mine, todo, dLine, dStock>>
        /\ cur'[v] = l /\ l \in todo[v] /\ pc'[v] = IF Qty(v, l) > 0 THEN "stock" ELSE "line"
    BY <1>2 DEF Begin, Inside, Types, deltas
  <2>2. /\ Entering(v)' = Entering(v) /\ \A p : LinesFor(p)' = LinesFor(p)
        /\ \A k : Qty(v, k)' = Qty(v, k)
    BY <2>1 DEF Entering, LinesFor, Qty
  <2>3. \A p \in Products : InHand(v, p) = 0 /\ InHand(v, p)' = 0
    <3>1. Qty(v, l) \in Nat
      BY <2>1, QtyIsNat
    <3>2. pc'[v] = "line" => Qty(v, l) = 0
      BY <2>1, <3>1
    <3>3. QED
      BY <2>1, <2>2, <3>2 DEF InHand
  <2>4. LinesIn(v)' /\ StockOf(v)'
    BY <2>1, <2>2, <2>3 DEF OfReceipt, LinesIn, StockOf
  <2>5. QED
    BY <2>1, <2>4 DEF OfReceipt, Inside, Tallied
<1>3. ASSUME Tally(v) \/ SetStatus(v)
      PROVE  OfReceipt(v)' /\ dStock' = dStock
  <2>1. /\ Inside(v) /\ Inside(v)' /\ pc[v] # "line" /\ pc'[v] # "line"
        /\ UNCHANGED <<receipt, mine, todo, dLine, dStock>>
        /\ todo[v] = {} \/ Tallied(v)
    BY <1>3 DEF Tally, SetStatus, Inside, Tallied, Types, deltas
  <2>2. /\ Entering(v)' = Entering(v) /\ \A p : LinesFor(p)' = LinesFor(p)
        /\ \A k : Qty(v, k)' = Qty(v, k)
        /\ \A p : InHand(v, p) = 0 /\ InHand(v, p)' = 0
    BY <2>1 DEF Entering, LinesFor, Qty, InHand
  <2>3. LinesIn(v)' /\ StockOf(v)'
    BY <2>1, <2>2 DEF OfReceipt, LinesIn, StockOf
  <2>4. QED
    BY <2>1, <2>3 DEF OfReceipt
<1>4. ASSUME Commit(v) \/ BreakDeadlock(v)
      PROVE  OfReceipt(v)' /\ dStock' = [dStock EXCEPT ![v] = NoStock]
  <2>1. /\ ~Inside(v)' /\ dStock' = [dStock EXCEPT ![v] = NoStock]
        /\ dLine' = [dLine EXCEPT ![v] = NoLines]
    BY <1>4 DEF Commit, Enter, BreakDeadlock, Rollback, Inside, Types
  <2>2. dStock'[v] = NoStock /\ dLine'[v] = NoLines
    BY <2>1 DEF Types, GoodsTypes
  <2>3. QED
    BY <2>1, <2>2 DEF OfReceipt, NoStock, NoLines
<1>5. ASSUME PostEntry(v) \/ LinkEntry(v)
      PROVE  OfReceipt(v)' /\ dStock' = dStock
  <2>1. ~Inside(v) /\ ~Inside(v)' /\ UNCHANGED <<dLine, dStock>>
    BY <1>5 DEF PostEntry, LinkEntry, Inside, Types, deltas
  <2>2. QED
    BY <2>1 DEF OfReceipt, NoStock, NoLines
<1>6. NoStock \in [Products -> Nat]
  BY DEF NoStock
<1>7. dStock' = dStock \/ dStock' = [dStock EXCEPT ![v] = NoStock]
        => dStock' \in [Validates -> [Products -> Nat]]
  BY <1>6 DEF GoodsTypes
<1>8. CASE StockIn(v) \/ LineIn(v)
  <2>1. LineIn(v) => dStock' = dStock
    BY DEF LineIn
  <2>2. QED
    BY <1>7, <1>8, <2>1, StockInOfReceipt, LineInOfReceipt
<1>9. QED
  BY <1>1, <1>2, <1>3, <1>4, <1>5, <1>7, <1>8 DEF Validating, ValidateStep

-----------------------------------------------------------------------------
(***************************************************************************)
(* The commit: what the transaction entered joins what was entered before. *)
(***************************************************************************)
LEMMA CommitReceived ==
  ASSUME Types, GoodsTypes, LinesHeld, NEW v \in Validates, OfReceipt(v), Commit(v),
         NEW l \in Lines, received[l] = SumFunction([g \in Receipts |-> Entered(g, l)])
  PROVE  received'[l] = SumFunction([g \in Receipts |-> Entered(g, l)'])
<1> SUFFICES ASSUME NEW m, m = mine[v]
             PROVE  received'[l] = SumFunction([g \in Receipts |-> Entered(g, l)'])
  OBVIOUS
<1> DEFINE q == receipt[m].qty[l]
           f == [g \in Receipts |-> Entered(g, l)]
           h == [g \in Receipts |-> Entered(g, l)']
<1>1. m \in Receipts /\ Inside(v) /\ todo[v] = {} /\ IsFiniteSet(Receipts)
  BY ProcurementAssumption DEF Types, Commit, Inside, Tallied, OfReceipt
<1>2. q \in Nat \cup {Omitted}
  BY <1>1 DEF Types, ReceiptRow
<1>3. \A g \in Receipts : Entered(g, l) \in Int
  <2>1. ASSUME NEW g \in Receipts
        PROVE  receipt[g].qty[l] \in Nat \cup {Omitted} /\ times[g] \in Nat
    BY DEF Types, ReceiptRow, GoodsTypes
  <2>2. QED
    BY <2>1 DEF Entered, Omitted
<1>4. /\ \A g \in Receipts : receipt'[g].qty = receipt[g].qty
      /\ times' = [times EXCEPT ![m] = @ + 1]
  <2>1. receipt' = [receipt EXCEPT ![m].status = "VALIDATED"] /\ times' = [times EXCEPT ![m] = @ + 1]
    BY DEF Commit, Enter
  <2>2. \A g \in Receipts : receipt[g] \in ReceiptRow
    BY DEF Types
  <2>3. QED
    BY <1>1, <2>1, <2>2 DEF ReceiptRow, Types
<1>5. \A g \in Receipts \ {m} : Entered(g, l)' = Entered(g, l)
  BY <1>4 DEF Entered, GoodsTypes
<1>6. Entered(m, l)' = Entered(m, l) + (IF q = Omitted THEN 0 ELSE q)
  <2>1. times'[m] = times[m] + 1 /\ times[m] \in Nat /\ receipt'[m].qty[l] = q
    BY <1>1, <1>4 DEF GoodsTypes
  <2> HIDE DEF q
  <2>2. CASE q = Omitted
    BY <2>1, <2>2, SMT DEF Entered, Omitted, q
  <2>3. CASE q # Omitted
    <3>1. q \in Nat /\ (times[m] + 1) * q = times[m] * q + q
      BY <1>2, <2>1, <2>3
    <3>2. Entered(m, l) = times[m] * q /\ Entered(m, l)' = (times[m] + 1) * q
      BY <2>1, <2>3 DEF Entered, q
    <3>3. QED
      BY <2>3, <3>1, <3>2
  <2>4. QED
    BY <2>2, <2>3
<1>7. received'[l] = received[l] + (IF q = Omitted THEN 0 ELSE q)
  <2>1. received'[l] = Received(v, l)
    BY DEF Commit
  <2>2. dLine[v][l] = q
    BY <1>1 DEF OfReceipt, LinesIn, Qty
  <2>3. QED
    BY <2>1, <2>2 DEF Received, Omitted, Unlocked
<1>8. (IF q = Omitted THEN 0 ELSE q) \in Int /\ received[l] \in Int /\ Entered(m, l) \in Int
  BY <1>1, <1>2, <1>3 DEF Omitted, Types
<1>9. SumFunctionOnSet(h, Receipts) = SumFunctionOnSet(f, Receipts) + (h[m] - f[m])
  <2>1. /\ \A g \in Receipts : f[g] \in Int
        /\ h[m] \in Int /\ \A g \in Receipts \ {m} : h[g] = f[g]
    BY <1>1, <1>3, <1>5, <1>6, <1>8
  <2> HIDE DEF f, h
  <2>2. QED
    BY <1>1, <2>1, SumUpdate
<1>10. h[m] = Entered(m, l)' /\ f[m] = Entered(m, l)
  BY <1>1
<1>11. received[l] = SumFunctionOnSet(f, Receipts)
  BY DEF SumFunction
<1> HIDE DEF f, h, q
<1>12. received'[l] = SumFunctionOnSet(h, Receipts)
  BY <1>6, <1>7, <1>8, <1>9, <1>10, <1>11
<1>13. QED
  BY <1>12 DEF SumFunction, h

\* The stock grows by what the order lines of the product grow by.
LEMMA CommitStock ==
  ASSUME Types, GoodsTypes, NEW v \in Validates, OfReceipt(v), Commit(v), NEW p \in Products
  PROVE  LET in == SumFunctionOnSet(received, LinesFor(p))
         IN SumFunctionOnSet(received', LinesFor(p)) = in + dStock[v][p] /\ in \in Int
<1>1. pc[v] = "set" /\ Inside(v)
  BY DEF Commit, Inside
<1>2. InHand(v, p) = 0
  BY <1>1 DEF InHand
<1>3. \A l \in LinesFor(p) : /\ received[l] \in Int /\ Entering(v)[l] \in Int
                             /\ received'[l] = received[l] + Entering(v)[l]
  BY FiniteLines, EnteringIsNat DEF Types, Commit
<1>4. SumFunctionOnSet(received', LinesFor(p))
        = SumFunctionOnSet(received, LinesFor(p)) + SumFunctionOnSet(Entering(v), LinesFor(p))
  BY <1>3, FiniteLines, SumPlus
<1>5. dStock[v][p] = SumFunctionOnSet(Entering(v), LinesFor(p)) + 0
  BY <1>1, <1>2 DEF OfReceipt, StockOf
<1>6. /\ SumFunctionOnSet(Entering(v), LinesFor(p)) \in Int
      /\ SumFunctionOnSet(received, LinesFor(p)) \in Int
  BY <1>3, FiniteLines, SumInt
<1>7. QED
  BY <1>4, <1>5, <1>6

LEMMA CommitGoods ==
  ASSUME Types, GoodsHeld, LinesHeld, NEW v \in Validates, Commit(v)
  PROVE  StockIsReceived' /\ GoodsTypes'
<1>1. OfReceipt(v) /\ GoodsTypes /\ StockIsReceived
  BY DEF GoodsHeld
<1>2. mine[v] \in Receipts /\ dStock[v] \in [Products -> Nat]
  BY <1>1 DEF Types, GoodsTypes
<1>3. GoodsTypes'
  <2>1. dStock' \in [Validates -> [Products -> Nat]]
    BY <1>1, OwnOfReceipt DEF Validating, ValidateStep
  <2>2. times' = [times EXCEPT ![mine[v]] = times[mine[v]] + 1]
        /\ times \in [Receipts -> Nat]
    BY <1>1 DEF Commit, Enter, GoodsTypes
  <2>3. stock' \in [Products -> Nat] /\ lots' \in [Products -> Nat] /\ moved' \in [Products -> Nat]
    BY <1>1, <1>2 DEF Commit, Enter, GoodsTypes
  <2>4. QED
    BY <1>2, <2>1, <2>2, <2>3 DEF GoodsTypes
<1>4. \A g \in Receipts : (receipt[g].status = "VALIDATED" <=> times[g] > 0)'
  <2>1. /\ receipt' = [receipt EXCEPT ![mine[v]].status = "VALIDATED"]
        /\ times' = [times EXCEPT ![mine[v]] = @ + 1]
    BY DEF Commit, Enter
  <2>2. receipt[mine[v]] \in ReceiptRow
    BY <1>2 DEF Types
  <2>3. receipt'[mine[v]].status = "VALIDATED" /\ times'[mine[v]] > 0
    BY <1>1, <1>2, <2>1, <2>2 DEF ReceiptRow, GoodsTypes, Types
  <2>4. \A g \in Receipts \ {mine[v]} : receipt'[g] = receipt[g] /\ times'[g] = times[g]
    BY <1>2, <2>1 DEF Types, GoodsTypes
  <2>5. QED
    BY <1>1, <2>3, <2>4 DEF StockIsReceived
<1>5. \A l \in Lines : received'[l] = SumFunction([g \in Receipts |-> Entered(g, l)'])
  BY <1>1, CommitReceived DEF StockIsReceived
<1>6. ASSUME NEW p \in Products
      PROVE  LET in == SumFunctionOnSet(received', LinesFor(p))
             IN stock'[p] = in /\ moved'[p] = in /\ (TrackLots[p] => lots'[p] = in)
  BY <1>1, <1>2, CommitStock DEF StockIsReceived, Commit, Enter
<1>7. QED
  BY <1>3, <1>4, <1>5, <1>6 DEF StockIsReceived, LinesFor

\* Every step keeps the goods accounted for.
LEMMA GoodsStep ==
  ASSUME Types, Types', LinesHeld, GoodsHeld, [Next]_vars
  PROVE  GoodsHeld'
<1> USE DEF approvalVars, orderVars, receiveVars, callVars, deltas, goods
<1>1. \A v \in Validates : OfReceipt(v)'
  BY OthersOfReceipt, OwnOfReceipt DEF GoodsHeld
<1>2. dStock' \in [Validates -> [Products -> Nat]]
  <2>1. CASE \E v \in Validates : Validating(v)
    BY <2>1, OwnOfReceipt DEF GoodsHeld
  <2>2. CASE ~\E v \in Validates : Validating(v)
    <3>1. dStock' = dStock \/ Crash
      BY <2>2 DEF Next, Validating, Receiving, ReceiptRead, ReceiptInsert, Ordering,
           CreateOrder, SendRead, SendLook, SendHold, SendWrite, CancelRead, CancelWrite, vars
    <3>2. QED
      BY <3>1 DEF Crash, GoodsHeld, GoodsTypes, NoStock
  <2>3. QED
    BY <2>1, <2>2
<1>3. CASE \E v \in Validates : Commit(v)
  BY <1>1, <1>3, CommitGoods DEF GoodsHeld
<1>4. CASE ~\E v \in Validates : Commit(v)
  <2>1. UNCHANGED <<stock, lots, moved, received, times>>
    <3>1. ASSUME NEW v \in Validates, Validating(v)
          PROVE  UNCHANGED <<stock, lots, moved, received, times>>
      BY <1>4, <3>1 DEF Validating, ValidateStep, ValidateRead, Begin, StockIn, LineIn, Tally,
           SetStatus, BreakDeadlock, PostEntry, LinkEntry
    <3>2. QED
      BY <3>1 DEF Next, Validating, Receiving, ReceiptRead, ReceiptInsert, Ordering, CreateOrder,
           SendRead, SendLook, SendHold, SendWrite, CancelRead, CancelWrite, Crash, vars
  <2>2. ASSUME NEW g \in Receipts
        PROVE  /\ receipt'[g].status = "VALIDATED" <=> receipt[g].status = "VALIDATED"
               /\ receipt'[g].qty = receipt[g].qty \/ times[g] = 0
    <3>1. UNCHANGED receipt \/ Receiving \/ Crash
      <4>1. ASSUME NEW v \in Validates, Validating(v)
            PROVE  UNCHANGED receipt
        BY <1>4, <4>1, ValidatingFrame
      <4>2. QED
        BY <4>1 DEF Next, Validating, Ordering, CreateOrder, SendRead, SendLook, SendHold,
             SendWrite, CancelRead, CancelWrite, vars
    <3>2. receipt[g] \in ReceiptRow
      BY DEF Types
    <3>3. receipt[g].status # "VALIDATED" => times[g] = 0
      BY DEF GoodsHeld, StockIsReceived, GoodsTypes
    <3>4. CASE Crash
      BY <3>2, <3>4 DEF Crash, ReceiptRow
    <3>5. ASSUME NEW h \in Receipts, ReceiptInsert(h)
          PROVE  /\ receipt'[g].status = "VALIDATED" <=> receipt[g].status = "VALIDATED"
                 /\ receipt'[g].qty = receipt[g].qty
      BY <3>2, <3>5 DEF ReceiptInsert, ReceiptRow, Types
    <3>6. ASSUME NEW h \in Receipts, NEW o \in Orders, ReceiptRead(h, o)
          PROVE  /\ receipt'[g].status = "VALIDATED" <=> receipt[g].status = "VALIDATED"
                 /\ receipt'[g].qty = receipt[g].qty \/ times[g] = 0
      BY <3>2, <3>3, <3>6 DEF ReceiptRead, ReceiptRow, Row, Types
    <3>7. QED
      BY <3>1, <3>4, <3>5, <3>6 DEF Receiving
  <2>3. \A g \in Receipts, l \in Lines : Entered(g, l)' = Entered(g, l)
    <3> SUFFICES ASSUME NEW g \in Receipts, NEW l \in Lines, times[g] = 0
                 PROVE  Entered(g, l) = 0 /\ Entered(g, l)' = 0
      BY <2>1, <2>2 DEF Entered
    <3>1. /\ receipt[g].qty[l] = Omitted \/ receipt[g].qty[l] \in Nat
          /\ receipt'[g].qty[l] = Omitted \/ receipt'[g].qty[l] \in Nat
      BY DEF Types, ReceiptRow
    <3>2. QED
      BY <2>1, <3>1 DEF Entered
  <2>4. StockIsReceived'
    <3>1. \A l \in Lines : [g \in Receipts |-> Entered(g, l)'] = [g \in Receipts |-> Entered(g, l)]
      BY <2>3
    <3>2. \A p : LinesFor(p)' = LinesFor(p)
      BY DEF LinesFor
    <3>3. QED
      BY <2>1, <2>2, <3>1, <3>2 DEF GoodsHeld, StockIsReceived
  <2>5. GoodsTypes'
    BY <1>2, <2>1 DEF GoodsHeld, GoodsTypes
  <2>6. QED
    BY <1>1, <2>4, <2>5 DEF GoodsHeld
<1>5. QED
  BY <1>3, <1>4

\* At the start nothing is entered.
LEMMA InitGoods == Init => GoodsHeld
<1> SUFFICES ASSUME Init PROVE GoodsHeld
  OBVIOUS
<1>0. /\ dStock = [v \in Validates |-> NoStock] /\ dLine = [v \in Validates |-> NoLines]
      /\ stock = NoStock /\ lots = NoStock /\ moved = NoStock
      /\ received = [l \in Lines |-> 0] /\ times = [g \in Receipts |-> 0]
      /\ \A v \in Validates : pc[v] \in {"idle", "ended"}
      /\ \A g \in Receipts : receipt[g].status # "VALIDATED"
                             /\ receipt[g].qty = [l \in Lines |-> Omitted]
  BY DEF Init, Row
<1>1. GoodsTypes
  BY <1>0 DEF GoodsTypes, NoStock
<1>2. ASSUME NEW v \in Validates
      PROVE  OfReceipt(v)
  BY <1>0 DEF OfReceipt, Inside, Tallied
<1>3. StockIsReceived
  <2>1. \A g \in Receipts : receipt[g].status = "VALIDATED" <=> times[g] > 0
    BY <1>0
  <2>2. ASSUME NEW l \in Lines
        PROVE  SumFunction([g \in Receipts |-> Entered(g, l)]) = 0
    <3> DEFINE f == [g \in Receipts |-> Entered(g, l)]
    <3>1. \A g \in Receipts : f[g] = 0
      BY <1>0 DEF Entered
    <3>2. SumFunctionOnSet(f, Receipts) = 0
      BY <3>1, ProcurementAssumption, SumZero
    <3>3. QED
      BY <3>2 DEF SumFunction
  <2>3. ASSUME NEW p \in Products
        PROVE  SumFunctionOnSet(received, LinesFor(p)) = 0
    <3>1. \A l \in LinesFor(p) : received[l] = 0
      BY <1>0, FiniteLines
    <3>2. QED
      BY <3>1, FiniteLines, SumZero
  <2>4. QED
    BY <1>0, <2>1, <2>2, <2>3 DEF StockIsReceived, NoStock
<1>4. QED
  BY <1>1, <1>2, <1>3 DEF GoodsHeld

(***************************************************************************)
(* Receipts, order lines, stock, lots and movements account for each       *)
(* other: a receipt is validated exactly when its goods were entered, a    *)
(* line has received what the commits of its receipts say, and stock, lots *)
(* and movements are the sums over the lines; for any number of receipts   *)
(* and concurrent validations, rolled back, broken off or restarted.       *)
(***************************************************************************)
THEOREM GoodsAreReceived == Spec => []StockIsReceived
<1>1. IInv /\ GoodsHeld /\ [Next]_vars => IInv' /\ GoodsHeld'
  BY TypeStep, LinesStep, SentStep, ReceivedStep, GoodsStep DEF IInv
<1>2. GoodsHeld => StockIsReceived
  BY DEF GoodsHeld
<1>3. QED
  BY <1>1, <1>2, InitIInv, InitGoods, PTL DEF Spec
=============================================================================
