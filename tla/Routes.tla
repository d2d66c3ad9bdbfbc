------------------------------- MODULE Routes -------------------------------
(***************************************************************************)
(* The routes of the API, a definition for each controller, a field for    *)
(* each of its methods: the permission it needs, the table it lists and    *)
(* the tables whose rows come with it, or the tables it changes and, where *)
(* the answer depends on a row's status, the statuses it accepts and the   *)
(* ones it leaves.  What the methods do is the other modules' matter.      *)
(***************************************************************************)
None == "none"
Anyone == "anyone"      \* any signed-in user
Everyone == "everyone"  \* no session needed

Route == [needs |-> Anyone, of |-> None, with |-> {}, on |-> None, from |-> {}, to |-> {},
          changes |-> {}]

Reads(needs, of, with) == [Route EXCEPT !.needs = needs, !.of = of, !.with = with]
Alters(needs, changes) == [Route EXCEPT !.needs = needs, !.changes = changes]
Moves(needs, on, from, to, changes) ==
  [Route EXCEPT !.needs = needs, !.on = on, !.from = from, !.to = to, !.changes = changes \cup {on}]

(***************************************************************************)
(* Supply chain.  An order held or refused by an approval keeps the status *)
(* DRAFT; HELD and REFUSED name it here.                                   *)
(***************************************************************************)
SupplierQuotesController == LET p == "supplychain.quote.manage" IN
  [create |-> Alters(p, {"quotes"}), list |-> Reads(p, "quotes", {})]

PurchaseOrdersController == LET p == "supplychain.purchaseorder.manage" IN
  [create  |-> Alters(p, {"orders"}),
   list    |-> Reads(p, "orders", {}),
   findOne |-> Reads(p, "orders", {}),
   send    |-> Moves(p, "orders", {"DRAFT"}, {"SENT", "HELD"}, {"requests", "notifications"}),
   cancel  |-> Moves(p, "orders", {"DRAFT", "HELD", "REFUSED", "SENT", "PARTIALLY_RECEIVED"},
                     {"CANCELLED"}, {})]

GoodsReceiptsController == LET p == "supplychain.receipt.manage" IN
  [create   |-> Alters(p, {"receipts"}),
   list     |-> Reads(p, "receipts", {}),
   findOne  |-> Reads(p, "receipts", {}),
   validate |-> Moves(p, "receipts", {"DRAFT"}, {"VALIDATED"}, {"orders", "stock", "entries"})]

ReorderCheckController ==
  [run |-> Alters("supplychain.purchaseorder.manage", {"orders", "notifications"})]

(***************************************************************************)
(* Stock.                                                                  *)
(***************************************************************************)
CatalogController == LET p == "stock.product.manage" IN
  [createProduct  |-> Alters(p, {"products"}),
   listProducts   |-> Reads(p, "products", {"stock"}),
   findProduct    |-> Reads(p, "products", {"stock"}),
   updateProduct  |-> Alters(p, {"products"}),
   createCategory |-> Alters(p, {"categories"}),
   listCategories |-> Reads(p, "categories", {}),
   createBrand    |-> Alters(p, {"brands"}),
   listBrands     |-> Reads(p, "brands", {}),
   listUnits      |-> Reads(p, "units", {})]

StockMovementsController ==
  [levels    |-> Reads("stock.movement.read", "stock", {}),
   movements |-> Reads("stock.movement.read", "movements", {}),
   adjust    |-> Alters("stock.product.manage", {"stock", "movements"})]

StockTransfersController == LET p == "stock.transfer.manage" IN
  [create  |-> Alters(p, {"transfers", "stock", "movements"}),
   list    |-> Reads(p, "transfers", {}),
   receive |-> Moves(p, "transfers", {"IN_TRANSIT"}, {"RECEIVED"}, {"stock", "movements"})]

WarehousesController == LET p == "stock.warehouse.manage" IN
  [create |-> Alters(p, {"warehouses"}), list |-> Reads(p, "warehouses", {})]

(***************************************************************************)
(* Logistics.                                                              *)
(***************************************************************************)
AllowedFrom == [LOADED |-> {"PENDING"}, IN_TRANSIT |-> {"LOADED"}, DELIVERED |-> {"IN_TRANSIT"},
                FAILED |-> {"IN_TRANSIT"}, CANCELLED |-> {"PENDING", "LOADED", "IN_TRANSIT"}]

DeliveriesController ==
  LET manage == "logistics.delivery.manage"
      drive == "logistics.delivery.drive" IN
  [create                |-> Alters(manage, {"deliveries"}),
   list                  |-> Reads(manage, "deliveries", {}),
   listMine              |-> Reads(drive, "deliveries", {}),
   findOne               |-> Reads(drive, "deliveries", {}),
   assignDriver          |-> Moves(manage, "deliveries", {"PENDING"}, {"PENDING"}, {}),
   updateStatus          |-> [to \in DOMAIN AllowedFrom |->
                                Moves(drive, "deliveries", AllowedFrom[to], {to}, {"entries"})],
   submitProofOfDelivery |-> Moves(drive, "deliveries", {"IN_TRANSIT"}, {"DELIVERED"}, {"entries"})]

DeliveryZonesController == LET p == "logistics.delivery.manage" IN
  [create |-> Alters(p, {"zones"}), list |-> Reads(p, "zones", {}), findOne |-> Reads(p, "zones", {})]

DriversController == [list |-> Reads("logistics.delivery.manage", "users", {})]

VehiclesController == LET p == "logistics.delivery.manage" IN
  [create  |-> Alters(p, {"vehicles"}), list |-> Reads(p, "vehicles", {}),
   findOne |-> Reads(p, "vehicles", {})]

(***************************************************************************)
(* Accounting.                                                             *)
(***************************************************************************)
AccountsController == [list |-> Reads("accounting.journal.read", "accounts", {})]

BankAccountsController == LET p == "accounting.bank.reconcile" IN
  [create  |-> Alters(p, {"bankAccounts"}), list |-> Reads(p, "bankAccounts", {}),
   findOne |-> Reads(p, "bankAccounts", {})]

BankStatementsController == LET p == "accounting.bank.reconcile" IN
  [import      |-> Alters(p, {"statements"}),
   list        |-> Reads(p, "statements", {}),
   findOne     |-> Reads(p, "statements", {}),
   summary     |-> Reads(p, "lines", {}),
   autoMatch   |-> Alters(p, {"statements", "lines"}),
   manualMatch |-> Alters(p, {"statements", "lines"})]

LettrageController == [autoMatch |-> Alters("accounting.bank.reconcile", {"entries"})]

InvoicesController == LET p == "accounting.invoice.manage" IN
  [create   |-> Alters(p, {"invoices"}),
   validate |-> Moves(p, "invoices", {"DRAFT"}, {"VALIDATED"}, {"entries", "credit"}),
   list     |-> Reads(p, "invoices", {}),
   findOne  |-> Reads(p, "invoices", {})]

SuppliersController == LET p == "accounting.invoice.manage" IN
  [create  |-> Alters(p, {"suppliers"}), list |-> Reads(p, "suppliers", {}),
   findOne |-> Reads(p, "suppliers", {}), update |-> Alters(p, {"suppliers"})]

JournalEntriesController ==
  [create  |-> Alters("accounting.journal.write", {"entries"}),
   list    |-> Reads("accounting.journal.read", "entries", {}),
   findOne |-> Reads("accounting.journal.read", "entries", {})]

ReportsController == LET p == "accounting.report.read" IN
  [fiscalYears     |-> Reads(p, "fiscalYears", {}),
   trialBalance    |-> Reads(p, "entries", {}),
   generalLedger   |-> Reads(p, "entries", {}),
   journalSummary  |-> Reads(p, "entries", {}),
   incomeStatement |-> Reads(p, "entries", {}),
   balanceSheet    |-> Reads(p, "entries", {})]

(***************************************************************************)
(* Treasury.  A movement without an entry is OPEN, or HELD while its       *)
(* approval is pending or after it was refused.                            *)
(***************************************************************************)
CashBoxesController == LET p == "treasury.cashbox.manage" IN
  [create               |-> Alters(p, {"cashboxes"}),
   list                 |-> Reads(p, "cashboxes", {}),
   findOne              |-> Reads(p, "cashboxes", {}),
   listMovements        |-> Reads(p, "cashMovements", {}),
   addMovement          |-> [Alters(p, {"cashMovements", "requests", "entries"})
                               EXCEPT !.to = {"OPEN", "HELD", "POSTED"}],
   postApprovedMovement |-> Moves(p, "cashMovements", {"OPEN"}, {"POSTED"}, {"entries"})]

CashTransfersController == LET p == "treasury.transfer.manage" IN
  [create   |-> Alters(p, {"cashTransfers"}),
   list     |-> Reads(p, "cashTransfers", {}),
   complete |-> Moves(p, "cashTransfers", {"PENDING"}, {"COMPLETED"}, {"entries"}),
   cancel   |-> Moves(p, "cashTransfers", {"PENDING"}, {"CANCELLED"}, {})]

RegistersController == LET p == "pos.cashsession.manage" IN
  [list |-> Reads(p, "registers", {}), openSession |-> Alters(p, {"cashSessions"}),
   closeSession |-> Alters(p, {"cashSessions", "entries"})]

(***************************************************************************)
(* Credit.                                                                 *)
(***************************************************************************)
CreditControlController ==
  LET installment == "credit.installment.manage"
      block == "credit.customer.block"
      unpaid == {"PENDING", "OVERDUE", "CANCELLED"} IN
  [generateInstallments |-> Alters(installment, {"installments"}),
   listInstallments     |-> Reads(installment, "installments", {}),
   markInstallmentPaid  |-> Moves(installment, "installments", unpaid, {"PAID"}, {}),
   getOutstanding       |-> Reads(block, "invoices", {}),
   block                |-> Moves(block, "customers", {"ACTIVE", "BLOCKED"}, {"BLOCKED"}, {}),
   unblock              |-> Moves(block, "customers", {"ACTIVE", "BLOCKED"}, {"ACTIVE"}, {}),
   runOverdueCheck      |-> Moves(block, "customers", {"ACTIVE", "BLOCKED"}, {"ACTIVE", "BLOCKED"},
                                  {"installments", "notifications"})]

(***************************************************************************)
(* Fixed assets, documents and approvals.                                  *)
(***************************************************************************)
FixedAssetsController ==
  LET p == "assets.fixedasset.manage"
      owned == {"IN_SERVICE", "FULLY_DEPRECIATED"} IN
  [create          |-> Alters(p, {"assets", "entries"}),
   list            |-> Reads(p, "assets", {}),
   findOne         |-> Reads(p, "assets", {}),
   dispose         |-> Moves(p, "assets", owned, {"DISPOSED"}, {"entries"}),
   runDepreciation |-> Alters("assets.depreciation.run", {"assets", "entries"})]

DocumentsController == LET p == "ged.document.manage" IN
  [attach  |-> Alters(p, {"documents"}),
   listFor |-> Reads(p, "documents", {}),
   remove  |-> Moves(p, "documents", {"ATTACHED"}, {"REMOVED"}, {})]

ApprovalsController == LET p == "ged.approval.manage" IN
  [createRule   |-> Alters(p, {"rules"}),
   listRules    |-> Reads(p, "rules", {}),
   deleteRule   |-> Alters(p, {"rules"}),
   listRequests |-> Reads(p, "requests", {}),
   decide       |-> Moves(p, "requests", {"PENDING"}, {"APPROVED", "REJECTED"}, {"notifications"})]

(***************************************************************************)
(* People and payroll.                                                     *)
(***************************************************************************)
EmployeesController == LET p == "hr.employee.manage" IN
  [create    |-> Alters(p, {"employees"}),
   list      |-> Reads(p, "employees", {}),
   findOne   |-> Reads(p, "employees", {}),
   update    |-> Alters(p, {"employees"}),
   terminate |-> Moves(p, "employees", {"ACTIVE", "TERMINATED"}, {"TERMINATED"}, {"contracts"})]

DepartmentsController == LET p == "hr.employee.manage" IN
  [create  |-> Alters(p, {"departments"}), list |-> Reads(p, "departments", {}),
   findOne |-> Reads(p, "departments", {})]

PositionsController == LET p == "hr.employee.manage" IN
  [create  |-> Alters(p, {"positions"}), list |-> Reads(p, "positions", {}),
   findOne |-> Reads(p, "positions", {})]

ContractsController == LET p == "hr.employee.manage" IN
  [create |-> Alters(p, {"contracts"}), listByEmployee |-> Reads(p, "contracts", {}),
   end    |-> Alters(p, {"contracts"})]

LeaveTypesController == LET p == "hr.employee.manage" IN
  [create |-> Alters(p, {"leaveTypes"}), list |-> Reads(p, "leaveTypes", {})]

LeaveRequestsController ==
  LET attendance == "hr.attendance.manage"
      approve == "hr.leave.approve" IN
  [create         |-> Alters(attendance, {"leaves"}),
   approve        |-> Moves(approve, "leaves", {"PENDING"}, {"APPROVED"}, {}),
   reject         |-> Moves(approve, "leaves", {"PENDING"}, {"REJECTED"}, {}),
   listPending    |-> Reads(approve, "leaves", {}),
   listByEmployee |-> Reads(attendance, "leaves", {})]

AttendanceController == LET p == "hr.attendance.manage" IN
  [record   |-> Alters(p, {"attendance"}), checkIn |-> Alters(p, {"attendance"}),
   checkOut |-> Alters(p, {"attendance"}), listByEmployee |-> Reads(p, "attendance", {})]

PayrollRunsController == LET p == "hr.payroll.manage" IN
  [create   |-> Alters(p, {"runs"}),
   validate |-> Moves(p, "runs", {"DRAFT"}, {"VALIDATED"}, {"entries"}),
   list     |-> Reads(p, "runs", {}),
   findOne  |-> Reads(p, "runs", {})]

BankTransferController == LET p == "hr.payroll.manage" IN
  [generate |-> [Moves(p, "runs", {"VALIDATED"}, {"VALIDATED"}, {}) EXCEPT !.changes = {"batches"}],
   findOne  |-> Reads(p, "batches", {}),
   getCsv   |-> Reads(p, "batches", {})]

PayslipsController == [getPdf |-> Reads("hr.payroll.manage", "runs", {})]

(***************************************************************************)
(* Customers.                                                              *)
(***************************************************************************)
CustomersController == LET p == "crm.customer.manage" IN
  [create            |-> Alters(p, {"customers"}),
   list              |-> Reads(p, "customers", {"credit"}),
   findOne           |-> Reads(p, "customers", {"credit"}),
   update            |-> Alters(p, {"customers"}),
   analytics         |-> Reads(p, "invoices", {}),
   recomputeCategory |-> Alters(p, {"customers"})]

CrmAnalyticsController == [get |-> Reads("crm.customer.manage", "invoices", {"customers", "stock"})]

InteractionsController == LET p == "crm.customer.manage" IN
  [create |-> Alters(p, {"interactions"}), list |-> Reads(p, "interactions", {})]

OpportunitiesController == LET p == "crm.opportunity.manage" IN
  [create      |-> Alters(p, {"opportunities"}),
   list        |-> Reads(p, "opportunities", {}),
   kanban      |-> Reads(p, "opportunities", {}),
   findOne     |-> Reads(p, "opportunities", {}),
   updateStage |-> Alters(p, {"opportunities"})]

RemindersController == LET p == "crm.reminder.manage" IN
  [generateOverdue |-> Alters(p, {"reminders"}),
   dispatch        |-> Alters(p, {"reminders"}),
   list            |-> Reads(p, "reminders", {})]

(***************************************************************************)
(* Users, roles and the signed-in user.                                    *)
(***************************************************************************)
UsersController ==
  LET p == "admin.user.manage"
      any == {"ACTIVE", "INACTIVE"} IN
  [create       |-> Alters(p, {"users"}),
   list         |-> Reads(p, "users", {}),
   activate     |-> Moves(p, "users", any, {"ACTIVE"}, {}),
   deactivate   |-> Moves(p, "users", any, {"INACTIVE"}, {}),
   requireMfa   |-> Alters(p, {"users"}),
   unrequireMfa |-> Alters(p, {"users"}),
   assignRole   |-> Alters(p, {"users"}),
   revokeRole   |-> Alters(p, {"users"})]

RolesController == LET p == "admin.role.manage" IN
  [list              |-> Reads(p, "roles", {}),
   listPermissions   |-> Reads(p, "permissions", {}),
   create            |-> Alters(p, {"roles"}),
   updatePermissions |-> Moves(p, "roles", {"CUSTOM"}, {"CUSTOM"}, {}),
   remove            |-> Moves(p, "roles", {"CUSTOM"}, {"REMOVED"}, {})]

AuthController ==
  [login             |-> Alters(Everyone, {"tokens"}),
   refresh           |-> Alters(Everyone, {"tokens"}),
   logout            |-> Alters(Anyone, {"tokens"}),
   me                |-> Reads(Anyone, "users", {"stores"}),
   updatePreferences |-> Alters(Anyone, {"users"}),
   changePassword    |-> Alters(Anyone, {"passwords", "tokens"}),
   verifyMfa         |-> Alters(Everyone, {"tokens"}),
   setupMfa          |-> Alters(Anyone, {"users"}),
   enableMfa         |-> Alters(Anyone, {"users"}),
   disableMfa        |-> Alters(Anyone, {"users"})]

NotificationsController ==
  [list        |-> Reads(Anyone, "notifications", {}),
   unreadCount |-> Reads(Anyone, "notifications", {}),
   markRead    |-> Alters(Anyone, {"notifications"}),
   markAllRead |-> Alters(Anyone, {"notifications"})]
=============================================================================
