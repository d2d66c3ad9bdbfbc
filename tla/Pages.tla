------------------------------- MODULE Pages -------------------------------
(***************************************************************************)
(* The pages of the back office.  A page has two definitions: what its     *)
(* code loads and does with the answers to its buttons, and what it shows: *)
(* which lists it can call empty, which buttons it offers on which rows,   *)
(* and which lists a form chooses from.                                    *)
(*                                                                         *)
(* A list starts Loading (null) or Empty ([]).  A load that fails is told, *)
(* hidden, or shown as an empty list; a button whose request fails tells,  *)
(* tells where the panel of a chosen row is open, reloads, or does nothing.*)
(***************************************************************************)
EXTENDS Integers, Routes

Loading == -1
Empty == 0

\* A list of rows, asked for when the page opens; a list a form chooses from, by name;
\* a part of the page beside its list; and, once n choices are made on the page: what is
\* shown of the chosen row, with its failure told or not, and what a form chooses from.
Load(level, route, starts, failure) ==
  [level |-> level, route |-> route, starts |-> starts, failure |-> failure, polled |-> FALSE,
   shows |-> {route.of} \cup route.with]
Table(route)    == Load(0, route, Loading, "told")
Options(route)   == [Load(0, route, Empty, "hidden") EXCEPT !.shows = {route.of}]
Panel(route)    == Load(0, route, Loading, "hidden")
Detail(n, route) == Load(n, route, Loading, "told")
Aside(n, route)  == Load(n, route, Loading, "hidden")
Pick(n, route)   == [Load(n, route, Empty, "emptied") EXCEPT !.shows = {route.of}]
Polled(load)     == [load EXCEPT !.polled = TRUE]   \* asked for again by a timer

\* What a button sends, and what the page does with the answer.
Sends(route, reloads, failure) ==
  [route |-> route, reloads |-> reloads, failure |-> failure, patches |-> {}, once |-> FALSE]
Tells(route, reloads) == Sends(route, reloads, "told")
Patches(route, lists) == [Tells(route, {}) EXCEPT !.patches = lists]   \* shows the answer itself
Once(send) == [send EXCEPT !.once = TRUE]   \* disabled while its request is in flight

\* Where a button is.
Form(needs) == [in |-> None, offers |-> {}, needs |-> needs, level |-> 0]
Row(in, offers) == [in |-> in, offers |-> offers, needs |-> {}, level |-> 0]
Of(n, button) == [button EXCEPT !.level = n]          \* shown once n choices are made
With(needs, button) == [button EXCEPT !.needs = needs]
View(none, buttons) == [none |-> none, path |-> <<>>, buttons |-> buttons]
Along(path, view) == [view EXCEPT !.path = path]      \* the lists a row is chosen from, in turn

(***************************************************************************)
(* Achats.                                                                 *)
(***************************************************************************)
AchatsQuotesPage == LET Q == SupplierQuotesController IN
  [loads |-> [quotes    |-> Table(Q.list),
              suppliers |-> Options(SuppliersController.list),
              products  |-> Options(CatalogController.listProducts)],
   acts  |-> [create |-> Tells(Q.create, {"quotes"})]]
AchatsQuotesView ==
  View({"quotes"}, [create |-> Form({"suppliers", "products"})])

AchatsOrdersPage == LET O == PurchaseOrdersController IN
  [loads |-> [orders     |-> Table(O.list),
              suppliers  |-> Options(SuppliersController.list),
              warehouses |-> Options(WarehousesController.list),
              products   |-> Options(CatalogController.listProducts)],
   acts  |-> [create |-> Tells(O.create, {"orders"}),
              send   |-> Tells(O.send, {"orders"}),
              cancel |-> Tells(O.cancel, {"orders"})]]
AchatsOrdersView == LET shownDraft == {"DRAFT", "HELD", "REFUSED"} IN
  View({"orders"}, [create |-> Form({"suppliers", "warehouses", "products"}),
                send   |-> Row("orders", shownDraft),
                cancel |-> Row("orders", shownDraft)])

AchatsReceiptsPage == LET R == GoodsReceiptsController IN
  [loads |-> [receipts |-> Table(R.list), orders |-> Options(PurchaseOrdersController.list)],
   acts  |-> [create   |-> Tells(R.create, {"receipts", "orders"}),
              validate |-> Tells(R.validate, {"receipts"})]]
AchatsReceiptsView ==
  View({"receipts"}, [create |-> Form({"orders"}), validate |-> Row("receipts", {"DRAFT"})])

AchatsReorderPage ==
  [loads |-> <<>>, acts |-> [run |-> Once(Tells(ReorderCheckController.run, {}))]]
AchatsReorderView == View({}, [run |-> Form({})])

(***************************************************************************)
(* Stock.                                                                  *)
(***************************************************************************)
StockProductsPage == LET C == CatalogController IN
  [loads |-> [products   |-> Table(C.listProducts),
              categories |-> Options(C.listCategories),
              brands     |-> Options(C.listBrands)],
   acts  |-> [create      |-> Tells(C.createProduct, {"products"}),
              addCategory |-> Sends(C.createCategory, {"categories"}, "reloads"),
              addBrand    |-> Sends(C.createBrand, {"brands"}, "reloads")]]
StockProductsView ==
  View({"products"}, [create |-> Form({}), addCategory |-> Form({}), addBrand |-> Form({})])

StockWarehousesPage == LET W == WarehousesController IN
  [loads |-> [warehouses |-> Table(W.list)], acts |-> [create |-> Tells(W.create, {"warehouses"})]]
StockWarehousesView == View({"warehouses"}, [create |-> Form({})])

\* "handled by list refresh", says the catch of a refused reception, and refreshes nothing.
StockTransfersPage == LET T == StockTransfersController IN
  [loads |-> [transfers  |-> Table(T.list),
              products   |-> Options(CatalogController.listProducts),
              warehouses |-> Options(WarehousesController.list)],
   acts  |-> [create  |-> Tells(T.create, {"transfers"}),
              receive |-> Sends(T.receive, {"transfers"}, "ignored")]]
StockTransfersView ==
  View({"transfers"}, [create  |-> Form({"products", "warehouses"}),
                receive |-> Row("transfers", {"IN_TRANSIT"})])

StockMovementsPage == LET M == StockMovementsController IN
  [loads |-> [levels     |-> Table(M.levels),
              movements  |-> Panel(M.movements),
              products   |-> Options(CatalogController.listProducts),
              warehouses |-> Options(WarehousesController.list)],
   acts  |-> [adjust |-> Tells(M.adjust, {"levels", "movements"})]]
StockMovementsView ==
  View({"levels", "movements"}, [adjust |-> Form({"products", "warehouses"})])

(***************************************************************************)
(* Logistique.                                                             *)
(***************************************************************************)
LogistiqueDeliveriesPage == LET D == DeliveriesController IN
  [loads |-> [deliveries |-> Table(D.list),
              zones      |-> Options(DeliveryZonesController.list),
              vehicles   |-> Options(VehiclesController.list),
              drivers    |-> Options(DriversController.list)],
   acts  |-> [create |-> Tells(D.create, {"deliveries"}),
              assign |-> Tells(D.assignDriver, {"deliveries"}),
              load   |-> Tells(D.updateStatus.LOADED, {"deliveries"}),
              depart |-> Tells(D.updateStatus.IN_TRANSIT, {"deliveries"}),
              fail   |-> Tells(D.updateStatus.FAILED, {"deliveries"}),
              cancel |-> Tells(D.updateStatus.CANCELLED, {"deliveries"})]]
LogistiqueDeliveriesView ==
  View({"deliveries"},
       [create |-> Form({}),
        assign |-> With({"drivers"}, Row("deliveries", {"PENDING"})),
        load   |-> Row("deliveries", {"PENDING"}),
        depart |-> Row("deliveries", {"LOADED"}),
        fail   |-> Row("deliveries", {"IN_TRANSIT"}),
        cancel |-> Row("deliveries", {"PENDING", "LOADED", "IN_TRANSIT"})])

LogistiqueVehiclesPage == LET V == VehiclesController IN
  [loads |-> [vehicles |-> Table(V.list)], acts |-> [create |-> Tells(V.create, {"vehicles"})]]
LogistiqueVehiclesView == View({"vehicles"}, [create |-> Form({})])

LogistiqueZonesPage == LET Z == DeliveryZonesController IN
  [loads |-> [zones |-> Table(Z.list)], acts |-> [create |-> Tells(Z.create, {"zones"})]]
LogistiqueZonesView == View({"zones"}, [create |-> Form({})])

LogistiqueSuiviPage ==
  [loads |-> [deliveries |-> Polled(Table(DeliveriesController.list))], acts |-> <<>>]
LogistiqueSuiviView == View({"deliveries"}, <<>>)

\* The driver's application: one list, each answer shown in it.
DeliveryDetail == LET D == DeliveriesController IN
  [markLoaded   |-> Once(Patches(D.updateStatus.LOADED, {"deliveries"})),
   startTransit |-> Once(Patches(D.updateStatus.IN_TRANSIT, {"deliveries"})),
   markFailed   |-> Once(Patches(D.updateStatus.FAILED, {"deliveries"})),
   deliver      |-> Patches(D.submitProofOfDelivery, {"deliveries"})]
TourneePage ==
  [loads |-> [deliveries |-> Table(DeliveriesController.listMine)], acts |-> DeliveryDetail]
DeliveryDetailView ==
  View({"deliveries"},
       [markLoaded   |-> Row("deliveries", {"PENDING"}),
        startTransit |-> Row("deliveries", {"LOADED"}),
        markFailed   |-> Row("deliveries", {"IN_TRANSIT"}),
        deliver      |-> Row("deliveries", {"IN_TRANSIT"})])

(***************************************************************************)
(* Comptabilite.  A choice of the reports is the report and the year; one  *)
(* of the bank page is the account, then a statement.                      *)
(***************************************************************************)
ComptabiliteReportsPage == LET R == ReportsController IN
  [loads |-> [fiscalYears     |-> Table(R.fiscalYears),
              trialBalance    |-> Table(R.trialBalance),
              incomeStatement |-> Detail(1, R.incomeStatement),
              balanceSheet    |-> Detail(1, R.balanceSheet)],
   acts  |-> <<>>]
ComptabiliteReportsView == Along(<<"fiscalYears">>, View({"fiscalYears"}, <<>>))

BanquePage == LET S == BankStatementsController IN
  [loads |-> [accounts   |-> Table(BankAccountsController.list),
              statements |-> Load(1, S.list, Loading, "emptied"),
              summary    |-> Aside(2, S.summary)],
   acts  |-> [createAccount |-> Tells(BankAccountsController.create, {"accounts"}),
              import        |-> Tells(S.import, {"statements"}),
              autoMatch     |-> Sends(S.autoMatch, {"statements", "summary"}, "reloads")]]
BanqueView ==
  Along(<<"accounts", "statements">>,
        View({"accounts", "statements"},
             [createAccount |-> Form({}),
              import        |-> Of(1, Form({})),
              autoMatch     |-> Of(2, Form({}))]))

FacturesPage == LET I == InvoicesController IN
  [loads |-> [invoices  |-> Table(I.list),
              customers |-> Options(CustomersController.list),
              suppliers |-> Options(SuppliersController.list)],
   acts  |-> [billCustomer |-> Once(Tells(I.create, {"invoices"})),
              billSupplier |-> Once(Tells(I.create, {"invoices"})),
              validate     |-> Tells(I.validate, {"invoices"})]]
FacturesView ==
  View({"invoices"},
       [billCustomer |-> Form({"customers"}),
        billSupplier |-> Form({"suppliers"}),
        validate     |-> Row("invoices", {"DRAFT"})])

EcrituresPage == LET J == JournalEntriesController IN
  [loads |-> [entries |-> Table(J.list), accounts |-> Options(AccountsController.list)],
   acts  |-> [create |-> Once(Tells(J.create, {"entries"}))]]
EcrituresView == View({"entries"}, [create |-> Form({"accounts"})])

(***************************************************************************)
(* Tresorerie.                                                             *)
(***************************************************************************)
TresorerieCashboxesPage == LET C == CashBoxesController IN
  [loads |-> [cashboxes |-> Table(C.list), movements |-> Detail(1, C.listMovements)],
   acts  |-> [create      |-> Tells(C.create, {"cashboxes"}),
              addMovement |-> Tells(C.addMovement, {"movements"}),
              post        |-> Tells(C.postApprovedMovement, {"movements"})]]
TresorerieCashboxesView ==
  Along(<<"cashboxes">>,
        View({"cashboxes", "movements"},
             [create      |-> Form({}),
              addMovement |-> Of(1, Form({})),
              post        |-> Row("movements", {"OPEN", "HELD"})]))

TresorerieTransfersPage == LET T == CashTransfersController IN
  [loads |-> [transfers    |-> Table(T.list),
              registers    |-> Options(RegistersController.list),
              cashboxes    |-> Options(CashBoxesController.list),
              bankAccounts |-> Options(BankAccountsController.list)],
   acts  |-> [create   |-> Tells(T.create, {"transfers"}),
              complete |-> Tells(T.complete, {"transfers"}),
              cancel   |-> Tells(T.cancel, {"transfers"})]]
TresorerieTransfersView ==
  View({"transfers"},
       [create   |-> Form({"cashboxes"}),
        complete |-> Row("transfers", {"PENDING"}),
        cancel   |-> Row("transfers", {"PENDING"})])

(***************************************************************************)
(* Credit.  The messages of the buttons are in the panel of the chosen     *)
(* customer.                                                               *)
(***************************************************************************)
CreditCustomersPage == LET C == CreditControlController IN
  [loads |-> [customers |-> Table(CustomersController.list), outstanding |-> Detail(1, C.getOutstanding)],
   acts  |-> [block   |-> Tells(C.block, {"customers", "outstanding"}),
              unblock |-> Tells(C.unblock, {"customers", "outstanding"}),
              check   |-> Once(Sends(C.runOverdueCheck, {"customers"}, "told if chosen"))]]
CreditCustomersView ==
  Along(<<"customers">>,
        View({"customers"},
             [block   |-> Of(1, Row("customers", {"ACTIVE"})),
              unblock |-> Of(1, Row("customers", {"BLOCKED"})),
              check   |-> Form({})]))

CreditInstallmentsPage == LET C == CreditControlController IN
  [loads |-> [customers    |-> Options(CustomersController.list),
              invoices     |-> Pick(1, InvoicesController.list),
              installments |-> Detail(2, C.listInstallments)],
   acts  |-> [generate |-> Tells(C.generateInstallments, {"installments"}),
              pay      |-> Tells(C.markInstallmentPaid, {"installments"})]]
CreditInstallmentsView ==
  Along(<<"customers", "invoices">>,
        View({"installments"},
             [generate |-> Of(2, Form({})),
              pay      |-> Row("installments", {"PENDING", "OVERDUE"})]))

(***************************************************************************)
(* Actifs, documents, approvals.                                           *)
(***************************************************************************)
ActifsPage == LET A == FixedAssetsController IN
  [loads |-> [assets |-> Table(A.list), warehouses |-> Options(WarehousesController.list)],
   acts  |-> [create  |-> Tells(A.create, {"assets"}),
              dispose |-> Tells(A.dispose, {"assets"}),
              run     |-> Once(Sends(A.runDepreciation, {"assets"}, "told if chosen"))]]
ActifsView ==
  Along(<<"assets">>,
        View({"assets"}, [create  |-> Form({}),
                          dispose |-> Of(1, Row("assets", {"IN_SERVICE"})),
                          run     |-> Form({})]))

\* The page as it is for one type of what documents are attached to, its items from that
\* type's list.
DocumentsPage(items) == LET D == DocumentsController IN
  [loads |-> [items |-> Pick(0, items), docs |-> Detail(1, D.listFor)],
   acts  |-> [attach |-> Tells(D.attach, {"docs"}), delete |-> Tells(D.remove, {"docs"})]]
DocumentsView ==
  Along(<<"items">>,
        View({"docs"}, [attach |-> Of(1, Form({})), delete |-> Row("docs", {"ATTACHED"})]))

ApprovalsPage == LET A == ApprovalsController IN
  [loads |-> [rules    |-> Table(A.listRules),
              roles    |-> Options(RolesController.list),
              requests |-> Table(A.listRequests)],
   acts  |-> [createRule |-> Tells(A.createRule, {"rules"}),
              deleteRule |-> Tells(A.deleteRule, {"rules"}),
              decide     |-> Tells(A.decide, {"requests"})]]
ApprovalsView ==
  View({"rules", "requests"},
       [createRule |-> Form({"roles"}),
        deleteRule |-> Row("rules", {}),
        decide     |-> Row("requests", {"PENDING"})])

(***************************************************************************)
(* Paie and RH.                                                            *)
(***************************************************************************)
PaiePage == LET R == PayrollRunsController IN
  [loads |-> [runs |-> Table(R.list), bankAccounts |-> Options(BankAccountsController.list)],
   acts  |-> [create   |-> Once(Tells(R.create, {"runs"})),
              validate |-> Tells(R.validate, {"runs"}),
              transfer |-> Tells(BankTransferController.generate, {}),
              pdf      |-> Sends(PayslipsController.getPdf, {}, "ignored")]]
PaieView ==
  Along(<<"runs">>,
        View({"runs"}, [create   |-> Form({}),
                        validate |-> Of(1, Row("runs", {"DRAFT"})),
                        transfer |-> Of(1, Row("runs", {"VALIDATED", "PAID"})),
                        pdf      |-> Of(1, Row("runs", {}))]))

RhEmployeesPage == LET E == EmployeesController IN
  [loads |-> [employees   |-> Table(E.list),
              departments |-> Options(DepartmentsController.list),
              positions   |-> Options(PositionsController.list)],
   acts  |-> [create        |-> Tells(E.create, {"employees"}),
              terminate     |-> Tells(E.terminate, {"employees"}),
              addDepartment |-> Sends(DepartmentsController.create, {"departments"}, "reloads"),
              addPosition   |-> Sends(PositionsController.create, {"positions"}, "reloads")]]
RhEmployeesView ==
  View({"employees"},
       [create    |-> Form({}), terminate |-> Row("employees", {"ACTIVE"}),
        addDepartment |-> Form({}), addPosition |-> Form({})])

CongesPage == LET L == LeaveRequestsController IN
  [loads |-> [employees  |-> Options(EmployeesController.list),
              leaveTypes |-> Options(LeaveTypesController.list),
              pending    |-> Table(L.listPending)],
   acts  |-> [addType    |-> Sends(LeaveTypesController.create, {"leaveTypes"}, "reloads"),
              request    |-> Tells(L.create, {"pending"}),
              approve    |-> Tells(L.approve, {"pending"}),
              reject     |-> Tells(L.reject, {"pending"}),
              attendance |-> Tells(AttendanceController.record, {})]]
CongesView ==
  View({"pending"},
       [addType    |-> Form({}),
        request    |-> Form({"employees", "leaveTypes"}),
        approve    |-> Row("pending", {"PENDING"}),
        reject     |-> Row("pending", {"PENDING"}),
        attendance |-> Form({"employees"})])

(***************************************************************************)
(* CRM.                                                                    *)
(***************************************************************************)
CrmCustomersPage == LET C == CustomersController IN
  [loads |-> [customers    |-> Table(C.list),
              analytics    |-> Aside(1, C.analytics),
              interactions |-> Aside(1, InteractionsController.list)],
   acts  |-> [create         |-> Tells(C.create, {"customers"}),
              addInteraction |-> Sends(InteractionsController.create, {"interactions"}, "reloads")]]
CrmCustomersView ==
  Along(<<"customers">>,
        View({"customers"}, [create |-> Form({}), addInteraction |-> Of(1, Form({}))]))

PipelinePage == LET O == OpportunitiesController IN
  [loads |-> [board |-> Table(O.kanban), customers |-> Options(CustomersController.list)],
   acts  |-> [create |-> Tells(O.create, {"board"}), move |-> Sends(O.updateStage, {"board"}, "reloads")]]
PipelineView == View({}, [create |-> Form({}), move |-> Row("board", {})])

RelancesPage == LET R == RemindersController IN
  [loads |-> [reminders |-> Table(R.list)],
   acts  |-> [generate |-> Tells(R.generateOverdue, {"reminders"}),
              dispatch |-> Tells(R.dispatch, {"reminders"})]]
RelancesView == View({"reminders"}, [generate |-> Form({}), dispatch |-> Form({})])

(***************************************************************************)
(* Admin, the user's own page, and what is on every page.                  *)
(***************************************************************************)
AdminUsersPage == LET U == UsersController IN
  [loads |-> [users  |-> Table(U.list),
              roles  |-> Options(RolesController.list),
              stores |-> Options([AuthController.me EXCEPT !.of = "stores"])],
   acts  |-> [create     |-> Tells(U.create, {"users"}),
              activate   |-> Tells(U.activate, {"users"}),
              deactivate |-> Tells(U.deactivate, {"users"}),
              requireMfa |-> Tells(U.requireMfa, {"users"}),
              assign     |-> Tells(U.assignRole, {"users"}),
              revoke     |-> Tells(U.revokeRole, {"users"})]]
AdminUsersView ==
  View({"users"},
       [create     |-> Form({"roles"}),
        activate   |-> Row("users", {"INACTIVE"}),
        deactivate |-> Row("users", {"ACTIVE"}),
        requireMfa |-> Row("users", {}),
        assign     |-> With({"roles"}, Row("users", {})),
        revoke     |-> Row("users", {})])

\* The message of a refused removal is in the panel of the chosen role, its button is not.
AdminRolesPage == LET R == RolesController IN
  [loads |-> [roles |-> Table(R.list), permissions |-> Options(R.listPermissions)],
   acts  |-> [create |-> Tells(R.create, {"roles"}),
              save   |-> Tells(R.updatePermissions, {"roles"}),
              delete |-> Sends(R.remove, {"roles"}, "told if chosen")]]
AdminRolesView ==
  Along(<<"roles">>,
        View({"roles"}, [create |-> Form({"permissions"}),
                         save   |-> Of(1, Row("roles", {"CUSTOM"})),
                         delete |-> Row("roles", {"CUSTOM"})]))

ProfilPage ==
  [loads |-> [user |-> Panel(AuthController.me)],
   acts  |-> [changePassword |-> Once(Tells(AuthController.changePassword, {}))]]
ProfilView == View({}, [changePassword |-> Form({})])

DashboardPage ==
  [loads |-> [analytics |-> Polled(Table(CrmAnalyticsController.get)),
              approvals |-> Polled(Table(ApprovalsController.listRequests))],
   acts  |-> <<>>]
DashboardView == View({"analytics", "approvals"}, <<>>)

NotificationBell == LET N == NotificationsController IN
  [loads |-> [notifications |-> Load(1, N.list, Empty, "hidden"),
              unread        |-> Polled(Load(0, N.unreadCount, Empty, "hidden"))],
   acts  |-> [markRead    |-> [Sends(N.markRead, {"unread"}, "reloads") EXCEPT !.patches = {"notifications"}],
              markAllRead |-> [Sends(N.markAllRead, {}, "ignored")
                                 EXCEPT !.patches = {"notifications", "unread"}]]]
NotificationBellView ==
  Along(<<"unread">>,
        View({"notifications"}, [markRead |-> Row("notifications", {}), markAllRead |-> Of(1, Form({}))]))

(***************************************************************************)
(* Every page, with the permission its work needs.                         *)
(***************************************************************************)
Page(needs, does, shows) == [needs |-> needs, does |-> does, shows |-> shows]

AllPages == [
  achats        |-> Page("supplychain.quote.manage", AchatsQuotesPage, AchatsQuotesView),
  commandes     |-> Page("supplychain.purchaseorder.manage", AchatsOrdersPage, AchatsOrdersView),
  receptions    |-> Page("supplychain.receipt.manage", AchatsReceiptsPage, AchatsReceiptsView),
  reappro       |-> Page("supplychain.purchaseorder.manage", AchatsReorderPage, AchatsReorderView),
  stock         |-> Page("stock.product.manage", StockProductsPage, StockProductsView),
  depots        |-> Page("stock.warehouse.manage", StockWarehousesPage, StockWarehousesView),
  stockMoves    |-> Page("stock.product.manage", StockMovementsPage, StockMovementsView),
  stockTransfer |-> Page("stock.transfer.manage", StockTransfersPage, StockTransfersView),
  logistique    |-> Page("logistics.delivery.manage", LogistiqueDeliveriesPage, LogistiqueDeliveriesView),
  vehicules     |-> Page("logistics.delivery.manage", LogistiqueVehiclesPage, LogistiqueVehiclesView),
  zones         |-> Page("logistics.delivery.manage", LogistiqueZonesPage, LogistiqueZonesView),
  suivi         |-> Page("logistics.delivery.manage", LogistiqueSuiviPage, LogistiqueSuiviView),
  tournee       |-> Page("logistics.delivery.drive", TourneePage, DeliveryDetailView),
  comptabilite  |-> Page("accounting.report.read", ComptabiliteReportsPage, ComptabiliteReportsView),
  banque        |-> Page("accounting.bank.reconcile", BanquePage, BanqueView),
  factures      |-> Page("accounting.invoice.manage", FacturesPage, FacturesView),
  ecritures     |-> Page("accounting.journal.write", EcrituresPage, EcrituresView),
  tresorerie    |-> Page("treasury.cashbox.manage", TresorerieCashboxesPage, TresorerieCashboxesView),
  cashTransfers |-> Page("treasury.transfer.manage", TresorerieTransfersPage, TresorerieTransfersView),
  credit        |-> Page("credit.customer.block", CreditCustomersPage, CreditCustomersView),
  echeanciers   |-> Page("credit.installment.manage", CreditInstallmentsPage, CreditInstallmentsView),
  actifs        |-> Page("assets.fixedasset.manage", ActifsPage, ActifsView),
  docEntries    |-> Page("ged.document.manage", DocumentsPage(JournalEntriesController.list), DocumentsView),
  docInvoices   |-> Page("ged.document.manage", DocumentsPage(InvoicesController.list), DocumentsView),
  docEmployees  |-> Page("ged.document.manage", DocumentsPage(EmployeesController.list), DocumentsView),
  docAssets     |-> Page("ged.document.manage", DocumentsPage(FixedAssetsController.list), DocumentsView),
  docOrders     |-> Page("ged.document.manage", DocumentsPage(PurchaseOrdersController.list), DocumentsView),
  approbations  |-> Page("ged.approval.manage", ApprovalsPage, ApprovalsView),
  paie          |-> Page("hr.payroll.manage", PaiePage, PaieView),
  rh            |-> Page("hr.employee.manage", RhEmployeesPage, RhEmployeesView),
  conges        |-> Page("hr.leave.approve", CongesPage, CongesView),
  crm           |-> Page("crm.customer.manage", CrmCustomersPage, CrmCustomersView),
  pipeline      |-> Page("crm.opportunity.manage", PipelinePage, PipelineView),
  relances      |-> Page("crm.reminder.manage", RelancesPage, RelancesView),
  admin         |-> Page("admin.user.manage", AdminUsersPage, AdminUsersView),
  roles         |-> Page("admin.role.manage", AdminRolesPage, AdminRolesView),
  profil        |-> Page(Anyone, ProfilPage, ProfilView),
  dashboard     |-> Page(Anyone, DashboardPage, DashboardView),
  bell          |-> Page(Anyone, NotificationBell, NotificationBellView)]
=============================================================================
