-------------------------------- MODULE Roles --------------------------------
(***************************************************************************)
(* The permission catalogue and the roles every company starts with.  A    *)
(* code is named as the source names it; its module is its prefix, so the  *)
(* source's byPrefix("pos.") is Codes["pos"].                              *)
(***************************************************************************)
EXTENDS FiniteSets

Codes == [
  pos         |-> {"pos.product.read", "pos.cart.manage", "pos.sale.create", "pos.sale.read",
                   "pos.cashsession.manage", "pos.print.ticket", "pos.price.override"},
  stock       |-> {"stock.product.manage", "stock.warehouse.manage", "stock.transfer.manage",
                   "stock.movement.read"},
  accounting  |-> {"accounting.journal.read", "accounting.journal.write",
                   "accounting.invoice.manage", "accounting.report.read",
                   "accounting.bank.reconcile"},
  hr          |-> {"hr.employee.manage", "hr.attendance.manage", "hr.leave.approve",
                   "hr.payroll.manage"},
  crm         |-> {"crm.customer.manage", "crm.opportunity.manage", "crm.reminder.manage"},
  admin       |-> {"admin.user.manage", "admin.role.manage", "admin.company.manage",
                   "admin.audit.read"},
  supplychain |-> {"supplychain.quote.manage", "supplychain.purchaseorder.manage",
                   "supplychain.receipt.manage"},
  logistics   |-> {"logistics.delivery.manage", "logistics.delivery.drive"},
  treasury    |-> {"treasury.cashbox.manage", "treasury.transfer.manage",
                   "treasury.session.close"},
  credit      |-> {"credit.installment.manage", "credit.customer.block"},
  assets      |-> {"assets.fixedasset.manage", "assets.depreciation.run"},
  ged         |-> {"ged.document.manage", "ged.approval.manage"}]

AllCodes == UNION {Codes[m] : m \in DOMAIN Codes}

DefaultRoles == [
  Administrateur |-> AllCodes,
  Caissier       |-> (Codes.pos \ {"pos.price.override"}) \cup {"treasury.session.close"},
  Gestionnaire   |-> Codes.stock \cup Codes.supplychain
                     \cup {"pos.product.read", "logistics.delivery.manage"},
  Comptable      |-> Codes.accounting \cup Codes.treasury \cup Codes.credit \cup Codes.assets
                     \cup Codes.ged \cup {"pos.sale.read", "stock.movement.read"},
  DRH            |-> Codes.hr,
  Livreur        |-> {"logistics.delivery.drive"}]

\* What a user's roles grant, all together.
EffectivePermissions(roles) == UNION {DefaultRoles[r] : r \in roles}
=============================================================================
