------------------------------ MODULE OrderRow ------------------------------
(***************************************************************************)
(* The columns of the `orders` table that the workflow services read and   *)
(* write, the statuses of CAD design files, and, for every handler, what   *)
(* it does to the row it is given.  A handler's effect is an operator on   *)
(* a row, so that a module which runs handlers atomically and one which    *)
(* runs them on a stale snapshot can share it.                             *)
(*                                                                         *)
(* Dates are modelled by whether they are set: vpoIssuedAt, completedAt    *)
(* and awaitingApprovalSince are BOOLEAN here; likewise kiraSkuNumber (a   *)
(* SKU was stored) and quotedCost (a price above zero was stored).         *)
(* Reference images are files of the same table that every handler below   *)
(* filters out; they are not modelled.                                     *)
(***************************************************************************)
EXTENDS Naturals, FiniteSets

CONSTANTS
  Factories,      \* catalog keys of the factories
  SupplySources,  \* catalog keys of the stone suppliers
  None,           \* SQL NULL
  MaxFiles,       \* bound: design files of one order that exist at once
  Origins,        \* where orders come from, a subset of OriginKinds
  Mountings       \* which of mounting-only (TRUE) and stone orders (FALSE) are placed

OriginKinds == {"PORTAL", "RING_BUILDER", "IMPORT"}

ASSUME RowAssumption ==
  /\ MaxFiles \in Nat \ {0}
  /\ None \notin Factories \cup SupplySources
  /\ None \notin {"REVISION", "UPLOADED", "APPROVED", "CUSTOMER", "AUTO", "CANCEL"}
  /\ Origins \subseteq OriginKinds
  /\ Mountings \subseteq BOOLEAN

OrderStatus ==
  {"NEW", "CAD_IN_PROGRESS", "VPO_ISSUED", "MANUFACTURED", "SHIPPED",
   "REPAIR", "COMPLETED", "CANCELLED"}

\* None is in no enumeration, so a nullable status column is OrderStatus plus None.
ASSUME NoneIsNoStatus == None \notin OrderStatus

CadSubStatus == {None, "REVISION", "UPLOADED", "APPROVED"}

\* "ABSENT": no such row.  Files are numbered in the order of createdAt.
CadFileStatus ==
  {"ABSENT", "UPLOADED", "SENT_FOR_APPROVAL", "APPROVED", "REJECTED",
   "REVISION_REQUESTED"}

Files == 1..MaxFiles

ClosureReasons == {None, "CUSTOMER", "AUTO"}

Order ==
  [status                : OrderStatus,
   cadSubStatus          : CadSubStatus,
   sentToCustomer        : BOOLEAN,
   customerEmailApproval : BOOLEAN,
   isArchived            : BOOLEAN,
   closureReason         : ClosureReasons,
   stoneReceived         : BOOLEAN,
   assignedFactory       : Factories \cup {None},
   supplySource          : SupplySources \cup {None},
   kiraSkuNumber         : BOOLEAN,
   quotedCost            : BOOLEAN,
   vpoIssuedAt           : BOOLEAN,
   completedAt           : BOOLEAN,
   awaitingApprovalSince : BOOLEAN,
   mountingOnly          : BOOLEAN,
   source                : Origins]

AllowedTransitions ==
  [NEW             |-> {"CAD_IN_PROGRESS"},
   CAD_IN_PROGRESS |-> {"VPO_ISSUED"},
   VPO_ISSUED      |-> {"MANUFACTURED", "CAD_IN_PROGRESS"},
   MANUFACTURED    |-> {"COMPLETED", "REPAIR", "VPO_ISSUED"},
   REPAIR          |-> {"COMPLETED"},
   SHIPPED         |-> {"COMPLETED"},
   COMPLETED       |-> {},
   CANCELLED       |-> {}]

PreVpoStatuses == {"NEW", "CAD_IN_PROGRESS"}

NeedsStoneSupplier(r) == ~r.mountingOnly

-----------------------------------------------------------------------------
(* Rows that are inserted. *)

\* OrdersService.create, the public web form and the Ring Builder intake all
\* insert a NEW order; a price may come with it (Ring Builder sends one).
CreatedOrder(origin, quoted, mounting) ==
  [status |-> "NEW", cadSubStatus |-> None, sentToCustomer |-> FALSE,
   customerEmailApproval |-> FALSE, isArchived |-> FALSE, closureReason |-> None,
   stoneReceived |-> FALSE, assignedFactory |-> None, supplySource |-> None,
   kiraSkuNumber |-> FALSE, quotedCost |-> quoted, vpoIssuedAt |-> FALSE,
   completedAt |-> FALSE, awaitingApprovalSince |-> FALSE,
   mountingOnly |-> mounting, source |-> origin]

\* What the spreadsheet's free-text status and its price resolve to.
ResolveImportedStatus(quoted) ==
  {[status |-> s, cadSubStatus |-> None, sentToCustomer |-> FALSE] :
      s \in {"NEW", "VPO_ISSUED", "MANUFACTURED", "CANCELLED"}}
  \cup
  {[status |-> "CAD_IN_PROGRESS", cadSubStatus |-> "UPLOADED", sentToCustomer |-> quoted]}

\* An imported row: dates, factory and supplier are never filled in.
ImportedOrder(resolved, quoted, sku, approved, archived) ==
  [CreatedOrder("IMPORT", quoted, FALSE) EXCEPT
     !.status = resolved.status,
     !.cadSubStatus = resolved.cadSubStatus,
     !.sentToCustomer = resolved.sentToCustomer,
     !.kiraSkuNumber = sku,
     !.customerEmailApproval = approved,
     !.isArchived = archived]

-----------------------------------------------------------------------------
(* OrdersService.updateStatus *)

Cancelled(r) == [r EXCEPT !.status = "CANCELLED", !.isArchived = TRUE]

RevertedToVpo(r) == [r EXCEPT !.status = "VPO_ISSUED", !.vpoIssuedAt = TRUE]

\* Bug: the revert forgets the sub-stage.
RevertedWithoutSubStage(r) ==
  [r EXCEPT !.status = "CAD_IN_PROGRESS", !.sentToCustomer = FALSE,
            !.customerEmailApproval = FALSE, !.vpoIssuedAt = FALSE]

RevertedToCad(r) ==
  [r EXCEPT !.status = "CAD_IN_PROGRESS", !.cadSubStatus = None,
            !.sentToCustomer = FALSE, !.customerEmailApproval = FALSE,
            !.vpoIssuedAt = FALSE]

\* Staff issue the VPO: cadSubStatus and sentToCustomer stay as they are.
Issued(r) ==
  [r EXCEPT !.status = "VPO_ISSUED", !.quotedCost = TRUE, !.kiraSkuNumber = TRUE,
            !.vpoIssuedAt = TRUE]

Manufactured(r) == [r EXCEPT !.status = "MANUFACTURED"]

Completed(r) == [r EXCEPT !.status = "COMPLETED", !.completedAt = TRUE]

\* assignSupplier: a mounting-only order has no stone to supply.
Assigned(r, factory, source) ==
  [r EXCEPT !.assignedFactory = factory,
            !.supplySource = IF NeedsStoneSupplier(r) THEN source ELSE None]

(* OrdersService.update, the auto-send branch *)

AutoSends(r, file) ==
  /\ r.status = "CAD_IN_PROGRESS"
  /\ ~r.customerEmailApproval
  /\ ~r.sentToCustomer
  /\ \E f \in Files : file[f] \in {"UPLOADED", "SENT_FOR_APPROVAL"}

\* Bug: the 30-day clock is not started.
SentWithoutClock(r) == [r EXCEPT !.sentToCustomer = TRUE]

\* sendToCustomer and the auto-send branch write the same order columns.
Sent(r) == [r EXCEPT !.sentToCustomer = TRUE, !.awaitingApprovalSince = TRUE]

\* Every file in status `from` moves to status `to`.
Bumped(file, from, to) == [f \in Files |-> IF file[f] = from THEN to ELSE file[f]]

-----------------------------------------------------------------------------
(* Closing and reactivating a project *)

AwaitingApproval(r) == r.cadSubStatus = "UPLOADED" /\ r.sentToCustomer

Closed(r) == [r EXCEPT !.isArchived = TRUE, !.closureReason = "CUSTOMER"]

AutoArchived(r) == [r EXCEPT !.isArchived = TRUE, !.closureReason = "AUTO"]

\* closureReason is history and stays; the 30-day clock restarts after an
\* automatic archive.
Reopened(r) ==
  [r EXCEPT !.isArchived = FALSE,
            !.awaitingApprovalSince = (@ \/ r.closureReason = "AUTO")]

-----------------------------------------------------------------------------
(* CadService *)

\* Bug: the value the old CAD filter still looks for, which the enumeration lost.
SubStageWithPending ==
  [PENDING_CAD       |-> [cadSubStatus |-> "PENDING", sentToCustomer |-> FALSE,
                          fileStatus |-> "UPLOADED"]]

SubStage ==
  [PENDING_CAD       |-> [cadSubStatus |-> None, sentToCustomer |-> FALSE,
                          fileStatus |-> "UPLOADED"],
   AWAITING_QUOTE    |-> [cadSubStatus |-> "UPLOADED", sentToCustomer |-> FALSE,
                          fileStatus |-> "UPLOADED"],
   AWAITING_APPROVAL |-> [cadSubStatus |-> "UPLOADED", sentToCustomer |-> TRUE,
                          fileStatus |-> "SENT_FOR_APPROVAL"],
   REVISION          |-> [cadSubStatus |-> "REVISION", sentToCustomer |-> FALSE,
                          fileStatus |-> "REVISION_REQUESTED"]]

InSubStage(r, target) ==
  [r EXCEPT !.status = "CAD_IN_PROGRESS",
            !.cadSubStatus = target.cadSubStatus,
            !.sentToCustomer = target.sentToCustomer,
            !.customerEmailApproval = FALSE,
            !.awaitingApprovalSince = target.sentToCustomer,
            !.vpoIssuedAt = IF r.status = "VPO_ISSUED" THEN FALSE ELSE @]

\* Approval writes the flags first and issues the VPO afterwards.
ApprovalFlagged(r) == [r EXCEPT !.customerEmailApproval = TRUE, !.cadSubStatus = "APPROVED"]

ApprovalIssued(r) ==
  [ApprovalFlagged(r) EXCEPT !.status = "VPO_ISSUED", !.kiraSkuNumber = TRUE,
                             !.vpoIssuedAt = TRUE]

RevisionRequested(r) ==
  [r EXCEPT !.status = "CAD_IN_PROGRESS", !.customerEmailApproval = FALSE,
            !.cadSubStatus = "REVISION", !.sentToCustomer = FALSE]

\* The newest design file, the ground truth reconcileCadSubStages reads.
Latest(file) ==
  CHOOSE f \in Files : /\ file[f] # "ABSENT"
                       /\ \A g \in Files : g > f => file[g] = "ABSENT"

\* The sub-stage columns the files call for; the set is empty when the newest
\* file is approved or rejected, which the resync leaves alone.
SubStageOf(file) ==
  LET latest == IF \E f \in Files : file[f] # "ABSENT" THEN file[Latest(file)] ELSE "ABSENT"
      stage(c, s) == [cadSubStatus |-> c, sentToCustomer |-> s]
  IN  CASE latest = "ABSENT"             -> {stage(None, FALSE)}
        [] latest = "REVISION_REQUESTED" -> {stage("REVISION", FALSE)}
        [] latest = "SENT_FOR_APPROVAL"  -> {stage("UPLOADED", TRUE)}
        [] latest = "UPLOADED"           -> {stage("UPLOADED", FALSE)}
        [] OTHER                         -> {}

Resynced(r, target) ==
  [r EXCEPT !.cadSubStatus = target.cadSubStatus,
            !.sentToCustomer = target.sentToCustomer,
            !.awaitingApprovalSince = target.sentToCustomer]
=============================================================================
