--------------------------- MODULE OrderLifecycle ---------------------------
(***************************************************************************)
(* One custom-jewelry order, its CAD design files and every handler of the *)
(* backend that moves them: OrdersService, CadService, the public tracking *)
(* page, ManufacturingService, RepairsService and the spreadsheet import.  *)
(* A handler is one step here (module OrderRow says what each writes); the *)
(* handlers interleave in any order the actors may call them in.           *)
(***************************************************************************)
EXTENDS OrderRow

VARIABLES
  ord,            \* the row of `orders`
  file,           \* the status of each of its design files
  lastCancelFrom, \* fromStatus of the newest logged cancellation, what reactivateOrder looks up
  before,         \* history: the status the order really had when it was last cancelled
  customerClosed  \* history: archived in place by the customer, not reopened since

handled == <<ord, file, lastCancelFrom>>
vars == <<ord, file, lastCancelFrom, before, customerClosed>>

TypeOK ==
  /\ ord \in Order
  /\ file \in [Files -> CadFileStatus]
  /\ lastCancelFrom \in OrderStatus \cup {None}
  /\ before \in OrderStatus \cup {None}
  /\ customerClosed \in BOOLEAN

InitialOrders ==
  {CreatedOrder(o, q, m) : o \in Origins \ {"IMPORT"}, q \in BOOLEAN, m \in Mountings}
  \cup
  IF "IMPORT" \notin Origins THEN {} ELSE
    UNION {{ImportedOrder(r, q, sku, approved, archived) :
              r \in ResolveImportedStatus(q), sku, approved, archived \in BOOLEAN} :
           q \in BOOLEAN}

Init ==
  /\ ord \in InitialOrders
  /\ file = [f \in Files |-> "ABSENT"]
  /\ lastCancelFrom = None
  /\ before = None
  /\ customerClosed = FALSE

Exists(f) == file[f] # "ABSENT"

\* Bug: a second cancellation is looked up too.
LogEveryCancellation(from) == lastCancelFrom' = from

\* STATUS_CHANGE events that log a move to CANCELLED; one that logs
\* CANCELLED -> CANCELLED is skipped by the lookup.
LogCancellation(from) ==
  lastCancelFrom' = IF from = "CANCELLED" THEN lastCancelFrom ELSE from

-----------------------------------------------------------------------------
(* OrdersService *)

\* Bug: no table, any next status will do.
AnyTransition(to) == to # ord.status

Transition(to) == to \in AllowedTransitions[ord.status]

\* A write of a price through update() sends the uploaded designs with it.
WithAutoSend(r) ==
  IF AutoSends(r, file)
  THEN /\ ord' = Sent(r)
       /\ file' = Bumped(file, "UPLOADED", "SENT_FOR_APPROVAL")
  ELSE /\ ord' = r
       /\ UNCHANGED file

\* NEW -> CAD_IN_PROGRESS, with or without a price.
StartCad(priced) ==
  LET r == [ord EXCEPT !.status = "CAD_IN_PROGRESS", !.quotedCost = @ \/ priced]
  IN  /\ Transition("CAD_IN_PROGRESS") /\ ord.status = "NEW"
      /\ IF priced THEN WithAutoSend(r) ELSE ord' = r /\ UNCHANGED file
      /\ UNCHANGED lastCancelFrom

\* PUT /orders/:id with a new price.
SaveQuote ==
  /\ WithAutoSend([ord EXCEPT !.quotedCost = TRUE])
  /\ UNCHANGED lastCancelFrom

\* CAD_IN_PROGRESS -> VPO_ISSUED by staff.  An unrecognised customer number
\* fails in update(), after the SKU and the files were written.
IssueVpo(priced, codeKnown) ==
  /\ Transition("VPO_ISSUED") /\ ord.status # "MANUFACTURED"
  /\ ord.quotedCost \/ priced
  /\ file' = Bumped(file, "SENT_FOR_APPROVAL", "APPROVED")
  /\ ord' = IF codeKnown THEN Issued(ord) ELSE [ord EXCEPT !.kiraSkuNumber = TRUE]
  /\ UNCHANGED lastCancelFrom

\* Admin: MANUFACTURED -> VPO_ISSUED.
RevertToVpo ==
  /\ Transition("VPO_ISSUED") /\ ord.status = "MANUFACTURED"
  /\ ord' = RevertedToVpo(ord)
  /\ UNCHANGED <<file, lastCancelFrom>>

\* Admin: VPO_ISSUED -> CAD_IN_PROGRESS.
RevertToCad ==
  /\ Transition("CAD_IN_PROGRESS") /\ ord.status = "VPO_ISSUED"
  /\ ord' = RevertedToCad(ord)
  /\ UNCHANGED <<file, lastCancelFrom>>

SendToRepair ==
  /\ Transition("REPAIR")
  /\ ord' = [ord EXCEPT !.status = "REPAIR"]
  /\ UNCHANGED <<file, lastCancelFrom>>

\* Through the status endpoint; "FACTORY" is a Factory Manager of the assigned factory.
MarkManufactured(role) ==
  /\ Transition("MANUFACTURED")
  /\ ord.assignedFactory # None
  /\ NeedsStoneSupplier(ord) => ord.supplySource # None
  /\ NeedsStoneSupplier(ord) /\ role = "FACTORY" => ord.stoneReceived
  /\ ord' = Manufactured(ord)
  /\ UNCHANGED <<file, lastCancelFrom>>

CompleteOrder ==
  /\ Transition("COMPLETED")
  /\ ord' = Completed(ord)
  /\ UNCHANGED <<file, lastCancelFrom>>

\* Admin may complete a Ring Builder order from any status.
RingBuilderComplete ==
  /\ ord.source = "RING_BUILDER"
  /\ ord' = Completed(ord)
  /\ UNCHANGED <<file, lastCancelFrom>>

Cancel ==
  /\ ord.status # "CANCELLED"
  /\ ord' = Cancelled(ord)
  /\ LogCancellation(ord.status)
  /\ UNCHANGED file

\* Bug: the order need not be cancelled.
ReactivateAnyOrder ==
  /\ ord' = [ord EXCEPT !.status = IF lastCancelFrom = None THEN "NEW" ELSE lastCancelFrom,
                        !.isArchived = FALSE]
  /\ UNCHANGED <<file, lastCancelFrom>>

ReactivateOrder ==
  /\ ord.status = "CANCELLED"
  /\ ord' = [ord EXCEPT !.status = IF lastCancelFrom = None THEN "NEW" ELSE lastCancelFrom,
                        !.isArchived = FALSE]
  /\ UNCHANGED <<file, lastCancelFrom>>

CloseProject ==
  /\ ~ord.isArchived
  /\ AwaitingApproval(ord)
  /\ ord' = Closed(ord)
  /\ UNCHANGED <<file, lastCancelFrom>>

ReactivateClosedProject ==
  /\ ord.isArchived /\ ord.status # "CANCELLED"
  /\ ord' = Reopened(ord)
  /\ UNCHANGED <<file, lastCancelFrom>>

\* The customer's own reactivation.
ReactivateAutoArchived ==
  /\ ord.isArchived /\ ord.closureReason = "AUTO"
  /\ ord' = Reopened(ord)
  /\ UNCHANGED <<file, lastCancelFrom>>

\* Bug: archived orders are swept again.
AutoArchiveAgain ==
  /\ AwaitingApproval(ord) /\ ord.awaitingApprovalSince
  /\ ord' = AutoArchived(ord)
  /\ UNCHANGED <<file, lastCancelFrom>>

\* The nightly job, on an order whose clock started 30 days ago.
AutoArchive ==
  /\ AwaitingApproval(ord) /\ ~ord.isArchived /\ ord.awaitingApprovalSince
  /\ ord' = AutoArchived(ord)
  /\ UNCHANGED <<file, lastCancelFrom>>

AssignSupplier(factory, source) ==
  /\ ord.status = "VPO_ISSUED"
  /\ ord' = Assigned(ord, factory, source)
  /\ UNCHANGED <<file, lastCancelFrom>>

\* Admin edits either field in place; the page offers it after CAD only.
EditSupplier ==
  /\ ord.status \notin PreVpoStatuses
  /\ \/ \E factory \in Factories : ord' = [ord EXCEPT !.assignedFactory = factory]
     \/ \E source \in SupplySources : ord' = [ord EXCEPT !.supplySource = source]
  /\ UNCHANGED <<file, lastCancelFrom>>

\* onModuleInit, at every boot of the server.
StartupCleanup ==
  /\ ord.assignedFactory = None /\ ord.supplySource # None
  /\ ord' = [ord EXCEPT !.supplySource = None]
  /\ UNCHANGED <<file, lastCancelFrom>>

BackfillStuckCadApprovals ==
  /\ ord.status \in {"VPO_ISSUED", "MANUFACTURED", "SHIPPED", "COMPLETED"}
  /\ file' = Bumped(file, "SENT_FOR_APPROVAL", "APPROVED")
  /\ UNCHANGED <<ord, lastCancelFrom>>

-----------------------------------------------------------------------------
(* CadService *)

\* One request uploads n designs, then notifyBatchUploaded moves the order.
UploadBatch(n) ==
  LET newest == IF \E f \in Files : Exists(f) THEN Latest(file) ELSE 0
  IN  /\ newest + n \in Files
      /\ file' = [f \in Files |-> IF f \in newest+1 .. newest+n THEN "UPLOADED" ELSE file[f]]
      /\ ord' = IF ord.status \in PreVpoStatuses
                THEN [ord EXCEPT !.cadSubStatus = "UPLOADED"] ELSE ord
      /\ UNCHANGED lastCancelFrom

SendToCustomer ==
  /\ ord' = Sent(ord)
  /\ file' = Bumped(file, "UPLOADED", "SENT_FOR_APPROVAL")
  /\ UNCHANGED lastCancelFrom

SetSubStage(name) ==
  /\ ord.status \in {"CAD_IN_PROGRESS", "VPO_ISSUED"}
  /\ ord' = InSubStage(ord, SubStage[name])
  /\ file' = [f \in Files |-> IF Exists(f) THEN SubStage[name].fileStatus ELSE "ABSENT"]
  /\ UNCHANGED lastCancelFrom

Reconcile ==
  /\ ord.status = "CAD_IN_PROGRESS"
  /\ \E target \in SubStageOf(file) :
       /\ target # [cadSubStatus |-> ord.cadSubStatus, sentToCustomer |-> ord.sentToCustomer]
       /\ ord' = Resynced(ord, target)
  /\ UNCHANGED <<file, lastCancelFrom>>

\* Bug: without the PRE_VPO_STATUSES check.
SendForApprovalAnytime(f) ==
  /\ Exists(f)
  /\ file' = [file EXCEPT ![f] = "SENT_FOR_APPROVAL"]
  /\ ord' = [ord EXCEPT !.status = "CAD_IN_PROGRESS", !.cadSubStatus = "UPLOADED"]
  /\ UNCHANGED lastCancelFrom

SendForApproval(f) ==
  /\ Exists(f)
  /\ file' = [file EXCEPT ![f] = "SENT_FOR_APPROVAL"]
  /\ ord' = IF ord.status \in PreVpoStatuses
            THEN [ord EXCEPT !.status = "CAD_IN_PROGRESS", !.cadSubStatus = "UPLOADED"]
            ELSE ord
  /\ UNCHANGED lastCancelFrom

\* No status is checked.  When the SKU cannot be generated the request fails
\* with the approval flags already written.
Approve(f, skuOk) ==
  /\ Exists(f)
  /\ file' = [file EXCEPT ![f] = "APPROVED"]
  /\ ord' = IF ord.kiraSkuNumber \/ skuOk THEN ApprovalIssued(ord) ELSE ApprovalFlagged(ord)
  /\ UNCHANGED lastCancelFrom

Reject(f) ==
  /\ Exists(f)
  /\ file' = [file EXCEPT ![f] = "REJECTED"]
  /\ ord' = Cancelled(ord)
  /\ LogCancellation(ord.status)

RequestRevision(f) ==
  /\ Exists(f)
  /\ file' = [file EXCEPT ![f] = "REVISION_REQUESTED"]
  /\ ord' = RevisionRequested(ord)
  /\ UNCHANGED lastCancelFrom

DeleteFile(f) ==
  /\ Exists(f)
  /\ file' = [file EXCEPT ![f] = "ABSENT"]
  /\ UNCHANGED <<ord, lastCancelFrom>>

-----------------------------------------------------------------------------
(* PublicOrdersService: the tracking page *)

PublicApprove(f) ==
  /\ Exists(f)
  /\ file' = [file EXCEPT ![f] = "APPROVED"]
  /\ ord' = [ord EXCEPT !.customerEmailApproval = TRUE]
  /\ UNCHANGED lastCancelFrom

PublicReject(f) ==
  /\ Exists(f)
  /\ file' = [file EXCEPT ![f] = "REVISION_REQUESTED"]
  /\ UNCHANGED <<ord, lastCancelFrom>>

-----------------------------------------------------------------------------
(* ManufacturingService and RepairsService *)

MarkStoneSent ==
  /\ ord.status = "VPO_ISSUED" /\ ~ord.stoneReceived
  /\ ord' = [ord EXCEPT !.stoneReceived = TRUE]
  /\ UNCHANGED <<file, lastCancelFrom>>

\* A Factory Manager needs the order to be assigned to its own factory.
CompleteManufacturing(role) ==
  /\ role = "FACTORY" => ord.assignedFactory # None
  /\ ord.status = "VPO_ISSUED" /\ ord.stoneReceived
  /\ ord' = Manufactured(ord)
  /\ UNCHANGED <<file, lastCancelFrom>>

\* completedAt is not written on this path.
CompleteRepair ==
  /\ ord.status = "REPAIR"
  /\ ord' = [ord EXCEPT !.status = "COMPLETED"]
  /\ UNCHANGED <<file, lastCancelFrom>>

-----------------------------------------------------------------------------
(* The steps of each service, and the history variables they drive *)

Roles == {"STAFF", "FACTORY"}

StageStep ==
  \/ \E priced \in BOOLEAN : StartCad(priced)
  \/ SaveQuote
  \/ \E priced, codeKnown \in BOOLEAN : IssueVpo(priced, codeKnown)
  \/ RevertToVpo
  \/ RevertToCad
  \/ SendToRepair
  \/ \E role \in Roles : MarkManufactured(role)
  \/ CompleteOrder
  \/ RingBuilderComplete

ClosureStep ==
  \/ Cancel
  \/ ReactivateOrder
  \/ CloseProject
  \/ ReactivateClosedProject
  \/ ReactivateAutoArchived
  \/ AutoArchive

RoutingStep ==
  \/ \E f \in Factories, s \in SupplySources : AssignSupplier(f, s)
  \/ EditSupplier
  \/ StartupCleanup
  \/ BackfillStuckCadApprovals
  \/ MarkStoneSent
  \/ \E role \in Roles : CompleteManufacturing(role)
  \/ CompleteRepair

CadStep ==
  \/ \E n \in Files : UploadBatch(n)
  \/ SendToCustomer
  \/ \E name \in DOMAIN SubStage : SetSubStage(name)
  \/ Reconcile
  \/ \E f \in Files :
       \/ SendForApproval(f)
       \/ \E skuOk \in BOOLEAN : Approve(f, skuOk)
       \/ Reject(f)
       \/ RequestRevision(f)
       \/ DeleteFile(f)
       \/ PublicApprove(f)
       \/ PublicReject(f)

\* History variables look at the rows only, never at which handler ran.
Observe ==
  /\ before' = IF ord.status # "CANCELLED" /\ ord'.status = "CANCELLED"
               THEN ord.status ELSE before
  /\ customerClosed' =
       /\ ord'.isArchived
       /\ \/ customerClosed
          \/ /\ ~ord.isArchived /\ ord'.status # "CANCELLED"
             /\ ord'.closureReason = "CUSTOMER"

Next == (StageStep \/ ClosureStep \/ RoutingStep \/ CadStep) /\ Observe

Spec == Init /\ [][Next]_vars

-----------------------------------------------------------------------------
(* What holds *)

InProduction == {"VPO_ISSUED", "MANUFACTURED", "REPAIR"}

\* An order the factory or the repair desk can see, or whose stone has come in,
\* has a SKU and (until it is finished) the date its overdue alerts count from,
\* however it got there: staff approval, customer approval, a revert or a
\* reactivation.  Imported rows come without either.
ProductionIsIssued ==
  ord.source # "IMPORT" =>
    /\ ord.status \in InProduction \/ ord.stoneReceived => ord.kiraSkuNumber
    /\ ord.status \in InProduction => ord.vpoIssuedAt

\* Every order shown to the customer has its 30-day auto-archive clock running,
\* whichever of the paths that set sentToCustomer was taken.
SentOrdersHaveClock == ord.sentToCustomer => ord.awaitingApprovalSince

\* The sub-stage APPROVED and the approval flag, which different handlers clear,
\* never disagree in the direction that hides a missing approval.
ApprovedStageHasApproval == ord.cadSubStatus = "APPROVED" => ord.customerEmailApproval

(* What makes the above inductive: what a cancelled order will come back to. *)

\* A stage in production that may be resumed was issued, and is still dated.
ResumedIsIssued ==
  ord.source # "IMPORT" /\ lastCancelFrom \in InProduction =>
    /\ ord.kiraSkuNumber
    /\ ord.status = "CANCELLED" => ord.vpoIssuedAt

\* The log of a cancelled order tells the status it really had.
CancellationIsLogged ==
  ord.source # "IMPORT" /\ ord.status = "CANCELLED" =>
    lastCancelFrom = before /\ lastCancelFrom # None

\* No order is ever SHIPPED, nor is it resumed as shipped or as cancelled.
NeverShipped == ord.status # "SHIPPED" /\ lastCancelFrom \notin {"SHIPPED", "CANCELLED"}

ClosureIsRecorded == customerClosed => ord.isArchived /\ ord.closureReason = "CUSTOMER"

IInv ==
  /\ TypeOK
  /\ ProductionIsIssued /\ ResumedIsIssued
  /\ CancellationIsLogged /\ NeverShipped
  /\ ClosureIsRecorded
  /\ ord.source # "IMPORT" => SentOrdersHaveClock

\* Reactivating a cancelled order restores the status it really had, although
\* both staff and a CAD rejection cancel, and either may cancel twice.
ReactivationRestores == [][ReactivateOrder => ord'.status = before]_vars

\* A project its customer closed is reopened by staff alone: neither the nightly
\* archive nor the customer's own reactivation button can undo the closure.
CustomerClosureHolds ==
  [][customerClosed /\ ~ord'.isArchived => ReactivateClosedProject \/ ReactivateOrder]_vars

DesignDecision ==
  \/ RevertToCad
  \/ \E name \in DOMAIN SubStage : SetSubStage(name)
  \/ \E f \in Files : RequestRevision(f)

\* Production that has started, and an approval the customer gave, are withdrawn
\* only by a decision about the design (revert, sub-stage correction, revision
\* request): never because a file was uploaded, sent or deleted, an answer to
\* another file came in late, or the order was closed and reopened.
OnlyDecisionsReopenDesign ==
  [][\/ ord.status \in InProduction \cup {"COMPLETED"} /\ ord'.status \in PreVpoStatuses
     \/ ord.customerEmailApproval /\ ~ord'.customerEmailApproval
     => DesignDecision]_vars

\* The workflow keeps the promises of OrderStages.
Stages == INSTANCE OrderStages WITH
  Nowhere <- None,
  FinishEarly <- "RING_BUILDER" \in Origins,
  stage <- ord.status,
  issued <- ord.kiraSkuNumber,
  resume <- lastCancelFrom

ImplementsStages == Stages!Spec

-----------------------------------------------------------------------------
(* What the handlers leave to the pages (see OrderDesks) *)

\* updateStatus: an order that needs a stone is not manufactured before a
\* supplier and a factory were assigned.  completeManufacturing does not check
\* it; the manufacturing desk offers no order without them.
ManufacturedHasSupplier ==
  [][ord.status = "VPO_ISSUED" /\ ord'.status = "MANUFACTURED" =>
       /\ ord.assignedFactory # None
       /\ NeedsStoneSupplier(ord) => ord.supplySource # None]_vars

\* reactivateAutoArchivedProject: the customer reopens what the system archived
\* and nothing else.  The handler only looks at closureReason, which a later
\* cancellation leaves as it was; the customer's page also looks at the status.
SelfReactivationIsNarrow == [][ReactivateAutoArchived => ord.status # "CANCELLED"]_vars

-----------------------------------------------------------------------------
(* What the comments and the entity say and the handlers do not keep *)

\* order.entity.ts: a completed order has no outgoing transition.
CompletedIsFinal == [][ord.status = "COMPLETED" => ord'.status = "COMPLETED"]_vars

\* applyArchiveScope: an archived order that is not cancelled is still in CAD
\* (or, more generously than the comment, has not got there yet).
ArchivedOnlyBeforeVpo ==
  ord.isArchived /\ ord.status # "CANCELLED" => ord.status \in PreVpoStatuses

\* setSubStage: leaves order columns and file statuses in agreement, so that the
\* resync finds nothing to correct.
SubStageInSync ==
  [][(\E name \in DOMAIN SubStage : SetSubStage(name)) =>
       LET stage == [cadSubStatus |-> ord'.cadSubStatus, sentToCustomer |-> ord'.sentToCustomer]
       IN  SubStageOf(file') \subseteq {stage}]_vars
=============================================================================
