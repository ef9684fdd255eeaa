----------------------------- MODULE OrderDesks -----------------------------
(***************************************************************************)
(* One order worked through the pages of the frontend: the order page, the *)
(* orders list with its bulk bar, the CAD, manufacturing and stone desks,  *)
(* the pipeline board and the customer's own page.  Each shows a button    *)
(* for some roles and some orders only; pressing it calls a handler of     *)
(* OrderLifecycle.  Here every step of a person is a button that is shown, *)
(* so that what the pages protect and the handlers do not, and what the    *)
(* pages offer and the handlers refuse, can both be stated.                *)
(*                                                                         *)
(* A page is taken to show the row as it is.  Staff of a factory or of a   *)
(* stone supplier are those the order is assigned to, and a sales rep or a *)
(* customer is the order's own.                                            *)
(***************************************************************************)
EXTENDS OrderLifecycle

CONSTANT Creations  \* the supplier whose stones the factories receive themselves

ASSUME CreationsAssumption == Creations \in SupplySources

StaffRoles ==
  {"ADMIN", "AUTHORIZER", "SALES_REP", "CAD_DESIGNER", "FACTORY_MANAGER", "STONE_MANAGER"}

Office == {"ADMIN", "AUTHORIZER"}

-----------------------------------------------------------------------------
(* Who sees the order *)

\* findOne, which the order page is loaded with.
Opens(role) ==
  CASE role = "FACTORY_MANAGER" ->
         ord.status \in {"VPO_ISSUED", "MANUFACTURED"} /\ ord.assignedFactory # None
    [] role = "STONE_MANAGER" -> ord.supplySource # None
    [] OTHER -> TRUE

\* The rows of the orders list; archived ones are on a tab of the office and the reps.
Lists(role) ==
  /\ CASE role = "CAD_DESIGNER" -> ord.status \in PreVpoStatuses
       [] role = "FACTORY_MANAGER" -> Opens(role)
       [] role = "STONE_MANAGER" ->
            ord.status = "VPO_ISSUED" /\ ~ord.stoneReceived /\ Opens(role)
       [] OTHER -> TRUE
  /\ \/ ~ord.isArchived \/ ord.status = "CANCELLED"
     \/ role \in Office \cup {"SALES_REP"}

\* The manufacturing queue; it does not look at isArchived.
Queues(role) ==
  /\ ord.status = "VPO_ISSUED"
  /\ \/ role = "ADMIN"
     \/ role = "FACTORY_MANAGER" /\ ord.assignedFactory # None
     \/ role = "STONE_MANAGER" /\ ord.supplySource # None

-----------------------------------------------------------------------------
(* What the buttons show *)

StatusTransitions ==
  [NEW             |-> {"CAD_IN_PROGRESS", "CANCELLED"},
   CAD_IN_PROGRESS |-> {"VPO_ISSUED", "CANCELLED"},
   VPO_ISSUED      |-> {"MANUFACTURED", "CANCELLED", "CAD_IN_PROGRESS"},
   MANUFACTURED    |-> {"COMPLETED", "REPAIR", "CANCELLED", "VPO_ISSUED"},
   REPAIR          |-> {"COMPLETED", "CANCELLED"},
   SHIPPED         |-> {},
   COMPLETED       |-> {},
   CANCELLED       |-> {}]

StagePermissions ==
  [ADMIN           |-> OrderStatus,
   AUTHORIZER      |-> {"CAD_IN_PROGRESS", "CANCELLED", "REPAIR", "COMPLETED"},
   SALES_REP       |-> {"CANCELLED"},
   CAD_DESIGNER    |-> {},
   FACTORY_MANAGER |-> {"MANUFACTURED"},
   STONE_MANAGER   |-> {}]

\* Bug: the revert of a VPO is shown to whoever may start the CAD.
MovableWithRevert(role) ==
  StatusTransitions[ord.status] \cap StagePermissions[role]

MovableStatuses(role) ==
  LET next == StatusTransitions[ord.status]
  IN  IF role = "ADMIN"
      THEN next \cup IF ord.source = "RING_BUILDER" /\ ord.status \notin {"COMPLETED", "CANCELLED"}
                     THEN {"COMPLETED"} ELSE {}
      ELSE (next \cap StagePermissions[role])
             \ IF ord.status = "VPO_ISSUED" THEN {"CAD_IN_PROGRESS"} ELSE {}

\* "Move to Stage"; a factory waits for the stone.
MoveShown(role, to) ==
  /\ Opens(role)
  /\ to \in MovableStatuses(role)
  /\ role = "FACTORY_MANAGER" /\ ord.status = "VPO_ISSUED" => ord.stoneReceived

\* The design viewer's Approve, Request Revision and Reject.
ReviewShown(role, f) ==
  /\ role \in {"ADMIN", "AUTHORIZER", "CAD_DESIGNER", "SALES_REP"}
  /\ file[f] \notin {"ABSENT", "APPROVED"}

DeleteShown(role, f) ==
  \/ role = "ADMIN"
  \/ role = "CAD_DESIGNER" /\ file[f] \notin {"APPROVED", "REJECTED"}

UploadShown(role) ==
  \/ role = "ADMIN"
  \/ role = "CAD_DESIGNER" /\ ord.status = "CAD_IN_PROGRESS"

\* The CAD desk lists the orders whose designs are still to be made.
DeskUploadShown(role) ==
  /\ role \in {"ADMIN", "CAD_DESIGNER"} /\ Lists(role)
  /\ ord.cadSubStatus \in {None, "REVISION"}

\* Bug: only the factory is asked for.
AssignShownForFactory(role) ==
  role \in Office /\ ord.status = "VPO_ISSUED" /\ ord.assignedFactory = None

AssignShown(role) ==
  /\ role \in Office /\ ord.status = "VPO_ISSUED"
  /\ \/ ord.assignedFactory = None
     \/ NeedsStoneSupplier(ord) /\ ord.supplySource = None

\* Bug: a factory alone is enough.
ReleasedToFactory == ord.assignedFactory # None

\* Factory and stone supplier are both known, as if every order needed both.
Released == ord.assignedFactory # None /\ ord.supplySource # None

\* The order page's stone card and the stone desk.
StoneSentShown(role) ==
  /\ role \in {"ADMIN", "STONE_MANAGER"} /\ Queues(role)
  /\ Released /\ ~ord.stoneReceived

\* The manufacturing desk's "Mark Stone Received".
StoneReceivedShown(role) ==
  /\ role \in {"ADMIN", "FACTORY_MANAGER"} /\ Queues(role)
  /\ Released /\ ~ord.stoneReceived /\ ord.supplySource = Creations

\* The manufacturing desk's "Mark as Manufactured".
FinishShown(role) ==
  /\ role \in {"ADMIN", "FACTORY_MANAGER"} /\ Queues(role)
  /\ Released /\ ord.stoneReceived

CadSubLabel ==
  CASE ord.sentToCustomer -> "AWAITING_APPROVAL"
    [] ~ord.sentToCustomer /\ ord.cadSubStatus = None -> "PENDING_CAD"
    [] ~ord.sentToCustomer /\ ord.cadSubStatus = "REVISION" -> "REVISION"
    [] ~ord.sentToCustomer /\ ord.cadSubStatus = "UPLOADED" -> "AWAITING_QUOTE"
    [] OTHER -> "NONE"

\* "CAD Stage": every stage but the one the label shows.
StageShown(role, name) ==
  /\ role = "ADMIN" /\ ord.status \in {"CAD_IN_PROGRESS", "VPO_ISSUED"}
  /\ ~(ord.status = "CAD_IN_PROGRESS" /\ CadSubLabel = name)

ReactivateShown(role) == role = "ADMIN" /\ ord.status = "CANCELLED"

ReopenShown(role) == role \in Office /\ ord.isArchived /\ ord.status # "CANCELLED"

\* Bug: a cancelled order is archived too.
ArchivedProject == ord.isArchived

\* The customer's page: archived, and not because it was cancelled.
ClosedProject == ord.isArchived /\ ord.status # "CANCELLED"

CloseShown == ~ClosedProject /\ CadSubLabel = "AWAITING_APPROVAL"

SelfReopenShown == ClosedProject /\ ord.closureReason = "AUTO"

\* The bulk bar: what may be selected, and where the selection may be moved.
Selectable(role) ==
  /\ Lists(role)
  /\ IF role = "FACTORY_MANAGER" THEN ord.stoneReceived ELSE ord.status # "CANCELLED"

\* The office moves and assigns a selection by its role; an Admin may grant either
\* to any other user (extraPermissions), but the bar shows it to no factory.
BulkShown(role) == role # "FACTORY_MANAGER"

NudgeStatuses(role) ==
  IF BulkShown(role) THEN {"CAD_IN_PROGRESS", "MANUFACTURED", "COMPLETED"} ELSE {"MANUFACTURED"}

-----------------------------------------------------------------------------
(* What the buttons ask the backend for *)

\* PATCH /orders/:id/status; the order page sends a price along with VPO_ISSUED.
\* The two reverts are an Admin's, and so is finishing a Ring Builder order early.
UpdateStatus(role, to, priced) ==
  \/ to = "CAD_IN_PROGRESS" /\ StartCad(FALSE)
  \/ to = "CAD_IN_PROGRESS" /\ role = "ADMIN" /\ RevertToCad
  \/ to = "VPO_ISSUED" /\ \E codeKnown \in BOOLEAN : IssueVpo(priced, codeKnown)
  \/ to = "VPO_ISSUED" /\ role = "ADMIN" /\ RevertToVpo
  \/ to = "MANUFACTURED"
       /\ MarkManufactured(IF role = "FACTORY_MANAGER" THEN "FACTORY" ELSE "STAFF")
  \/ to = "REPAIR" /\ SendToRepair
  \/ to = "COMPLETED" /\ CompleteOrder
  \/ to = "COMPLETED" /\ role = "ADMIN" /\ RingBuilderComplete
  \/ to = "CANCELLED" /\ Cancel

\* PATCH /cad/:id/approve, reject and revision; a designer is not authorized.
Review(role, f) ==
  /\ role \in {"ADMIN", "AUTHORIZER", "SALES_REP", "CUSTOMER"}
  /\ (\E skuOk \in BOOLEAN : Approve(f, skuOk)) \/ Reject(f) \/ RequestRevision(f)

\* The page saves the price and, when it shows an unsent order in CAD, asks for
\* the designs to be sent, whether there are any or not.
SaveQuotedPrice ==
  LET quoted == [ord EXCEPT !.quotedCost = TRUE]
  IN  /\ IF ord.status = "CAD_IN_PROGRESS" /\ ~ord.sentToCustomer
         THEN /\ ord' = Sent(quoted)
              /\ file' = Bumped(file, "UPLOADED", "SENT_FOR_APPROVAL")
         ELSE WithAutoSend(quoted)
      /\ UNCHANGED lastCancelFrom

-----------------------------------------------------------------------------
(* Pressing them *)

OrderPage(role) ==
  /\ Opens(role)
  /\ \/ \E to \in OrderStatus : MoveShown(role, to) /\ UpdateStatus(role, to, TRUE)
     \/ \E f \in Files : ReviewShown(role, f) /\ Review(role, f)
     \/ UploadShown(role) /\ \E n \in Files : UploadBatch(n)
     \/ \E f \in Files : DeleteShown(role, f) /\ DeleteFile(f)
     \/ role \in Office /\ SaveQuotedPrice
     \/ /\ AssignShown(role)
        /\ \E factory \in Factories, source \in SupplySources : AssignSupplier(factory, source)
     \/ role = "ADMIN" /\ EditSupplier
     \/ \E name \in DOMAIN SubStage : StageShown(role, name) /\ SetSubStage(name)
     \/ ReactivateShown(role) /\ ReactivateOrder
     \/ ReopenShown(role) /\ ReactivateClosedProject

OrdersList(role) ==
  /\ Selectable(role)
  /\ \/ \E to \in NudgeStatuses(role) : UpdateStatus(role, to, FALSE)
     \/ role \in Office \cup {"SALES_REP"} /\ Cancel
     \/ /\ BulkShown(role)
        /\ \E factory \in Factories, source \in SupplySources : AssignSupplier(factory, source)

Desks(role) ==
  \/ DeskUploadShown(role) /\ \E n \in Files : UploadBatch(n)
  \/ StoneSentShown(role) /\ MarkStoneSent
  \/ StoneReceivedShown(role) /\ MarkStoneSent
  \/ FinishShown(role)
       /\ CompleteManufacturing(IF role = "FACTORY_MANAGER" THEN "FACTORY" ELSE "STAFF")
  \/ role = "ADMIN" /\ Reconcile

CustomerPage ==
  \/ \E f \in Files : file[f] = "SENT_FOR_APPROVAL" /\ Review("CUSTOMER", f)
  \/ CloseShown /\ CloseProject
  \/ SelfReopenShown /\ ReactivateAutoArchived

\* The tracking page, which a mailed link opens.
TrackingPage ==
  \E f \in Files : file[f] = "SENT_FOR_APPROVAL" /\ (PublicApprove(f) \/ PublicReject(f))

\* The server's own steps.
Background == AutoArchive \/ StartupCleanup

DeskNext ==
  /\ \/ \E role \in StaffRoles : OrderPage(role) \/ OrdersList(role) \/ Desks(role)
     \/ CustomerPage
     \/ TrackingPage
     \/ Background
  /\ Observe

DeskSpec == Init /\ [][DeskNext]_vars

-----------------------------------------------------------------------------
(* What holds *)

\* What a shown button asks for is not refused, but for three cases: the status
\* buttons do not ask for a supplier, a designer's viewer offers a review no
\* designer may give, and the customer may close what the sub-stage does not
\* call awaiting approval.
OffersAreAccepted ==
  /\ \A role \in StaffRoles :
       /\ \A to \in OrderStatus \ {"MANUFACTURED"} :
            MoveShown(role, to) => ENABLED UpdateStatus(role, to, TRUE)
       /\ MoveShown(role, "MANUFACTURED") /\ ord.assignedFactory # None
            /\ (NeedsStoneSupplier(ord) => ord.supplySource # None) =>
            ENABLED UpdateStatus(role, "MANUFACTURED", TRUE)
       /\ \A f \in Files :
            ReviewShown(role, f) /\ role # "CAD_DESIGNER" => ENABLED Review(role, f)
       /\ AssignShown(role) =>
            ENABLED (\E factory \in Factories, source \in SupplySources : AssignSupplier(factory, source))
       /\ StoneSentShown(role) \/ StoneReceivedShown(role) => ENABLED MarkStoneSent
       /\ FinishShown(role) =>
            ENABLED CompleteManufacturing(IF role = "FACTORY_MANAGER" THEN "FACTORY" ELSE "STAFF")
  /\ SelfReopenShown => ENABLED ReactivateAutoArchived

\* A person other than an Admin who can take the order a stage further.
MovesOn(role) ==
  \/ AssignShown(role)
  \/ StoneSentShown(role) \/ StoneReceivedShown(role)
  \/ FinishShown(role)
  \/ \E to \in {"MANUFACTURED", "COMPLETED"} : MoveShown(role, to)

\* An order in production is always someone's work, whatever was edited, reverted
\* or reactivated: a factory, a stone supplier or an authorizer has a button that
\* takes it on.  The mounting-only order the factory was given is left out: the
\* manufacturing desk waits for a stone supplier it will never have.
ProductionIsSomeonesWork ==
  ord.status \in InProduction /\ ~(ord.mountingOnly /\ ord.assignedFactory # None) =>
    \E role \in StaffRoles \ {"ADMIN"} : MovesOn(role)

-----------------------------------------------------------------------------
(* What the page says and does not keep *)

\* The order page of an order in CAD: once it was sent, the customer can review
\* the designs there are.
SentDesignsAreReviewable ==
  ord.status = "CAD_IN_PROGRESS" /\ ord.sentToCustomer =>
    \A f \in Files : file[f] # "UPLOADED"
=============================================================================
