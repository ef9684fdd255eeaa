------------------------------ MODULE OrderLog ------------------------------
(***************************************************************************)
(* The event log of an order (order_events) beside its row.  Every service *)
(* writes its own events, after its own writes; the dashboard's weekly     *)
(* activity, the stage times of the weekly report, the audit log and       *)
(* reactivateOrder read them.  Kept here is the newest status that was     *)
(* logged; lastCancelFrom of OrderLifecycle is another part of the log.    *)
(* An event is written with its step.                                      *)
(***************************************************************************)
EXTENDS OrderLifecycle

VARIABLE logged  \* toStatus of the newest STATUS_CHANGE event, or the status at the start

logVars == <<vars, logged>>

LogInit == Init /\ logged = ord.status

-----------------------------------------------------------------------------
(* Who logs what *)

\* A STATUS_CHANGE event with the new status.  An approval whose SKU cannot be
\* generated fails before it is logged.
LoggedMove ==
  \/ \E priced \in BOOLEAN : StartCad(priced) \/ IssueVpo(priced, TRUE)
  \/ RevertToVpo \/ RevertToCad
  \/ \E role \in Roles : MarkManufactured(role) \/ CompleteManufacturing(role)
  \/ CompleteOrder \/ RingBuilderComplete
  \/ Cancel \/ ReactivateOrder
  \/ \E name \in DOMAIN SubStage : SetSubStage(name)
  \/ \E f \in Files :
       \/ (ord.kiraSkuNumber /\ Approve(f, FALSE)) \/ Approve(f, TRUE)
       \/ Reject(f) \/ RequestRevision(f)

\* Bug: the VPO that a customer's approval issues is not logged.
DesignStepOrApproval(f) ==
  SendForApproval(f) \/ Approve(f, TRUE) \/ DeleteFile(f) \/ PublicApprove(f) \/ PublicReject(f)

DesignStep(f) ==
  \/ SendForApproval(f)
  \/ ~ord.kiraSkuNumber /\ Approve(f, FALSE)
  \/ DeleteFile(f) \/ PublicApprove(f) \/ PublicReject(f)

\* No event that carries a status: returns before the event is written
\* (SendToRepair), fails, or never writes one.
Unlogged ==
  \/ SaveQuote
  \/ \E priced \in BOOLEAN : IssueVpo(priced, FALSE)
  \/ SendToRepair \/ CompleteRepair
  \/ CloseProject \/ ReactivateClosedProject \/ ReactivateAutoArchived \/ AutoArchive
  \/ \E f \in Factories, s \in SupplySources : AssignSupplier(f, s)
  \/ EditSupplier
  \/ StartupCleanup \/ BackfillStuckCadApprovals \/ MarkStoneSent
  \/ \E n \in Files : UploadBatch(n)
  \/ SendToCustomer \/ Reconcile
  \/ \E f \in Files : DesignStep(f)

\* The steps of Next, each with what it logs.
LogNext ==
  /\ \/ LoggedMove /\ logged' = ord'.status
     \/ Unlogged /\ UNCHANGED logged
  /\ Observe

LogSpec == LogInit /\ [][LogNext]_logVars

-----------------------------------------------------------------------------
(* What holds *)

\* The moves nobody logs: the first design that is sent starts the CAD, and the
\* repair desk takes an order in and finishes it.
UnloggedMoves ==
  {<<"NEW", "CAD_IN_PROGRESS">>, <<"MANUFACTURED", "REPAIR">>,
   <<"MANUFACTURED", "COMPLETED">>, <<"REPAIR", "COMPLETED">>}

\* Whoever moved the order last, and however often it was cancelled, reactivated,
\* reverted or corrected: the audit log tells the status the order is in.
LogTellsStatus == logged = ord.status \/ <<logged, ord.status>> \in UnloggedMoves

-----------------------------------------------------------------------------
(* What the comments say and the log does not keep *)

\* updateStatus: cancellations are logged like every other transition, and never
\* from CANCELLED to CANCELLED.
EveryMoveIsLogged == [][ord'.status # ord.status => logged' = ord'.status]_logVars
=============================================================================
