--------------------------- MODULE OrderRequests ---------------------------
(***************************************************************************)
(* The handlers of OrderLifecycle as requests that run at the same time.   *)
(* The server is one Node process without transactions: a handler is a     *)
(* sequence of awaited queries, and other requests run between them.  Two  *)
(* kinds of write meet: save() puts back the whole row that was read       *)
(* earlier, changed or not, and update() writes the named columns only.    *)
(*                                                                         *)
(* A request is at the query it will issue next.  It carries what it read: *)
(* `row` is the entity in memory, as it will be saved; `ids` the files it  *)
(* found.  Starting a request includes its first query.  A restart of the  *)
(* server loses the requests in flight, not what they wrote.               *)
(***************************************************************************)
EXTENDS OrderRow

CONSTANTS Requests,   \* the requests in flight at one time are at most these
          Handlers,   \* the handlers that are called
          Restarts    \* a Boolean: may the server restart?

VARIABLES
  ord, file,       \* as in OrderLifecycle
  lastCancelFrom,
  skuRow,          \* a row of `skus` holds this order's SKU number
  req,             \* the requests in flight
  committed        \* history: what the tables last held when no request was in flight

tables == <<ord, file, lastCancelFrom>>
vars == <<ord, file, lastCancelFrom, skuRow, req, committed>>

\* A repository save of a single row that was read once.
Savers ==
  {"CloseProject", "AutoArchive", "ReactivateClosedProject", "ReactivateAutoArchived",
   "AssignSupplier", "EditSupplier", "MarkStoneSent", "CompleteManufacturing",
   "CompleteRepair", "UpdateQuoteOptions", "SaveQuote"}

\* A change of status that is checked on one row and saved on another, which
\* update() reads again.
Movers ==
  {"StartCad", "StartCadWithPrice", "IssueVpo", "RevertToVpo", "RevertToCad", "SendToRepair",
   "MarkManufactured", "CompleteOrder", "Cancel", "ReactivateOrder"}

\* Handlers of one design file, and the status each gives it.
FileStatusSet ==
  [Approve         |-> "APPROVED",
   PublicApprove   |-> "APPROVED",
   Reject          |-> "REJECTED",
   RequestRevision |-> "REVISION_REQUESTED",
   PublicReject    |-> "REVISION_REQUESTED",
   SendForApproval |-> "SENT_FOR_APPROVAL",
   DeleteFile      |-> "ABSENT"]

OtherHandlers == {"SendToCustomer", "SetSubStage", "Reconcile", "UploadBatch"}

AllHandlers == Savers \cup Movers \cup DOMAIN FileStatusSet \cup OtherHandlers

ASSUME RequestAssumption ==
  /\ Handlers \subseteq AllHandlers
  /\ None \notin AllHandlers
  /\ Restarts \in BOOLEAN

Idle == [op |-> None, at |-> "done", row |-> None, from |-> None, target |-> None, ids |-> {}]

Init ==
  /\ ord \in {CreatedOrder(o, q, m) : o \in Origins \ {"IMPORT"}, q \in BOOLEAN, m \in Mountings}
  /\ file = [f \in Files |-> "ABSENT"]
  /\ lastCancelFrom = None
  /\ skuRow = FALSE
  /\ req = [r \in Requests |-> Idle]
  /\ committed = tables

Exists(f) == file[f] # "ABSENT"
ExistingFiles == {f \in Files : Exists(f)}

(* The three things a request does with its own state. *)
Free(r, op) == req[r] = Idle /\ op \in Handlers
Proceed(r, changes) == req' = [req EXCEPT ![r] = changes]
Finish(r) == Proceed(r, Idle)

Ready(r, op, at) == req[r].op = op /\ req[r].at = at

-----------------------------------------------------------------------------
(* save(): read, check, change in memory, put back *)

When(guard, row) == IF guard THEN {row} ELSE {}

Edited(r) ==
  {[r EXCEPT !.assignedFactory = f] : f \in Factories}
  \cup {[r EXCEPT !.supplySource = s] : s \in SupplySources}

\* The rows handler `op` may save after reading r; none if it refuses.
Saved(op, r) ==
  CASE op = "CloseProject" -> When(~r.isArchived /\ AwaitingApproval(r), Closed(r))
    [] op = "AutoArchive" ->
         When(~r.isArchived /\ AwaitingApproval(r) /\ r.awaitingApprovalSince, AutoArchived(r))
    [] op = "ReactivateClosedProject" -> When(r.isArchived /\ r.status # "CANCELLED", Reopened(r))
    [] op = "ReactivateAutoArchived" -> When(r.isArchived /\ r.closureReason = "AUTO", Reopened(r))
    [] op = "AssignSupplier" -> IF r.status # "VPO_ISSUED" THEN {}
                              ELSE {Assigned(r, f, s) : f \in Factories, s \in SupplySources}
    [] op = "EditSupplier" -> IF r.status \in PreVpoStatuses THEN {} ELSE Edited(r)
    [] op = "MarkStoneSent" ->
         When(r.status = "VPO_ISSUED" /\ ~r.stoneReceived, [r EXCEPT !.stoneReceived = TRUE])
    [] op = "CompleteManufacturing" ->
         When(r.status = "VPO_ISSUED" /\ r.stoneReceived, Manufactured(r))
    [] op = "CompleteRepair" -> When(r.status = "REPAIR", [r EXCEPT !.status = "COMPLETED"])
    [] op = "UpdateQuoteOptions" -> {r}
    [] op = "SaveQuote" -> {[r EXCEPT !.quotedCost = TRUE]}

Load(r, op) ==
  /\ Free(r, op)
  /\ \E row \in Saved(op, ord) : Proceed(r, [Idle EXCEPT !.op = op, !.at = "save", !.row = row])
  /\ UNCHANGED <<tables, skuRow>>

\* STATUS_CHANGE events that log a move to CANCELLED.
LogCancellation(from) == lastCancelFrom' = IF from = "CANCELLED" THEN lastCancelFrom ELSE from

\* A price that was saved on a CAD order goes on to send the designs.
SendsAlong(q) ==
  /\ q.op \in {"SaveQuote", "StartCadWithPrice"}
  /\ q.row.status = "CAD_IN_PROGRESS"
  /\ ~q.row.customerEmailApproval /\ ~q.row.sentToCustomer

Save(r) ==
  /\ req[r].at = "save"
  /\ ord' = req[r].row
  /\ IF SendsAlong(req[r])
     THEN Proceed(r, [req[r] EXCEPT !.at = "findForQuote", !.row = None, !.from = None])
     ELSE Finish(r)
  /\ IF req[r].op = "Cancel" THEN LogCancellation(req[r].from) ELSE UNCHANGED lastCancelFrom
  /\ UNCHANGED <<file, skuRow>>

FindForQuote(r) ==
  LET found == {f \in Files : file[f] \in {"UPLOADED", "SENT_FOR_APPROVAL"}} IN
  /\ req[r].at = "findForQuote"
  /\ IF found = {} THEN Finish(r)
     ELSE Proceed(r, [req[r] EXCEPT !.at = "send",
                                    !.ids = {f \in found : file[f] = "UPLOADED"}])
  /\ UNCHANGED <<tables, skuRow>>

AutoSend(r) ==
  /\ req[r].at = "send"
  /\ ord' = Sent(ord)
  /\ IF req[r].ids = {} THEN Finish(r) ELSE Proceed(r, [req[r] EXCEPT !.at = "mark",
                                                        !.target = "SENT_FOR_APPROVAL"])
  /\ UNCHANGED <<file, lastCancelFrom, skuRow>>

-----------------------------------------------------------------------------
(* updateStatus and reactivateOrder: check, read again, save *)

Permitted(op, r) ==
  CASE op \in {"StartCad", "StartCadWithPrice"} -> r.status = "NEW"
    [] op = "IssueVpo"         -> r.status = "CAD_IN_PROGRESS"
    [] op = "RevertToVpo"      -> r.status = "MANUFACTURED"
    [] op = "RevertToCad"      -> r.status = "VPO_ISSUED"
    [] op = "SendToRepair"     -> r.status = "MANUFACTURED"
    [] op = "MarkManufactured" -> r.status = "VPO_ISSUED"
    [] op = "CompleteOrder"    -> \/ "COMPLETED" \in AllowedTransitions[r.status]
                                  \/ r.source = "RING_BUILDER"
    [] op = "Cancel"           -> r.status # "CANCELLED"
    [] op = "ReactivateOrder"  -> r.status = "CANCELLED"

\* What update() makes of the row it reads; `resumed` is what the log said.
Moved(op, r, resumed) ==
  CASE op = "StartCad"         -> [r EXCEPT !.status = "CAD_IN_PROGRESS"]
    [] op = "StartCadWithPrice" -> [r EXCEPT !.status = "CAD_IN_PROGRESS", !.quotedCost = TRUE]
    [] op = "IssueVpo"         -> [r EXCEPT !.status = "VPO_ISSUED", !.quotedCost = TRUE,
                                            !.vpoIssuedAt = TRUE]
    [] op = "RevertToVpo"      -> RevertedToVpo(r)
    [] op = "RevertToCad"      -> RevertedToCad(r)
    [] op = "SendToRepair"     -> [r EXCEPT !.status = "REPAIR"]
    [] op = "MarkManufactured" -> Manufactured(r)
    [] op = "CompleteOrder"    -> Completed(r)
    [] op = "Cancel"           -> Cancelled(r)
    [] op = "ReactivateOrder"  -> [r EXCEPT !.status = resumed, !.isArchived = FALSE]

Check(r, op) ==
  /\ Free(r, op)
  /\ Permitted(op, ord)
  /\ Proceed(r, [Idle EXCEPT !.op = op,
       !.at = CASE op = "ReactivateOrder" -> "lookup"
                [] op \in {"IssueVpo", "MarkManufactured"} -> "verify"
                [] OTHER -> "reload",
       !.from = ord.status])
  /\ UNCHANGED <<tables, skuRow>>

\* The row is read once more for what this transition needs: a price (with the
\* request or on the row) and a SKU, or a supplier.
Verify(r) ==
  /\ req[r].at = "verify"
  /\ IF req[r].op = "IssueVpo"
     THEN Proceed(r, [req[r] EXCEPT !.at = IF ord.kiraSkuNumber THEN "approveFiles" ELSE "sku"])
     ELSE IF ord.assignedFactory # None /\ (NeedsStoneSupplier(ord) => ord.supplySource # None)
          THEN Proceed(r, [req[r] EXCEPT !.at = "reload"])
          ELSE Finish(r)
  /\ UNCHANGED <<tables, skuRow>>

LookUp(r) ==
  /\ Ready(r, "ReactivateOrder", "lookup")
  /\ Proceed(r, [req[r] EXCEPT !.at = "reload",
                               !.from = IF lastCancelFrom = None THEN "NEW" ELSE lastCancelFrom])
  /\ UNCHANGED <<tables, skuRow>>

\* update() finds no customer code for the number and fails: IssueVpo only.
Reload(r) ==
  /\ req[r].at = "reload"
  /\ \/ Proceed(r, [req[r] EXCEPT !.at = "save", !.row = Moved(req[r].op, ord, req[r].from)])
     \/ req[r].op = "IssueVpo" /\ Finish(r)
  /\ UNCHANGED <<tables, skuRow>>

ApproveFiles(r) ==
  /\ Ready(r, "IssueVpo", "approveFiles")
  /\ file' = Bumped(file, "SENT_FOR_APPROVAL", "APPROVED")
  /\ Proceed(r, [req[r] EXCEPT !.at = "reload"])
  /\ UNCHANGED <<ord, lastCancelFrom, skuRow>>

(* SkuService.generate: the row of `skus`, whose number is unique, and then *)
(* the column of the order.  Another order's SKU may have the number too.   *)
InsertSku(r) ==
  /\ req[r].at = "sku"
  /\ \/ ~skuRow /\ skuRow' = TRUE /\ Proceed(r, [req[r] EXCEPT !.at = "number"])
     \/ UNCHANGED skuRow /\ Finish(r)
  /\ UNCHANGED tables

StoreSku(r) ==
  /\ req[r].at = "number"
  /\ ord' = [ord EXCEPT !.kiraSkuNumber = TRUE]
  /\ Proceed(r, [req[r] EXCEPT !.at = IF req[r].op = "IssueVpo" THEN "approveFiles" ELSE "issue"])
  /\ UNCHANGED <<file, lastCancelFrom, skuRow>>

-----------------------------------------------------------------------------
(* CadService and the tracking page: update() of named columns *)

FindFile(r, op, f) ==
  /\ Free(r, op)
  /\ op # "PublicApprove"
  /\ Exists(f)
  /\ Proceed(r, [Idle EXCEPT !.op = op, !.at = "mark", !.ids = {f}, !.target = FileStatusSet[op]])
  /\ UNCHANGED <<tables, skuRow>>

\* The tracking page reads the order first, which it will save in the end.
FindOrder(r, f) ==
  /\ Free(r, "PublicApprove")
  /\ Proceed(r, [Idle EXCEPT !.op = "PublicApprove", !.at = "findFile", !.ids = {f},
                             !.target = FileStatusSet["PublicApprove"],
                             !.row = [ord EXCEPT !.customerEmailApproval = TRUE]])
  /\ UNCHANGED <<tables, skuRow>>

FindFileOfOrder(r) ==
  /\ req[r].at = "findFile"
  /\ IF \A f \in req[r].ids : Exists(f) THEN Proceed(r, [req[r] EXCEPT !.at = "mark"]) ELSE Finish(r)
  /\ UNCHANGED <<tables, skuRow>>

AfterMark ==
  [Approve |-> "flags", PublicApprove |-> "save", Reject |-> "look",
   RequestRevision |-> "revise", SendForApproval |-> "look", SetSubStage |-> "done",
   PublicReject |-> "done", DeleteFile |-> "done", SendToCustomer |-> "done",
   SaveQuote |-> "done", StartCadWithPrice |-> "done"]

\* A saved file row that was deleted meanwhile is inserted again; an update by
\* id of one that is gone does nothing.
Mark(r) ==
  LET q == req[r]
      byId == q.op \in {"SetSubStage", "SendToCustomer", "SaveQuote", "StartCadWithPrice"}
  IN  /\ q.at = "mark"
      /\ file' = [f \in Files |-> IF f \in q.ids /\ (byId => Exists(f)) THEN q.target ELSE file[f]]
      /\ IF AfterMark[q.op] = "done" THEN Finish(r)
         ELSE Proceed(r, [q EXCEPT !.at = AfterMark[q.op], !.ids = {}, !.target = None])
      /\ UNCHANGED <<ord, lastCancelFrom, skuRow>>

Flag(r) ==
  /\ Ready(r, "Approve", "flags")
  /\ ord' = ApprovalFlagged(ord)
  /\ Proceed(r, [req[r] EXCEPT !.at = "look"])
  /\ UNCHANGED <<file, lastCancelFrom, skuRow>>

\* The order is read after the file was saved.
Look(r) ==
  /\ req[r].at = "look"
  /\ CASE req[r].op = "Approve" ->
            Proceed(r, [req[r] EXCEPT !.at = IF ord.kiraSkuNumber THEN "issue" ELSE "sku"])
       [] req[r].op = "Reject" ->
            Proceed(r, [req[r] EXCEPT !.at = "cancel", !.from = ord.status])
       [] req[r].op \in {"SendForApproval", "UploadBatch"} ->
            IF ord.status \in PreVpoStatuses
            THEN Proceed(r, [req[r] EXCEPT !.at = "queue"])
            ELSE Finish(r)
  /\ UNCHANGED <<tables, skuRow>>

Issue(r) ==
  /\ Ready(r, "Approve", "issue")
  /\ ord' = [ord EXCEPT !.status = "VPO_ISSUED", !.vpoIssuedAt = TRUE]
  /\ Finish(r)
  /\ UNCHANGED <<file, lastCancelFrom, skuRow>>

CancelRejected(r) ==
  /\ Ready(r, "Reject", "cancel")
  /\ ord' = Cancelled(ord)
  /\ LogCancellation(req[r].from)
  /\ Finish(r)
  /\ UNCHANGED <<file, skuRow>>

\* Bug: only the approval is withdrawn, the stage stays.
ReviseApprovalOnly(r) ==
  /\ Ready(r, "RequestRevision", "revise")
  /\ ord' = [ord EXCEPT !.status = "CAD_IN_PROGRESS", !.customerEmailApproval = FALSE,
                        !.sentToCustomer = FALSE]
  /\ Finish(r)
  /\ UNCHANGED <<file, lastCancelFrom, skuRow>>

Revise(r) ==
  /\ Ready(r, "RequestRevision", "revise")
  /\ ord' = RevisionRequested(ord)
  /\ Finish(r)
  /\ UNCHANGED <<file, lastCancelFrom, skuRow>>

\* Bug: a mere upload starts the CAD stage, as sending for approval does.
QueueInProgress(r) ==
  /\ req[r].at = "queue"
  /\ ord' = [ord EXCEPT !.cadSubStatus = "UPLOADED", !.status = "CAD_IN_PROGRESS"]
  /\ Finish(r)
  /\ UNCHANGED <<file, lastCancelFrom, skuRow>>

\* The order joins the queue of designs that wait for a quote.
Queue(r) ==
  /\ req[r].at = "queue"
  /\ ord' = [ord EXCEPT !.cadSubStatus = "UPLOADED",
                        !.status = IF req[r].op = "SendForApproval" THEN "CAD_IN_PROGRESS" ELSE @]
  /\ Finish(r)
  /\ UNCHANGED <<file, lastCancelFrom, skuRow>>

Upload(r) ==
  LET newest == IF ExistingFiles = {} THEN 0 ELSE Latest(file) IN
  /\ Free(r, "UploadBatch")
  /\ newest + 1 \in Files
  /\ file' = [file EXCEPT ![newest + 1] = "UPLOADED"]
  /\ Proceed(r, [Idle EXCEPT !.op = "UploadBatch", !.at = "look"])
  /\ UNCHANGED <<ord, lastCancelFrom, skuRow>>

Send(r) ==
  /\ Free(r, "SendToCustomer")
  /\ ord' = Sent(ord)
  /\ Proceed(r, [Idle EXCEPT !.op = "SendToCustomer", !.at = "find"])
  /\ UNCHANGED <<file, lastCancelFrom, skuRow>>

\* Whether the order was approved is decided on the row read first.
CheckSubStage(r, name) ==
  /\ Free(r, "SetSubStage")
  /\ ord.status \in {"CAD_IN_PROGRESS", "VPO_ISSUED"}
  /\ Proceed(r, [Idle EXCEPT !.op = "SetSubStage", !.at = "columns", !.target = name,
                             !.from = ord.status])
  /\ UNCHANGED <<tables, skuRow>>

SetColumns(r) ==
  /\ Ready(r, "SetSubStage", "columns")
  /\ ord' = [InSubStage(ord, SubStage[req[r].target]) EXCEPT
               !.vpoIssuedAt = IF req[r].from = "VPO_ISSUED" THEN FALSE ELSE ord.vpoIssuedAt]
  /\ Proceed(r, [req[r] EXCEPT !.at = "find", !.target = SubStage[req[r].target].fileStatus])
  /\ UNCHANGED <<file, lastCancelFrom, skuRow>>

FindFiles(r) ==
  LET sending == req[r].op = "SendToCustomer"
      found == {f \in ExistingFiles : sending => file[f] = "UPLOADED"}
  IN  /\ req[r].at = "find"
      /\ IF found = {} THEN Finish(r)
         ELSE Proceed(r, [req[r] EXCEPT !.at = "mark", !.ids = found,
                            !.target = IF sending THEN "SENT_FOR_APPROVAL" ELSE @])
      /\ UNCHANGED <<tables, skuRow>>

StageColumns(r) == [cadSubStatus |-> r.cadSubStatus, sentToCustomer |-> r.sentToCustomer]

StartReconcile(r) ==
  /\ Free(r, "Reconcile")
  /\ ord.status = "CAD_IN_PROGRESS"
  /\ Proceed(r, [Idle EXCEPT !.op = "Reconcile", !.at = "compare", !.target = StageColumns(ord)])
  /\ UNCHANGED <<tables, skuRow>>

Compare(r) ==
  LET wrong == SubStageOf(file) \ {req[r].target} IN
  /\ Ready(r, "Reconcile", "compare")
  /\ IF wrong = {} THEN Finish(r)
     ELSE \E target \in wrong : Proceed(r, [req[r] EXCEPT !.at = "resync", !.target = target])
  /\ UNCHANGED <<tables, skuRow>>

\* Bug: the columns are repaired and the clock is forgotten.
ResyncWithoutClock(r) ==
  /\ Ready(r, "Reconcile", "resync")
  /\ ord' = [ord EXCEPT !.cadSubStatus = req[r].target.cadSubStatus,
                        !.sentToCustomer = req[r].target.sentToCustomer]
  /\ Finish(r)
  /\ UNCHANGED <<file, lastCancelFrom, skuRow>>

Resync(r) ==
  /\ Ready(r, "Reconcile", "resync")
  /\ ord' = Resynced(ord, req[r].target)
  /\ Finish(r)
  /\ UNCHANGED <<file, lastCancelFrom, skuRow>>

-----------------------------------------------------------------------------

Arrive(r) ==
  \/ \E op \in Savers : Load(r, op)
  \/ \E op \in Movers : Check(r, op)
  \/ \E op \in DOMAIN FileStatusSet, f \in Files : FindFile(r, op, f)
  \/ \E f \in Files : FindOrder(r, f)
  \/ Upload(r)
  \/ Send(r)
  \/ \E name \in DOMAIN SubStage : CheckSubStage(r, name)
  \/ StartReconcile(r)

Continue(r) ==
  \/ Save(r) \/ FindForQuote(r) \/ AutoSend(r)
  \/ Verify(r) \/ LookUp(r) \/ Reload(r) \/ ApproveFiles(r) \/ InsertSku(r) \/ StoreSku(r)
  \/ FindFileOfOrder(r) \/ Mark(r) \/ Flag(r) \/ Look(r) \/ Issue(r) \/ CancelRejected(r) \/ Revise(r) \/ Queue(r)
  \/ SetColumns(r) \/ FindFiles(r) \/ Compare(r) \/ Resync(r)

\* The process restarts: what was being done is forgotten, and onModuleInit clears
\* a supplier without a factory before requests are served.
Restart ==
  /\ Restarts
  /\ req' = [r \in Requests |-> Idle]
  /\ ord' = IF ord.assignedFactory = None THEN [ord EXCEPT !.supplySource = None] ELSE ord
  /\ UNCHANGED <<file, lastCancelFrom, skuRow>>

\* `committed` means something as long as there is one request at a time; when
\* they overlap it just follows the tables.
Observe ==
  committed' = IF req' = [r \in Requests |-> Idle] \/ Cardinality(Requests) > 1
               THEN tables' ELSE committed

Next == (Restart \/ \E r \in Requests : Arrive(r) \/ Continue(r)) /\ Observe

Spec == Init /\ [][Next]_vars

-----------------------------------------------------------------------------
(* What holds *)

Progress == {"done", "save", "findForQuote", "send", "reload", "verify", "lookup", "approveFiles",
             "sku", "number", "mark", "flags", "look", "issue", "cancel", "revise", "queue",
             "columns", "find", "findFile", "compare", "resync"}

TypeOK ==
  /\ ord \in Order
  /\ file \in [Files -> CadFileStatus]
  /\ lastCancelFrom \in OrderStatus \cup {None}
  /\ skuRow \in BOOLEAN
  /\ \A r \in Requests :
       /\ req[r].op \in Handlers \cup {None} /\ req[r].at \in Progress
       /\ req[r].row \in Order \cup {None} /\ req[r].from \in OrderStatus \cup {None}
       /\ req[r].ids \subseteq Files

\* Every order shown to its customer has the auto-archive clock running, also
\* when stale rows are saved over newer columns and requests die half-way.
SentOrdersHaveClock == ord.sentToCustomer => ord.awaitingApprovalSince

\* The sub-stage never claims an approval the order does not have, also then.
ApprovedStageHasApproval == ord.cadSubStatus = "APPROVED" => ord.customerEmailApproval

\* Run one at a time, each request has the effect of one step of OrderLifecycle:
\* what is proved there holds of the code as long as requests do not overlap.
Atomic == INSTANCE OrderLifecycle WITH
  ord <- committed[1], file <- committed[2], lastCancelFrom <- committed[3],
  before <- None, customerClosed <- FALSE

SerialIsAtomic ==
  /\ Atomic!Init
  /\ [][Atomic!StageStep \/ Atomic!ClosureStep \/ Atomic!RoutingStep \/ Atomic!CadStep]_committed

-----------------------------------------------------------------------------
(* What the comments say and overlapping requests do not keep *)

\* updateStatus: the transition guard prevents skipping stages.  Besides cancelling
\* and reactivating, a status only changes along the allowed transitions.
NoStageSkipping ==
  [][\A r \in Requests :
       Save(r) /\ req[r].op \in Movers \ {"Cancel", "ReactivateOrder"} =>
         ord'.status \in AllowedTransitions[ord.status] \cup {ord.status}]_vars

\* closeProjectByCustomer: the status is left exactly as it is.
ClosingKeepsStatus ==
  [][\A r \in Requests :
       Save(r) /\ req[r].op = "CloseProject" => ord'.status = ord.status]_vars

\* approve: an approved order that has issued its VPO has its SKU.
IssuedHasSku == ord.status = "VPO_ISSUED" => ord.kiraSkuNumber
=============================================================================
