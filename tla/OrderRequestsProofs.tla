------------------------ MODULE OrderRequestsProofs ------------------------
(***************************************************************************)
(* Proofs about OrderRequests, for any number of requests that overlap in  *)
(* any way, any choice of handlers and any restarts. The invariant says    *)
(* of every row in the memory of a request what it says of the stored      *)
(* one: a stale row that is saved is an old row, and it was consistent     *)
(* then. The second part is about requests that do not overlap: each then  *)
(* has the effect of one step of OrderLifecycle. Its invariant says how    *)
(* far the one request in flight has got in its handler. The third is      *)
(* about the promise of OrderStages, query by query: one request at a      *)
(* time keeps it even if the server restarts in the middle of any of       *)
(* them. The fourth is about requests that overlap and write named         *)
(* columns only: they keep it too.                                         *)
(***************************************************************************)
EXTENDS OrderRequests, OrderRowProofs, FiniteSetTheorems, TLAPS

-----------------------------------------------------------------------------
(* The invariant *)

Targets == CadFileStatus \cup DOMAIN SubStage \cup {None}
             \cup [cadSubStatus : CadSubStatus, sentToCustomer : BOOLEAN]

Request ==
  [op     : Handlers \cup {None},
   at     : Progress,
   row    : Order \cup {None},
   from   : OrderStatus \cup {None},
   target : Targets,
   ids    : SUBSET Files]

\* What a request carries, by the query it is at.
Carries(q) ==
  /\ q.at = "save" => GoodRow(q.row) /\ (q.op = "Cancel" => q.from \in OrderStatus)
  /\ q.op = "PublicApprove" => GoodRow(q.row)
  /\ q.at \in {"verify", "lookup", "reload", "approveFiles"} =>
       q.op \in Movers /\ q.from \in OrderStatus
  /\ q.at = "verify" => q.op \in {"IssueVpo", "MarkManufactured"}
  /\ q.at \in {"sku", "number"} =>
       q.op = "Approve" \/ (q.op = "IssueVpo" /\ q.from \in OrderStatus)
  /\ q.at \in {"findForQuote", "send"} => q.op \in {"SaveQuote", "StartCadWithPrice"}
  /\ q.at \in {"mark", "findFile"} => q.op \in DOMAIN AfterMark /\ q.target \in CadFileStatus
  /\ q.at = "look" => q.op \in {"Approve", "Reject", "SendForApproval", "UploadBatch"}
  /\ q.at = "cancel" => q.from \in OrderStatus
  /\ q.at = "columns" => q.target \in DOMAIN SubStage
  /\ q.at = "find" =>
       \/ q.op = "SendToCustomer"
       \/ q.op = "SetSubStage" /\ q.target \in CadFileStatus
  /\ q.at = "resync" => q.target \in ResyncTargets

RequestOK(q) == q \in Request /\ Carries(q)

TablesOK ==
  /\ GoodRow(ord)
  /\ file \in [Files -> CadFileStatus]
  /\ lastCancelFrom \in OrderStatus \cup {None}
  /\ skuRow \in BOOLEAN

RequestsOK == \A r \in Requests : RequestOK(req[r])

IInv == TablesOK /\ RequestsOK /\ req = [r \in Requests |-> req[r]]

-----------------------------------------------------------------------------
(* A request that goes on *)

\* A request that is done is well formed.
LEMMA IdleOK == RequestOK(Idle)
<1>1. None # "PublicApprove"
  <2>1. "PublicApprove" \in AllHandlers
    BY DEF AllHandlers, FileStatusSet
  <2> QED
    BY <2>1, RequestAssumption
<1>2. Idle \in Request
  BY DEF Request, Idle, Progress, Targets
<1>3. Carries(Idle)
  BY <1>1 DEF Carries, Idle
<1> QED
  BY <1>2, <1>3 DEF RequestOK

\* It is enough to look at the request that took the step.
LEMMA Proceeds ==
  ASSUME NEW r \in Requests, NEW q, RequestOK(q), Proceed(r, q),
         RequestsOK, req = [s \in Requests |-> req[s]]
  PROVE  RequestsOK' /\ (req = [s \in Requests |-> req[s]])'
BY DEF Proceed, RequestsOK

\* A request that finishes leaves the requests well formed.
LEMMA Finishes ==
  ASSUME NEW r \in Requests, Finish(r), RequestsOK, req = [s \in Requests |-> req[s]]
  PROVE  RequestsOK' /\ (req = [s \in Requests |-> req[s]])'
BY IdleOK, Proceeds DEF Finish

\* A step of one request keeps the invariant if its tables and its own new state do.
LEMMA Steps ==
  ASSUME NEW r \in Requests, NEW q, IInv, TablesOK',
         Finish(r) \/ (RequestOK(q) /\ Proceed(r, q))
  PROVE  IInv'
BY Proceeds, Finishes DEF IInv

\* Reading changes no table.
LEMMA Reads ==
  ASSUME TablesOK, UNCHANGED <<tables, skuRow>>
  PROVE  TablesOK'
BY DEF TablesOK, tables

-----------------------------------------------------------------------------
(* Rows changed in memory *)

\* A handler that saves the row it read makes a good row of a good one.
LEMMA SavedIsGood ==
  ASSUME NEW r, GoodRow(r), NEW op \in Savers, NEW row \in Saved(op, r)
  PROVE  GoodRow(row)
<1>1. CASE op \in {"CloseProject", "AutoArchive", "ReactivateClosedProject",
                   "ReactivateAutoArchived"}
  <2>1. CASE op = "CloseProject"
    BY <2>1, EffectsAreGood DEF Saved, When
  <2>2. CASE op = "AutoArchive"
    BY <2>2, EffectsAreGood DEF Saved, When
  <2>3. CASE op = "ReactivateClosedProject"
    BY <2>3, EffectsAreGood DEF Saved, When
  <2>4. CASE op = "ReactivateAutoArchived"
    BY <2>4, EffectsAreGood DEF Saved, When
  <2> QED
    BY <1>1, <2>1, <2>2, <2>3, <2>4
<1>2. CASE op = "AssignSupplier"
  <2>1. PICK f \in Factories, s \in SupplySources : row = Assigned(r, f, s)
    BY <1>2 DEF Saved
  <2>2. PICK t \in SupplySources \cup {None} :
          row = [r EXCEPT !.assignedFactory = f, !.supplySource = t]
    BY <2>1 DEF Assigned
  <2> QED
    BY <2>2 DEF GoodRow, Consistent, Order
<1>3. CASE op = "EditSupplier"
  <2>1. row \in Edited(r)
    BY <1>3 DEF Saved
  <2>2. CASE \E f \in Factories : row = [r EXCEPT !.assignedFactory = f]
    BY <2>2 DEF GoodRow, Consistent, Order
  <2>3. CASE \E s \in SupplySources : row = [r EXCEPT !.supplySource = s]
    BY <2>3 DEF GoodRow, Consistent, Order
  <2> QED
    BY <2>1, <2>2, <2>3 DEF Edited
<1>4. CASE op = "MarkStoneSent"
  <2>1. row = [r EXCEPT !.stoneReceived = TRUE]
    BY <1>4 DEF Saved, When
  <2> QED
    BY <2>1 DEF GoodRow, Consistent, Order
<1>5. CASE op = "CompleteManufacturing"
  BY <1>5, EffectsAreGood DEF Saved, When
<1>6. CASE op = "CompleteRepair"
  <2>1. row = [r EXCEPT !.status = "COMPLETED"]
    BY <1>6 DEF Saved, When
  <2> QED
    BY <2>1 DEF GoodRow, Consistent, Order, OrderStatus
<1>7. CASE op = "UpdateQuoteOptions"
  BY <1>7 DEF Saved
<1>8. CASE op = "SaveQuote"
  <2>1. row = [r EXCEPT !.quotedCost = TRUE]
    BY <1>8 DEF Saved
  <2> QED
    BY <2>1 DEF GoodRow, Consistent, Order
<1> QED
  BY <1>1, <1>2, <1>3, <1>4, <1>5, <1>6, <1>7, <1>8 DEF Savers

\* So does a change of status.
LEMMA MovedIsGood ==
  ASSUME NEW r, GoodRow(r), NEW op \in Movers, NEW resumed \in OrderStatus
  PROVE  GoodRow(Moved(op, r, resumed))
<1>1. CASE op \in {"StartCad", "SendToRepair"}
  <2>1. PICK s \in OrderStatus : Moved(op, r, resumed) = [r EXCEPT !.status = s]
    BY <1>1 DEF Moved, OrderStatus
  <2> QED
    BY <2>1 DEF GoodRow, Consistent, Order
<1>2. CASE op = "StartCadWithPrice"
  <2>1. Moved(op, r, resumed) = [r EXCEPT !.status = "CAD_IN_PROGRESS", !.quotedCost = TRUE]
    BY <1>2 DEF Moved
  <2> QED
    BY <2>1 DEF GoodRow, Consistent, Order, OrderStatus
<1>3. CASE op = "IssueVpo"
  <2>1. Moved(op, r, resumed) = [r EXCEPT !.status = "VPO_ISSUED", !.quotedCost = TRUE,
                                          !.vpoIssuedAt = TRUE]
    BY <1>3 DEF Moved
  <2> QED
    BY <2>1 DEF GoodRow, Consistent, Order, OrderStatus
<1>4. CASE op \in {"RevertToVpo", "RevertToCad", "MarkManufactured", "CompleteOrder", "Cancel"}
  BY <1>4, EffectsAreGood DEF Moved
<1>5. CASE op = "ReactivateOrder"
  <2>1. Moved(op, r, resumed) = [r EXCEPT !.status = resumed, !.isArchived = FALSE]
    BY <1>5 DEF Moved
  <2> QED
    BY <2>1 DEF GoodRow, Consistent, Order
<1> QED
  BY <1>1, <1>2, <1>3, <1>4, <1>5 DEF Movers

-----------------------------------------------------------------------------
(* save() *)

\* A handler that will save the row reads it;
LEMMA LoadKeeps ==
  ASSUME IInv, NEW r \in Requests, NEW op \in Savers, Load(r, op)
  PROVE  IInv'
<1>1. PICK row \in Saved(op, ord) : Proceed(r, [Idle EXCEPT !.op = op, !.at = "save", !.row = row])
  BY DEF Load
<1>2. GoodRow(row)
  BY SavedIsGood DEF IInv, TablesOK
<1>3. op \in Handlers /\ op # "Cancel"
  BY DEF Load, Free, Savers
<1>4. RequestOK([Idle EXCEPT !.op = op, !.at = "save", !.row = row])
  BY <1>2, <1>3, IdleOK DEF RequestOK, Request, Carries, Progress, GoodRow, Idle
<1> QED
  BY <1>1, <1>4, Steps, Reads DEF Load, IInv

\* Also the row of a request that began long ago.
LEMMA SaveKeeps ==
  ASSUME IInv, NEW r \in Requests, Save(r)
  PROVE  IInv'
<1> DEFINE q == req[r]
<1>1. RequestOK(q) /\ q.at = "save"
  BY DEF IInv, RequestsOK, Save
<1>2. TablesOK'
  <2>1. GoodRow(ord')
    BY <1>1 DEF Save, RequestOK, Carries
  <2>2. lastCancelFrom' \in OrderStatus \cup {None}
    BY <1>1 DEF Save, RequestOK, Carries, LogCancellation, IInv, TablesOK
  <2> QED
    BY <2>1, <2>2 DEF Save, IInv, TablesOK
<1>3. CASE SendsAlong(q)
  <2>1. RequestOK([q EXCEPT !.at = "findForQuote", !.row = None, !.from = None])
    <3>1. q.op \in {"SaveQuote", "StartCadWithPrice"}
      BY <1>3 DEF SendsAlong
    <3> HIDE DEF q
    <3> QED
      BY <1>1, <3>1 DEF RequestOK, Request, Carries, Progress
  <2> QED
    BY <1>2, <1>3, <2>1, Steps DEF Save
<1>4. CASE ~SendsAlong(q)
  BY <1>2, <1>4, Steps, IdleOK DEF Save
<1> QED
  BY <1>3, <1>4

\* one that saved a price reads the designs,
LEMMA FindForQuoteKeeps ==
  ASSUME IInv, NEW r \in Requests, FindForQuote(r)
  PROVE  IInv'
<1> DEFINE q == req[r]
           found == {f \in Files : file[f] \in {"UPLOADED", "SENT_FOR_APPROVAL"}}
           next == [q EXCEPT !.at = "send", !.ids = {f \in found : file[f] = "UPLOADED"}]
<1>1. RequestOK(q) /\ q.at = "findForQuote"
  BY DEF IInv, RequestsOK, FindForQuote
<1>2. RequestOK(next)
  <2>1. {f \in found : file[f] = "UPLOADED"} \in SUBSET Files
    OBVIOUS
  <2> HIDE DEF q, found
  <2> QED
    BY <1>1, <2>1 DEF RequestOK, Request, Carries, Progress
<1>3. Finish(r) \/ Proceed(r, next)
  BY DEF FindForQuote
<1> QED
  BY <1>2, <1>3, Steps, Reads DEF FindForQuote, IInv

\* and writes the columns of sending.
LEMMA AutoSendKeeps ==
  ASSUME IInv, NEW r \in Requests, AutoSend(r)
  PROVE  IInv'
<1> DEFINE q == req[r]
           next == [q EXCEPT !.at = "mark", !.target = "SENT_FOR_APPROVAL"]
<1>1. RequestOK(q) /\ q.at = "send"
  BY DEF IInv, RequestsOK, AutoSend
<1>2. RequestOK(next)
  <2> HIDE DEF q
  <2> QED
    BY <1>1 DEF RequestOK, Request, Carries, Progress, AfterMark, Targets, CadFileStatus
<1>3. Finish(r) \/ Proceed(r, next)
  BY DEF AutoSend
<1>4. TablesOK'
  BY EffectsAreGood DEF AutoSend, IInv, TablesOK
<1> QED
  BY <1>2, <1>3, <1>4, Steps

-----------------------------------------------------------------------------
(* updateStatus, reactivateOrder and the SKU *)

\* A move reads the order and checks the transition,
LEMMA CheckKeeps ==
  ASSUME IInv, NEW r \in Requests, NEW op \in Movers, Check(r, op)
  PROVE  IInv'
<1>1. PICK at \in {"lookup", "verify", "reload"} :
        /\ at = "verify" => op \in {"IssueVpo", "MarkManufactured"}
        /\ Proceed(r, [Idle EXCEPT !.op = op, !.at = at, !.from = ord.status])
  <2> DEFINE at == CASE op = "ReactivateOrder" -> "lookup"
                     [] op \in {"IssueVpo", "MarkManufactured"} -> "verify"
                     [] OTHER -> "reload"
  <2>1. at \in {"lookup", "verify", "reload"}
        /\ (at = "verify" => op \in {"IssueVpo", "MarkManufactured"})
    OBVIOUS
  <2>2. Proceed(r, [Idle EXCEPT !.op = op, !.at = at, !.from = ord.status])
    BY Zenon DEF Check
  <2> HIDE DEF at
  <2> QED
    BY <2>1, <2>2
<1>2. op \in Handlers /\ op # "PublicApprove"
  BY DEF Check, Free, Movers
<1>3. ord.status \in OrderStatus
  BY DEF IInv, TablesOK, GoodRow, Order
<1>4. RequestOK([Idle EXCEPT !.op = op, !.at = at, !.from = ord.status])
  <2> DEFINE status == ord.status
  <2>1. Idle \in Request
    BY IdleOK DEF RequestOK
  <2>2. status \in OrderStatus
    BY <1>3
  <2> HIDE DEF status
  <2>3. RequestOK([Idle EXCEPT !.op = op, !.at = at, !.from = status])
    BY <1>1, <1>2, <2>1, <2>2 DEF RequestOK, Request, Carries, Progress
  <2> QED
    BY <2>3 DEF status
<1> QED
  BY <1>1, <1>4, Steps, Reads DEF Check, IInv

\* The steps that only move on: verify, look up, approve files, insert the SKU.
LEMMA MovesOn ==
  ASSUME NEW q, RequestOK(q), NEW at \in {"approveFiles", "sku", "reload"},
         q.op \in Movers, q.from \in OrderStatus, at = "sku" => q.op = "IssueVpo"
  PROVE  RequestOK([q EXCEPT !.at = at])
<1>1. q.op # "PublicApprove"
  BY DEF Movers
<1> QED
  BY <1>1 DEF RequestOK, Request, Carries, Progress

\* reads the order once more for what issuing or manufacturing needs,
LEMMA VerifyKeeps ==
  ASSUME IInv, NEW r \in Requests, Verify(r)
  PROVE  IInv'
<1> DEFINE q == req[r]
<1>1. RequestOK(q) /\ q.at = "verify"
  BY DEF IInv, RequestsOK, Verify
<1>2. q.op \in Movers /\ q.from \in OrderStatus
  BY <1>1 DEF RequestOK, Carries
<1>3. Finish(r) \/ \E at \in {"approveFiles", "sku", "reload"} :
        Proceed(r, [q EXCEPT !.at = at]) /\ (at = "sku" => q.op = "IssueVpo")
  BY DEF Verify
<1> QED
  BY <1>1, <1>2, <1>3, MovesOn, Steps, Reads DEF Verify, IInv

\* looks up the cancellation it undoes,
LEMMA LookUpKeeps ==
  ASSUME IInv, NEW r \in Requests, LookUp(r)
  PROVE  IInv'
<1> DEFINE q == req[r]
           resumed == IF lastCancelFrom = None THEN "NEW" ELSE lastCancelFrom
           next == [q EXCEPT !.at = "reload", !.from = resumed]
<1>1. RequestOK(q) /\ q.at = "lookup" /\ q.op = "ReactivateOrder"
  BY DEF IInv, RequestsOK, LookUp, Ready
<1>2. resumed \in OrderStatus
  BY DEF IInv, TablesOK, OrderStatus
<1>3. RequestOK(next)
  <2> HIDE DEF q, resumed
  <2> QED
    BY <1>1, <1>2 DEF RequestOK, Request, Carries, Progress
<1>4. Proceed(r, next)
  BY DEF LookUp
<1> QED
  BY <1>3, <1>4, Steps, Reads DEF LookUp, IInv

\* and reads the row that update() will save.
LEMMA ReloadKeeps ==
  ASSUME IInv, NEW r \in Requests, Reload(r)
  PROVE  IInv'
<1> DEFINE q == req[r]
           row == Moved(q.op, ord, q.from)
           next == [q EXCEPT !.at = "save", !.row = row]
<1>1. RequestOK(q) /\ q.at = "reload"
  BY DEF IInv, RequestsOK, Reload
<1>2. q.op \in Movers /\ q.from \in OrderStatus
  BY <1>1 DEF RequestOK, Carries
<1>3. GoodRow(row)
  BY <1>2, MovedIsGood DEF IInv, TablesOK
<1>4. RequestOK(next)
  <2> HIDE DEF q, row
  <2> QED
    BY <1>1, <1>2, <1>3 DEF RequestOK, Request, Carries, Progress, GoodRow
<1>5. Finish(r) \/ Proceed(r, next)
  BY DEF Reload
<1> QED
  BY <1>4, <1>5, Steps, Reads DEF Reload, IInv

\* Issuing approves the designs that were sent,
LEMMA ApproveFilesKeeps ==
  ASSUME IInv, NEW r \in Requests, ApproveFiles(r)
  PROVE  IInv'
<1> DEFINE q == req[r]
<1>1. RequestOK(q) /\ q.at = "approveFiles"
  BY DEF IInv, RequestsOK, ApproveFiles, Ready
<1>2. q.op \in Movers /\ q.from \in OrderStatus
  BY <1>1 DEF RequestOK, Carries
<1>3. TablesOK'
  BY BumpedFiles DEF ApproveFiles, IInv, TablesOK, CadFileStatus
<1> QED
  BY <1>1, <1>2, <1>3, MovesOn, Steps DEF ApproveFiles

\* inserts the SKU,
LEMMA InsertSkuKeeps ==
  ASSUME IInv, NEW r \in Requests, InsertSku(r)
  PROVE  IInv'
<1> DEFINE q == req[r]
           next == [q EXCEPT !.at = "number"]
<1>1. RequestOK(q) /\ q.at = "sku"
  BY DEF IInv, RequestsOK, InsertSku
<1>2. RequestOK(next)
  <2> HIDE DEF q
  <2> QED
    BY <1>1 DEF RequestOK, Request, Carries, Progress
<1>3. Finish(r) \/ Proceed(r, next)
  BY DEF InsertSku
<1>4. TablesOK'
  BY DEF InsertSku, IInv, TablesOK, tables
<1> QED
  BY <1>2, <1>3, <1>4, Steps

\* and stores its number in the order.
LEMMA StoreSkuKeeps ==
  ASSUME IInv, NEW r \in Requests, StoreSku(r)
  PROVE  IInv'
<1> DEFINE q == req[r]
<1>1. RequestOK(q) /\ q.at = "number"
  BY DEF IInv, RequestsOK, StoreSku
<1>2. TablesOK'
  <2>1. GoodRow([ord EXCEPT !.kiraSkuNumber = TRUE])
    BY DEF IInv, TablesOK, GoodRow, Consistent, Order
  <2> QED
    BY <2>1 DEF StoreSku, IInv, TablesOK
<1>3. CASE q.op = "IssueVpo"
  <2>1. q.op \in Movers /\ q.from \in OrderStatus
    BY <1>1, <1>3 DEF RequestOK, Carries, Movers
  <2>2. Proceed(r, [q EXCEPT !.at = "approveFiles"])
    BY <1>3 DEF StoreSku
  <2> QED
    BY <1>1, <1>2, <2>1, <2>2, MovesOn, Steps
<1>4. CASE q.op # "IssueVpo"
  <2>1. q.op = "Approve"
    BY <1>1, <1>4 DEF RequestOK, Carries
  <2>2. RequestOK([q EXCEPT !.at = "issue"])
    <3> HIDE DEF q
    <3> QED
      BY <1>1, <2>1 DEF RequestOK, Request, Carries, Progress
  <2>3. Proceed(r, [q EXCEPT !.at = "issue"])
    BY <1>4 DEF StoreSku
  <2> QED
    BY <1>2, <2>2, <2>3, Steps
<1> QED
  BY <1>3, <1>4

-----------------------------------------------------------------------------
(* Design files *)

\* The status a handler gives its file is one of the enumeration.
LEMMA FileStatuses ==
  ASSUME NEW op \in DOMAIN FileStatusSet
  PROVE  FileStatusSet[op] \in CadFileStatus /\ op \in DOMAIN AfterMark
BY DEF FileStatusSet, AfterMark, CadFileStatus

\* A handler of one design finds it;
LEMMA FindFileKeeps ==
  ASSUME IInv, NEW r \in Requests, NEW op \in DOMAIN FileStatusSet, NEW f \in Files,
         FindFile(r, op, f)
  PROVE  IInv'
<1> DEFINE status == FileStatusSet[op]
           next == [Idle EXCEPT !.op = op, !.at = "mark", !.ids = {f}, !.target = status]
<1>1. status \in CadFileStatus /\ op \in DOMAIN AfterMark
  BY FileStatuses
<1>2. Idle \in Request /\ op \in Handlers /\ op # "PublicApprove"
  BY IdleOK DEF RequestOK, FindFile, Free
<1>3. RequestOK(next)
  <2>1. {f} \in SUBSET Files /\ status \in Targets
    BY <1>1 DEF Targets
  <2> HIDE DEF status
  <2> QED
    BY <1>1, <1>2, <2>1 DEF RequestOK, Request, Carries, Progress
<1>4. Proceed(r, next)
  BY DEF FindFile
<1> QED
  BY <1>3, <1>4, Steps, Reads DEF FindFile, IInv

\* The tracking page holds on to the order it read, with the approval set.
LEMMA FindOrderKeeps ==
  ASSUME IInv, NEW r \in Requests, NEW f \in Files, FindOrder(r, f)
  PROVE  IInv'
<1> DEFINE row == [ord EXCEPT !.customerEmailApproval = TRUE]
           next == [Idle EXCEPT !.op = "PublicApprove", !.at = "findFile", !.ids = {f},
                                !.target = "APPROVED", !.row = row]
<1>1. GoodRow(row)
  BY DEF IInv, TablesOK, GoodRow, Consistent, Order
<1>2. Idle \in Request /\ "PublicApprove" \in Handlers
  BY IdleOK DEF RequestOK, FindOrder, Free
<1>3. RequestOK(next)
  <2>1. /\ {f} \in SUBSET Files /\ row \in Order /\ "APPROVED" \in CadFileStatus
        /\ "APPROVED" \in Targets /\ "PublicApprove" \in DOMAIN AfterMark
    BY <1>1 DEF GoodRow, CadFileStatus, Targets, AfterMark
  <2> HIDE DEF row
  <2> QED
    BY <1>1, <1>2, <2>1 DEF RequestOK, Request, Carries, Progress
<1>4. Proceed(r, next)
  BY DEF FindOrder, FileStatusSet
<1> QED
  BY <1>3, <1>4, Steps, Reads DEF FindOrder, IInv

\* the tracking page does so after it read the order.
LEMMA FindFileOfOrderKeeps ==
  ASSUME IInv, NEW r \in Requests, FindFileOfOrder(r)
  PROVE  IInv'
<1> DEFINE q == req[r]
           next == [q EXCEPT !.at = "mark"]
<1>1. RequestOK(q) /\ q.at = "findFile"
  BY DEF IInv, RequestsOK, FindFileOfOrder
<1>2. RequestOK(next)
  <2> HIDE DEF q
  <2> QED
    BY <1>1 DEF RequestOK, Request, Carries, Progress
<1>3. Finish(r) \/ Proceed(r, next)
  BY DEF FindFileOfOrder
<1> QED
  BY <1>2, <1>3, Steps, Reads DEF FindFileOfOrder, IInv

\* The status of the designs is written,
LEMMA MarkKeeps ==
  ASSUME IInv, NEW r \in Requests, Mark(r)
  PROVE  IInv'
<1> DEFINE q == req[r]
           next == [q EXCEPT !.at = AfterMark[q.op], !.ids = {}, !.target = None]
<1>1. RequestOK(q) /\ q.at = "mark"
  BY DEF IInv, RequestsOK, Mark
<1>2. q.op \in DOMAIN AfterMark /\ q.target \in CadFileStatus
  BY <1>1 DEF RequestOK, Carries
<1>3. TablesOK'
  BY <1>2 DEF Mark, IInv, TablesOK
<1>4. ASSUME AfterMark[q.op] # "done"
      PROVE  RequestOK(next)
  <2> DEFINE at == AfterMark[q.op]
  <2>1. \/ q.op = "PublicApprove" /\ at = "save"
        \/ q.op = "Approve" /\ at = "flags"
        \/ q.op \in {"Reject", "SendForApproval"} /\ at = "look"
        \/ q.op = "RequestRevision" /\ at = "revise"
    BY <1>2, <1>4 DEF AfterMark
  <2>2. None \in Targets /\ {} \in SUBSET Files
    BY DEF Targets
  <2> HIDE DEF q, at
  <2>3. RequestOK([q EXCEPT !.at = at, !.ids = {}, !.target = None])
    BY <1>1, <2>1, <2>2 DEF RequestOK, Request, Carries, Progress
  <2> QED
    BY <2>3 DEF at
<1>5. Finish(r) \/ (AfterMark[q.op] # "done" /\ Proceed(r, next))
  BY DEF Mark
<1> QED
  BY <1>3, <1>4, <1>5, Steps

\* the flags of an approval are,
LEMMA FlagKeeps ==
  ASSUME IInv, NEW r \in Requests, Flag(r)
  PROVE  IInv'
<1> DEFINE q == req[r]
           next == [q EXCEPT !.at = "look"]
<1>1. RequestOK(q) /\ q.op = "Approve"
  BY DEF IInv, RequestsOK, Flag, Ready
<1>2. RequestOK(next)
  <2> HIDE DEF q
  <2> QED
    BY <1>1 DEF RequestOK, Request, Carries, Progress
<1>3. TablesOK'
  BY EffectsAreGood DEF Flag, IInv, TablesOK
<1> QED
  BY <1>2, <1>3, Steps DEF Flag

\* and the order is looked at once more.
LEMMA LookKeeps ==
  ASSUME IInv, NEW r \in Requests, Look(r)
  PROVE  IInv'
<1> DEFINE q == req[r]
<1>1. RequestOK(q) /\ q.at = "look"
  BY DEF IInv, RequestsOK, Look
<1>2. q.op \in {"Approve", "Reject", "SendForApproval", "UploadBatch"}
  BY <1>1 DEF RequestOK, Carries
<1>3. TablesOK'
  BY Reads DEF Look, IInv
<1>4. CASE q.op = "Approve"
  <2>1. PICK at \in {"issue", "sku"} : Proceed(r, [q EXCEPT !.at = at])
    BY <1>4 DEF Look
  <2>2. RequestOK([q EXCEPT !.at = at])
    <3> HIDE DEF q
    <3> QED
      BY <1>1, <1>4 DEF RequestOK, Request, Carries, Progress
  <2> QED
    BY <1>3, <2>1, <2>2, Steps
<1>5. CASE q.op = "Reject"
  <2> DEFINE status == ord.status
  <2>1. Proceed(r, [q EXCEPT !.at = "cancel", !.from = status])
    BY <1>5 DEF Look
  <2>2. status \in OrderStatus
    BY DEF IInv, TablesOK, GoodRow, Order
  <2>3. RequestOK([q EXCEPT !.at = "cancel", !.from = status])
    <3> HIDE DEF q, status
    <3> QED
      BY <1>1, <1>5, <2>2 DEF RequestOK, Request, Carries, Progress
  <2> QED
    BY <1>3, <2>1, <2>3, Steps
<1>6. CASE q.op \in {"SendForApproval", "UploadBatch"}
  <2>1. Finish(r) \/ Proceed(r, [q EXCEPT !.at = "queue"])
    BY <1>6 DEF Look
  <2>2. RequestOK([q EXCEPT !.at = "queue"])
    <3> HIDE DEF q
    <3> QED
      BY <1>1, <1>6 DEF RequestOK, Request, Carries, Progress
  <2> QED
    BY <1>3, <2>1, <2>2, Steps
<1> QED
  BY <1>2, <1>4, <1>5, <1>6

\* The last query of a request writes the order.
LEMMA LastWritesKeep ==
  ASSUME IInv, NEW r \in Requests,
         Issue(r) \/ CancelRejected(r) \/ Revise(r) \/ Queue(r) \/ Resync(r)
  PROVE  IInv'
<1> DEFINE q == req[r]
<1>1. RequestOK(q) /\ GoodRow(ord) /\ TablesOK
  BY DEF IInv, RequestsOK, TablesOK
<1>2. CASE Issue(r)
  <2>1. GoodRow([ord EXCEPT !.status = "VPO_ISSUED", !.vpoIssuedAt = TRUE])
    BY <1>1 DEF GoodRow, Consistent, Order, OrderStatus
  <2> QED
    BY <1>1, <1>2, <2>1, Steps, IdleOK DEF Issue, TablesOK
<1>3. CASE CancelRejected(r)
  <2>1. lastCancelFrom' \in OrderStatus \cup {None}
    BY <1>1, <1>3 DEF CancelRejected, Ready, LogCancellation, RequestOK, Carries, TablesOK
  <2> QED
    BY <1>1, <1>3, <2>1, EffectsAreGood, Steps, IdleOK DEF CancelRejected, TablesOK
<1>4. CASE Revise(r)
  BY <1>1, <1>4, EffectsAreGood, Steps, IdleOK DEF Revise, TablesOK
<1>5. CASE Queue(r)
  <2>1. PICK s \in OrderStatus : ord' = [ord EXCEPT !.cadSubStatus = "UPLOADED", !.status = s]
    BY <1>1, <1>5 DEF Queue, GoodRow, Order, OrderStatus
  <2>2. GoodRow(ord')
    BY <1>1, <2>1 DEF GoodRow, Consistent, Order, CadSubStatus
  <2> QED
    BY <1>1, <1>5, <2>2, Steps, IdleOK DEF Queue, TablesOK
<1>6. CASE Resync(r)
  <2>1. q.target \in ResyncTargets
    BY <1>1, <1>6 DEF Resync, Ready, RequestOK, Carries
  <2> QED
    BY <1>1, <1>6, <2>1, ResyncedIsGood, Steps, IdleOK DEF Resync, TablesOK
<1> QED
  BY <1>2, <1>3, <1>4, <1>5, <1>6

\* An upload inserts its designs.
LEMMA UploadKeeps ==
  ASSUME IInv, NEW r \in Requests, Upload(r)
  PROVE  IInv'
<1> DEFINE next == [Idle EXCEPT !.op = "UploadBatch", !.at = "look"]
<1>1. RequestOK(next)
  BY IdleOK DEF Upload, Free, RequestOK, Request, Carries, Progress
<1>2. TablesOK'
  BY DEF Upload, IInv, TablesOK, CadFileStatus
<1>3. Proceed(r, next)
  BY DEF Upload
<1> QED
  BY <1>1, <1>2, <1>3, Steps

\* Sending writes the columns of sending.
LEMMA SendKeeps ==
  ASSUME IInv, NEW r \in Requests, Send(r)
  PROVE  IInv'
<1> DEFINE next == [Idle EXCEPT !.op = "SendToCustomer", !.at = "find"]
<1>1. RequestOK(next)
  BY IdleOK DEF Send, Free, RequestOK, Request, Carries, Progress
<1>2. TablesOK'
  BY EffectsAreGood DEF Send, IInv, TablesOK
<1>3. Proceed(r, next)
  BY DEF Send
<1> QED
  BY <1>1, <1>2, <1>3, Steps

\* A correction checks the status,
LEMMA CheckSubStageKeeps ==
  ASSUME IInv, NEW r \in Requests, NEW name \in DOMAIN SubStage, CheckSubStage(r, name)
  PROVE  IInv'
<1> DEFINE status == ord.status
           next == [Idle EXCEPT !.op = "SetSubStage", !.at = "columns", !.target = name,
                                !.from = status]
<1>1. status \in OrderStatus /\ name \in Targets
  BY DEF IInv, TablesOK, GoodRow, Order, Targets
<1>2. "SetSubStage" \in Handlers
  BY DEF CheckSubStage, Free
<1>3. RequestOK(next)
  <2> HIDE DEF status
  <2> QED
    BY <1>1, <1>2, IdleOK DEF RequestOK, Request, Carries, Progress
<1>4. Proceed(r, next)
  BY DEF CheckSubStage
<1> QED
  BY <1>3, <1>4, Steps, Reads DEF CheckSubStage, IInv

\* writes the columns,
LEMMA SetColumnsKeeps ==
  ASSUME IInv, NEW r \in Requests, SetColumns(r)
  PROVE  IInv'
<1> DEFINE q == req[r]
           status == SubStage[q.target].fileStatus
           next == [q EXCEPT !.at = "find", !.target = status]
<1>1. RequestOK(q) /\ q.op = "SetSubStage" /\ q.target \in DOMAIN SubStage
  BY DEF IInv, RequestsOK, SetColumns, Ready, RequestOK, Carries
<1>2. status \in CadFileStatus
  BY <1>1, SubStageColumns
<1>3. RequestOK(next)
  <2>1. status \in Targets
    BY <1>2 DEF Targets
  <2> HIDE DEF q, status
  <2> QED
    BY <1>1, <1>2, <2>1 DEF RequestOK, Request, Carries, Progress
<1>4. GoodRow(ord')
  <2> DEFINE row == InSubStage(ord, SubStage[q.target])
  <2>1. GoodRow(row)
    BY <1>1, EffectsAreGood DEF IInv, TablesOK
  <2>2. PICK issued \in BOOLEAN : ord' = [row EXCEPT !.vpoIssuedAt = issued]
    <3>1. (IF q.from = "VPO_ISSUED" THEN FALSE ELSE ord.vpoIssuedAt) \in BOOLEAN
      BY DEF IInv, TablesOK, GoodRow, Order
    <3> QED
      BY <3>1 DEF SetColumns
  <2> HIDE DEF row
  <2> QED
    BY <2>1, <2>2 DEF GoodRow, Consistent, Order
<1>5. TablesOK'
  BY <1>4 DEF SetColumns, IInv, TablesOK
<1>6. Proceed(r, next)
  BY DEF SetColumns
<1> QED
  BY <1>3, <1>5, <1>6, Steps

\* and reads the designs it will rewrite.
LEMMA FindFilesKeeps ==
  ASSUME IInv, NEW r \in Requests, FindFiles(r)
  PROVE  IInv'
<1> DEFINE q == req[r]
<1>1. RequestOK(q) /\ q.at = "find"
  BY DEF IInv, RequestsOK, FindFiles
<1>2. Finish(r) \/ \E found \in SUBSET Files :
        \/ q.op = "SendToCustomer"
             /\ Proceed(r, [q EXCEPT !.at = "mark", !.ids = found, !.target = "SENT_FOR_APPROVAL"])
        \/ q.op # "SendToCustomer"
             /\ Proceed(r, [q EXCEPT !.at = "mark", !.ids = found, !.target = q.target])
  BY DEF FindFiles, ExistingFiles
<1>3. ASSUME NEW found \in SUBSET Files, q.op = "SendToCustomer"
      PROVE  RequestOK([q EXCEPT !.at = "mark", !.ids = found, !.target = "SENT_FOR_APPROVAL"])
  <2>1. "SENT_FOR_APPROVAL" \in CadFileStatus /\ "SENT_FOR_APPROVAL" \in Targets
        /\ "SendToCustomer" \in DOMAIN AfterMark
    BY DEF CadFileStatus, Targets, AfterMark
  <2> HIDE DEF q
  <2> QED
    BY <1>1, <1>3, <2>1 DEF RequestOK, Request, Carries, Progress
<1>4. ASSUME NEW found \in SUBSET Files, q.op # "SendToCustomer"
      PROVE  RequestOK([q EXCEPT !.at = "mark", !.ids = found, !.target = q.target])
  <2>1. "SetSubStage" \in DOMAIN AfterMark
    BY DEF AfterMark
  <2> HIDE DEF q
  <2> QED
    BY <1>1, <1>4, <2>1 DEF RequestOK, Request, Carries, Progress
<1>5. TablesOK'
  BY Reads DEF FindFiles, IInv
<1> QED
  BY <1>2, <1>3, <1>4, <1>5, Steps

\* The resync reads the orders in CAD,
LEMMA StartReconcileKeeps ==
  ASSUME IInv, NEW r \in Requests, StartReconcile(r)
  PROVE  IInv'
<1> DEFINE stage == StageColumns(ord)
           next == [Idle EXCEPT !.op = "Reconcile", !.at = "compare", !.target = stage]
<1>1. stage \in Targets
  BY DEF IInv, TablesOK, GoodRow, Order, StageColumns, Targets
<1>2. "Reconcile" \in Handlers
  BY DEF StartReconcile, Free
<1>3. RequestOK(next)
  <2> HIDE DEF stage
  <2> QED
    BY <1>1, <1>2, IdleOK DEF RequestOK, Request, Carries, Progress
<1>4. Proceed(r, next)
  BY DEF StartReconcile
<1> QED
  BY <1>3, <1>4, Steps, Reads DEF StartReconcile, IInv

\* and compares each with its designs.
LEMMA CompareKeeps ==
  ASSUME IInv, NEW r \in Requests, Compare(r)
  PROVE  IInv'
<1> DEFINE q == req[r]
<1>1. RequestOK(q) /\ q.op = "Reconcile"
  BY DEF IInv, RequestsOK, Compare, Ready
<1>2. Finish(r) \/ \E target \in ResyncTargets :
        Proceed(r, [q EXCEPT !.at = "resync", !.target = target])
  BY TargetsOfFiles DEF Compare
<1>3. ASSUME NEW target \in ResyncTargets
      PROVE  RequestOK([q EXCEPT !.at = "resync", !.target = target])
  <2>1. target \in Targets
    BY DEF Targets, ResyncTargets
  <2> HIDE DEF q
  <2> QED
    BY <1>1, <2>1 DEF RequestOK, Request, Carries, Progress
<1>4. TablesOK'
  BY Reads DEF Compare, IInv
<1> QED
  BY <1>2, <1>3, <1>4, Steps

-----------------------------------------------------------------------------
(* The theorems *)

\* The invariant holds when the server starts.
LEMMA Starts == Init => IInv
<1> SUFFICES ASSUME Init PROVE IInv
  OBVIOUS
<1>1. PICK o \in Origins, quoted \in BOOLEAN, m \in BOOLEAN : ord = CreatedOrder(o, quoted, m)
  BY RowAssumption DEF Init
<1>2. ord \in Order
  BY <1>1, CreatedIsOrder
<1>3. Consistent(ord)
  BY <1>1, RowAssumption DEF CreatedOrder, Consistent
<1>4. TablesOK
  BY <1>2, <1>3 DEF Init, TablesOK, GoodRow, CadFileStatus
<1> QED
  BY <1>4, IdleOK DEF Init, IInv, RequestsOK

\* A restart forgets the requests and may clear a supplier.
LEMMA RestartKeeps ==
  ASSUME IInv, Restart
  PROVE  IInv'
<1>1. GoodRow(ord')
  BY DEF Restart, IInv, TablesOK, GoodRow, Consistent, Order
<1> QED
  BY <1>1, IdleOK DEF Restart, IInv, TablesOK, RequestsOK

\* A request that arrives keeps it,
LEMMA ArriveKeeps ==
  ASSUME IInv, NEW r \in Requests, Arrive(r)
  PROVE  IInv'
BY LoadKeeps, CheckKeeps, FindFileKeeps, FindOrderKeeps, UploadKeeps, SendKeeps,
   CheckSubStageKeeps, StartReconcileKeeps
DEF Arrive

\* one that goes on keeps it,
LEMMA ContinueKeeps ==
  ASSUME IInv, NEW r \in Requests, Continue(r)
  PROVE  IInv'
BY SaveKeeps, FindForQuoteKeeps, AutoSendKeeps, VerifyKeeps, LookUpKeeps, ReloadKeeps,
   ApproveFilesKeeps, InsertSkuKeeps, StoreSkuKeeps, FindFileOfOrderKeeps, MarkKeeps,
   FlagKeeps, LookKeeps, LastWritesKeep, SetColumnsKeeps, FindFilesKeeps, CompareKeeps
DEF Continue

\* and so does every step: it is inductive.
LEMMA StepKeeps == IInv /\ [Next]_vars => IInv'
<1> SUFFICES ASSUME IInv, [Next]_vars PROVE IInv'
  OBVIOUS
<1>1. CASE Restart
  BY <1>1, RestartKeeps
<1>2. ASSUME NEW r \in Requests, Arrive(r) \/ Continue(r)
      PROVE  IInv'
  BY <1>2, ArriveKeeps, ContinueKeeps
<1>3. CASE UNCHANGED vars
  BY <1>3 DEF vars, IInv, TablesOK, RequestsOK
<1> QED
  BY <1>1, <1>2, <1>3 DEF Next

\* The tables and every request in flight are well formed and consistent.
THEOREM Inductive == Spec => []IInv
BY Starts, StepKeeps, PTL DEF Spec

\* Every reachable state is well typed.
THEOREM TypeCorrect == Spec => []TypeOK
<1>1. IInv => TypeOK
  BY DEF IInv, TablesOK, RequestsOK, RequestOK, Request, GoodRow, TypeOK
<1> QED
  BY <1>1, Inductive, PTL

\* However many requests overlap, whatever stale rows they save and wherever a
\* restart cuts them off, an order that is shown to its customer has the clock
\* that the nightly archive looks for.
THEOREM ClockSafe == Spec => []SentOrdersHaveClock
<1>1. IInv => SentOrdersHaveClock
  BY DEF IInv, TablesOK, GoodRow, Consistent, SentOrdersHaveClock
<1> QED
  BY <1>1, Inductive, PTL

\* Likewise the stage APPROVED always comes with the customer's approval.
THEOREM ApprovalSafe == Spec => []ApprovedStageHasApproval
<1>1. IInv => ApprovedStageHasApproval
  BY DEF IInv, TablesOK, GoodRow, Consistent, ApprovedStageHasApproval
<1> QED
  BY <1>1, Inductive, PTL

-----------------------------------------------------------------------------
(* One request at a time *)

\* The row, the files and the log as they were when the request began.
Was == committed[1]
WasFile == committed[2]
WasLog == committed[3]

\* The tables hold this row and these files, and the request has logged nothing.
Hold(row, files) == ord = row /\ file = files /\ lastCancelFrom = WasLog

Untouched == Hold(Was, WasFile)

\* A handler that saves the row it read is about to.
Saving(q) == q.op \in Savers /\ q.at = "save" /\ q.row \in Saved(q.op, Was) /\ Untouched

\* The tracking page approves: before the file is written, and after.
ApprovingInPublic(q) ==
  /\ q.op = "PublicApprove" /\ q.row = [Was EXCEPT !.customerEmailApproval = TRUE]
  /\ \E f \in Files :
       \/ /\ q.at \in {"findFile", "mark"} /\ q.ids = {f} /\ q.target = "APPROVED"
          /\ q.at = "mark" => WasFile[f] # "ABSENT"
          /\ Untouched
       \/ /\ q.at = "save" /\ WasFile[f] # "ABSENT"
          /\ Hold(Was, [WasFile EXCEPT ![f] = "APPROVED"])

HasSupplier(r) == r.assignedFactory # None /\ (NeedsStoneSupplier(r) => r.supplySource # None)

\* What the log says a reactivated order comes back to.
Resumed == IF WasLog = None THEN "NEW" ELSE WasLog

\* A change of status other than the VPO's.
Moving(q) ==
  /\ q.op \in Movers \ {"IssueVpo"} /\ Permitted(q.op, Was) /\ Untouched
  /\ \/ q.at = "lookup" /\ q.op = "ReactivateOrder"
     \/ q.at = "verify" /\ q.op = "MarkManufactured" /\ q.from = Was.status
     \/ /\ q.at \in {"reload", "save"}
        /\ q.from = IF q.op = "ReactivateOrder" THEN Resumed ELSE Was.status
        /\ q.op = "MarkManufactured" => HasSupplier(Was)
        /\ q.at = "save" => q.row = Moved(q.op, Was, q.from)

WithSku(r) == [r EXCEPT !.kiraSkuNumber = TRUE]

\* Staff issue the VPO: the SKU, the files, the row.
Issuing(q) ==
  /\ q.op = "IssueVpo" /\ Was.status = "CAD_IN_PROGRESS"
  /\ \/ q.at \in {"verify", "sku", "number"} /\ Untouched
     \/ q.at = "approveFiles" /\ Hold(WithSku(Was), WasFile)
     \/ /\ q.at \in {"reload", "save"}
        /\ Hold(WithSku(Was), Bumped(WasFile, "SENT_FOR_APPROVAL", "APPROVED"))
        /\ q.at = "save" => q.row = Issued(Was)

\* The row as it is saved with a price.
Quoted(op) ==
  IF op = "SaveQuote" THEN [Was EXCEPT !.quotedCost = TRUE]
  ELSE [Was EXCEPT !.status = "CAD_IN_PROGRESS", !.quotedCost = TRUE]

Uploads == {f \in Files : WasFile[f] = "UPLOADED"}

\* The price is saved, the designs are on their way.
Quoting(q) ==
  /\ q.op \in {"SaveQuote", "StartCadWithPrice"}
  /\ q.op = "StartCadWithPrice" => Was.status = "NEW"
  /\ Quoted(q.op).status = "CAD_IN_PROGRESS"
  /\ ~Was.customerEmailApproval /\ ~Was.sentToCustomer
  /\ \/ q.at = "findForQuote" /\ Hold(Quoted(q.op), WasFile)
     \/ /\ q.at \in {"send", "mark"} /\ q.ids = Uploads
        /\ \E f \in Files : WasFile[f] \in {"UPLOADED", "SENT_FOR_APPROVAL"}
        /\ q.at = "send" => Hold(Quoted(q.op), WasFile)
        /\ q.at = "mark" => q.target = "SENT_FOR_APPROVAL" /\ Hold(Sent(Quoted(q.op)), WasFile)

FileHandlers == DOMAIN FileStatusSet \ {"PublicApprove"}

\* The file was found.
Marking(q) ==
  /\ q.op \in FileHandlers /\ q.at = "mark" /\ Untouched
  /\ q.target = FileStatusSet[q.op]
  /\ \E f \in Files : q.ids = {f} /\ WasFile[f] # "ABSENT"

\* The file is written, the order's turn has come.
Marked(q) ==
  \E f \in Files :
    /\ WasFile[f] # "ABSENT" /\ lastCancelFrom = WasLog
    /\ q.op \in FileHandlers /\ file = [WasFile EXCEPT ![f] = FileStatusSet[q.op]]
    /\ \/ q.op = "Approve" /\ q.at = "flags" /\ ord = Was
       \/ q.op = "Approve" /\ q.at = "look" /\ ord = ApprovalFlagged(Was)
       \/ /\ q.op = "Approve" /\ q.at \in {"sku", "number"} /\ ord = ApprovalFlagged(Was)
          /\ ~Was.kiraSkuNumber
       \/ q.op = "Approve" /\ q.at = "issue" /\ ord = WithSku(ApprovalFlagged(Was))
       \/ q.op = "Reject" /\ q.at = "look" /\ ord = Was
       \/ q.op = "Reject" /\ q.at = "cancel" /\ q.from = Was.status /\ ord = Was
       \/ q.op = "RequestRevision" /\ q.at = "revise" /\ ord = Was
       \/ q.op = "SendForApproval" /\ q.at = "look" /\ ord = Was
       \/ q.op = "SendForApproval" /\ q.at = "queue" /\ ord = Was /\ Was.status \in PreVpoStatuses

\* The newest design is stored.
Uploading(q) ==
  LET newest == IF \E f \in Files : WasFile[f] # "ABSENT" THEN Latest(WasFile) ELSE 0
  IN  /\ q.op = "UploadBatch" /\ newest + 1 \in Files
      /\ Hold(Was, [WasFile EXCEPT ![newest + 1] = "UPLOADED"])
      /\ q.at = "look" \/ (q.at = "queue" /\ Was.status \in PreVpoStatuses)

\* The order is sent, its files are not yet.
Sending(q) ==
  /\ q.op = "SendToCustomer" /\ Hold(Sent(Was), WasFile)
  /\ \/ q.at = "find"
     \/ q.at = "mark" /\ q.ids = Uploads /\ q.target = "SENT_FOR_APPROVAL"

\* The sub-stage is set by hand: before the columns are written, and after.
Staging(q) ==
  /\ q.op = "SetSubStage" /\ Was.status \in {"CAD_IN_PROGRESS", "VPO_ISSUED"}
  /\ \E name \in DOMAIN SubStage :
       \/ q.at = "columns" /\ q.target = name /\ q.from = Was.status /\ Untouched
       \/ /\ q.at \in {"find", "mark"} /\ q.target = SubStage[name].fileStatus
          /\ Hold(InSubStage(Was, SubStage[name]), WasFile)
          /\ q.at = "mark" => q.ids = {f \in Files : WasFile[f] # "ABSENT"}

Reconciling(q) ==
  /\ q.op = "Reconcile" /\ Was.status = "CAD_IN_PROGRESS" /\ Untouched
  /\ \/ q.at = "compare" /\ q.target = StageColumns(Was)
     \/ q.at = "resync" /\ q.target \in SubStageOf(WasFile) \ {StageColumns(Was)}

\* A request that runs alone has done so much of its handler and no more.
Begun(q) ==
  \/ q = Idle /\ Untouched
  \/ Saving(q) \/ ApprovingInPublic(q) \/ Moving(q) \/ Issuing(q) \/ Quoting(q)
  \/ Marking(q) \/ Marked(q) \/ Uploading(q) \/ Sending(q) \/ Staging(q) \/ Reconciling(q)

WasOK ==
  /\ committed = <<Was, WasFile, WasLog>>
  /\ Was \in Order /\ WasFile \in [Files -> CadFileStatus] /\ WasLog \in OrderStatus \cup {None}

SerialInv == WasOK /\ \A r \in Requests : Begun(req[r])

AtomicStep == Atomic!StageStep \/ Atomic!ClosureStep \/ Atomic!RoutingStep \/ Atomic!CadStep

\* What a step of the only request has to show: where it leaves the request, and
\* that the tables it leaves behind are those of one step.
Serves(r) == Begun(req[r])' /\ [AtomicStep]_committed

\* One request, in a state the invariant allows.
Alone(r) == Requests = {r} /\ IInv /\ SerialInv

\* What is written becomes visible as one step when the request is done.
LEMMA Commits ==
  ASSUME NEW r, Alone(r), Finish(r), Observe
  PROVE  req'[r] = Idle /\ committed' = <<ord', file', lastCancelFrom'>>
<1>1. req' = [s \in Requests |-> Idle]
  BY DEF Alone, IInv, Finish, Proceed
<1> QED
  BY <1>1 DEF Alone, Observe, tables

\* Until then nothing of it shows.
LEMMA GoesOn ==
  ASSUME NEW r, Alone(r), NEW q, q.at # "done", Proceed(r, q), Observe
  PROVE  req'[r] = q /\ committed' = committed
<1>1. req'[r] = q /\ req' # [s \in Requests |-> Idle]
  BY DEF Alone, IInv, Proceed, Idle
<1>2. ~(Cardinality(Requests) > 1)
  BY FS_Singleton DEF Alone
<1> QED
  BY <1>1, <1>2 DEF Observe

\* A request that gives up before it wrote anything leaves no trace.
LEMMA GivesUp ==
  ASSUME NEW r, Alone(r), Untouched, UNCHANGED tables, Finish(r), Observe
  PROVE  Serves(r)
<1>1. req'[r] = Idle /\ committed' = <<ord', file', lastCancelFrom'>>
  BY Commits
<1>2. committed' = committed
  BY <1>1 DEF Alone, SerialInv, WasOK, Untouched, Hold, tables
<1> QED
  BY <1>1, <1>2 DEF Serves, Begun, Untouched, Hold, tables, Was, WasFile, WasLog

\* One that is done after a step of the workflow's.
LEMMA Ends ==
  ASSUME NEW r, Alone(r), Finish(r), Observe,
         committed' = <<ord', file', lastCancelFrom'>> => AtomicStep
  PROVE  Serves(r)
<1>1. req'[r] = Idle /\ committed' = <<ord', file', lastCancelFrom'>>
  BY Commits
<1> QED
  BY <1>1 DEF Serves, Begun, Untouched, Hold, Was, WasFile, WasLog

\* One that reads on.
LEMMA ReadsOn ==
  ASSUME NEW r, Alone(r), Begun(req[r])', UNCHANGED committed
  PROVE  Serves(r)
BY DEF Serves

\* The query a request is at is the one it issues next.
LEMMA NextQuery ==
  ASSUME NEW r, Continue(r)
  PROVE  \/ req[r].at = "save" /\ Save(r)
         \/ req[r].at = "findForQuote" /\ FindForQuote(r)
         \/ req[r].at = "send" /\ AutoSend(r)
         \/ req[r].at = "verify" /\ Verify(r)
         \/ req[r].at = "lookup" /\ LookUp(r)
         \/ req[r].at = "reload" /\ Reload(r)
         \/ req[r].at = "approveFiles" /\ ApproveFiles(r)
         \/ req[r].at = "sku" /\ InsertSku(r)
         \/ req[r].at = "number" /\ StoreSku(r)
         \/ req[r].at = "findFile" /\ FindFileOfOrder(r)
         \/ req[r].at = "mark" /\ Mark(r)
         \/ req[r].at = "flags" /\ Flag(r)
         \/ req[r].at = "look" /\ Look(r)
         \/ req[r].at = "issue" /\ Issue(r)
         \/ req[r].at = "cancel" /\ CancelRejected(r)
         \/ req[r].at = "revise" /\ Revise(r)
         \/ req[r].at = "queue" /\ Queue(r)
         \/ req[r].at = "columns" /\ SetColumns(r)
         \/ req[r].at = "find" /\ FindFiles(r)
         \/ req[r].at = "compare" /\ Compare(r)
         \/ req[r].at = "resync" /\ Resync(r)
<1>1. CASE Save(r) \/ FindForQuote(r) \/ AutoSend(r) \/ Verify(r) \/ LookUp(r) \/ Reload(r)
  BY <1>1 DEF Save, FindForQuote, AutoSend, Verify, LookUp, Reload, Ready
<1>2. CASE ApproveFiles(r) \/ InsertSku(r) \/ StoreSku(r) \/ FindFileOfOrder(r) \/ Mark(r) \/ Flag(r)
  BY <1>2 DEF ApproveFiles, InsertSku, StoreSku, FindFileOfOrder, Mark, Flag, Ready
<1>3. CASE Look(r) \/ Issue(r) \/ CancelRejected(r) \/ Revise(r) \/ Queue(r) \/ SetColumns(r)
  BY <1>3 DEF Look, Issue, CancelRejected, Revise, Queue, SetColumns, Ready
<1>4. CASE FindFiles(r) \/ Compare(r) \/ Resync(r)
  BY <1>4 DEF FindFiles, Compare, Resync, Ready
<1> QED
  BY <1>1, <1>2, <1>3, <1>4 DEF Continue

-----------------------------------------------------------------------------
(* Handlers that save the row they read *)

\* What a saver writes is what its handler does in one step.
LEMMA SaverIsAtomic ==
  ASSUME WasOK, NEW op \in Savers \ {"SaveQuote"}, ord' \in Saved(op, Was),
         file' = WasFile, lastCancelFrom' = WasLog,
         committed' = <<ord', file', lastCancelFrom'>>
  PROVE  [AtomicStep]_committed
<1> USE DEF WasOK, Was, WasFile, WasLog
<1>0. committed'[1] = ord' /\ committed'[2] = committed[2] /\ committed'[3] = committed[3]
  OBVIOUS
<1>1. CASE op = "CloseProject"
  <2>1. Atomic!CloseProject
    BY <1>1, <1>0 DEF Saved, When, Atomic!CloseProject, Atomic!AwaitingApproval, AwaitingApproval,
                      Atomic!Closed, Closed
  <2> QED
    BY <2>1 DEF AtomicStep, Atomic!ClosureStep
<1>2. CASE op = "AutoArchive"
  <2>1. Atomic!AutoArchive
    BY <1>2, <1>0 DEF Saved, When, Atomic!AutoArchive, Atomic!AwaitingApproval, AwaitingApproval,
                      Atomic!AutoArchived, AutoArchived
  <2> QED
    BY <2>1 DEF AtomicStep, Atomic!ClosureStep
<1>3. CASE op = "ReactivateClosedProject"
  <2>1. Atomic!ReactivateClosedProject
    BY <1>3, <1>0 DEF Saved, When, Atomic!ReactivateClosedProject, Atomic!Reopened, Reopened
  <2> QED
    BY <2>1 DEF AtomicStep, Atomic!ClosureStep
<1>4. CASE op = "ReactivateAutoArchived"
  <2>1. Atomic!ReactivateAutoArchived
    BY <1>4, <1>0 DEF Saved, When, Atomic!ReactivateAutoArchived, Atomic!Reopened, Reopened
  <2> QED
    BY <2>1 DEF AtomicStep, Atomic!ClosureStep
<1>5. CASE op = "AssignSupplier"
  <2>1. PICK f \in Factories, s \in SupplySources :
          ord' = Assigned(Was, f, s) /\ Was.status = "VPO_ISSUED"
    BY <1>5 DEF Saved
  <2>2. Atomic!AssignSupplier(f, s)
    BY <1>0, <2>1 DEF Atomic!AssignSupplier, Atomic!Assigned, Assigned,
                      Atomic!NeedsStoneSupplier, NeedsStoneSupplier
  <2> QED
    BY <2>2, Zenon DEF AtomicStep, Atomic!RoutingStep
<1>6. CASE op = "EditSupplier"
  <2>1. Was.status \notin PreVpoStatuses /\ ord' \in Edited(Was)
    BY <1>6 DEF Saved
  <2>2. Atomic!EditSupplier
    BY <1>0, <2>1 DEF Edited, Atomic!EditSupplier, PreVpoStatuses, Atomic!PreVpoStatuses
  <2> QED
    BY <2>2 DEF AtomicStep, Atomic!RoutingStep
<1>7. CASE op = "MarkStoneSent"
  <2>1. Atomic!MarkStoneSent
    BY <1>7, <1>0 DEF Saved, When, Atomic!MarkStoneSent
  <2> QED
    BY <2>1 DEF AtomicStep, Atomic!RoutingStep
<1>8. CASE op = "CompleteManufacturing"
  <2>1. Atomic!CompleteManufacturing("STAFF")
    BY <1>8, <1>0 DEF Saved, When, Atomic!CompleteManufacturing, Atomic!Manufactured, Manufactured
  <2> QED
    BY <2>1, Zenon DEF AtomicStep, Atomic!RoutingStep, Atomic!Roles
<1>9. CASE op = "CompleteRepair"
  <2>1. Atomic!CompleteRepair
    BY <1>9, <1>0 DEF Saved, When, Atomic!CompleteRepair
  <2> QED
    BY <2>1 DEF AtomicStep, Atomic!RoutingStep
<1>10. CASE op = "UpdateQuoteOptions"
  BY <1>10 DEF Saved
<1> QED
  BY <1>1, <1>2, <1>3, <1>4, <1>5, <1>6, <1>7, <1>8, <1>9, <1>10 DEF Savers

-----------------------------------------------------------------------------
(* A request comes in *)

\* NULL is not the name of a handler.
LEMMA NoneIsNoHandler == None \notin AllHandlers
BY RequestAssumption

\* Nothing is half-done while no request is in flight.
LEMMA IdleIsUntouched ==
  ASSUME NEW r, Alone(r), req[r] = Idle
  PROVE  Untouched /\ req[r].op = None /\ req[r].at = "done"
<1>1. Begun(Idle)
  BY DEF Alone, SerialInv
<1>2. Idle.op = None /\ Idle.at = "done"
  BY DEF Idle
<1>3. ~(Saving(Idle) \/ ApprovingInPublic(Idle) \/ Moving(Idle) \/ Issuing(Idle) \/ Quoting(Idle))
  BY <1>2, NoneIsNoHandler
  DEF Saving, ApprovingInPublic, Moving, Issuing, Quoting, AllHandlers, Movers, Savers, FileStatusSet
<1>4. ~(Marking(Idle) \/ Marked(Idle) \/ Uploading(Idle) \/ Sending(Idle) \/ Staging(Idle)
        \/ Reconciling(Idle))
  BY <1>2, NoneIsNoHandler
  DEF Marking, Marked, Uploading, Sending, Staging, Reconciling, AllHandlers, FileHandlers,
      OtherHandlers
<1> QED
  BY <1>1, <1>2, <1>3, <1>4 DEF Begun

\* The first query leaves the request at the first stage of its handler.
LEMMA ArrivalServes ==
  ASSUME NEW r, Alone(r), Arrive(r), Observe
  PROVE  Serves(r)
<1> USE DEF Free
<1>a. req[r] = Idle
  BY DEF Arrive, Load, Check, FindFile, FindOrder, Upload, Send, CheckSubStage, StartReconcile
<1>b. Untouched /\ ord = Was /\ file = WasFile /\ lastCancelFrom = WasLog /\ WasOK
  BY <1>a, IdleIsUntouched DEF Untouched, Hold, Alone, SerialInv
<1>c. ASSUME UNCHANGED tables, committed' = committed
      PROVE  /\ Untouched' /\ Was' = Was /\ WasFile' = WasFile /\ WasLog' = WasLog
  BY <1>b, <1>c DEF Untouched, Hold, tables, Was, WasFile, WasLog
<1>1. ASSUME NEW op \in Savers, Load(r, op)
      PROVE  Serves(r)
  <2>1. PICK row \in Saved(op, ord) : Proceed(r, [Idle EXCEPT !.op = op, !.at = "save", !.row = row])
    BY <1>1 DEF Load
  <2> DEFINE q == [Idle EXCEPT !.op = op, !.at = "save", !.row = row]
  <2>2. q.op = op /\ q.at = "save" /\ q.row = row
    BY DEF Idle
  <2> HIDE DEF q
  <2>3. req'[r] = q /\ committed' = committed
    BY <2>1, <2>2, GoesOn DEF q
  <2>4. Saving(req[r])'
    BY <1>1, <1>b, <1>c, <2>1, <2>2, <2>3 DEF Saving, Load
  <2> QED
    BY <2>3, <2>4, ReadsOn DEF Begun
<1>2. ASSUME NEW op \in Movers, Check(r, op)
      PROVE  Serves(r)
  <2> DEFINE at == CASE op = "ReactivateOrder" -> "lookup"
                     [] op \in {"IssueVpo", "MarkManufactured"} -> "verify"
                     [] OTHER -> "reload"
             q == [Idle EXCEPT !.op = op, !.at = at, !.from = ord.status]
  <2>1. Proceed(r, q)
    BY <1>2, Zenon DEF Check
  <2>2. q.op = op /\ q.at = at /\ q.from = Was.status
    BY <1>b DEF Idle
  <2>3. /\ op = "ReactivateOrder" => at = "lookup"
        /\ op \in {"IssueVpo", "MarkManufactured"} => at = "verify"
        /\ op \notin {"ReactivateOrder", "IssueVpo", "MarkManufactured"} => at = "reload"
        /\ at # "done"
    OBVIOUS
  <2> HIDE DEF q, at
  <2>4. req'[r] = q /\ committed' = committed
    BY <2>1, <2>2, <2>3, GoesOn
  <2>5. Permitted(op, Was) /\ UNCHANGED tables
    BY <1>2, <1>b DEF Check
  <2>6. CASE op = "IssueVpo"
    <3>1. Was.status = "CAD_IN_PROGRESS"
      BY <2>5, <2>6 DEF Permitted
    <3>2. Issuing(req[r])'
      BY <1>c, <2>2, <2>3, <2>4, <2>5, <2>6, <3>1 DEF Issuing
    <3> QED
      BY <2>4, <3>2, ReadsOn DEF Begun
  <2>7. CASE op # "IssueVpo"
    <3>1. (op \in Movers \ {"IssueVpo"} /\ Permitted(op, Was) /\ Untouched)'
      BY <1>c, <2>4, <2>5, <2>7 DEF Permitted
    <3>2. Moving(req[r])'
      BY <1>c, <2>2, <2>3, <2>4, <2>5, <3>1 DEF Moving
    <3> QED
      BY <2>4, <3>2, ReadsOn DEF Begun
  <2> QED
    BY <2>6, <2>7
<1>3. ASSUME NEW op \in DOMAIN FileStatusSet, NEW f \in Files, FindFile(r, op, f)
      PROVE  Serves(r)
  <2> DEFINE q == [Idle EXCEPT !.op = op, !.at = "mark", !.ids = {f}, !.target = FileStatusSet[op]]
  <2>1. Proceed(r, q) /\ op # "PublicApprove" /\ WasFile[f] # "ABSENT" /\ UNCHANGED tables
    BY <1>3, <1>b DEF FindFile, Exists
  <2>2. q.op = op /\ q.at = "mark" /\ q.ids = {f} /\ q.target = FileStatusSet[op]
    BY DEF Idle
  <2> HIDE DEF q
  <2>3. req'[r] = q /\ committed' = committed
    BY <2>1, <2>2, GoesOn
  <2>4. Marking(req[r])'
    BY <1>c, <2>1, <2>2, <2>3 DEF Marking, FileHandlers
  <2> QED
    BY <2>3, <2>4, ReadsOn DEF Begun
<1>4. ASSUME NEW f \in Files, FindOrder(r, f)
      PROVE  Serves(r)
  <2> DEFINE row == [ord EXCEPT !.customerEmailApproval = TRUE]
             q == [Idle EXCEPT !.op = "PublicApprove", !.at = "findFile", !.ids = {f},
                               !.target = FileStatusSet["PublicApprove"], !.row = row]
  <2>1. Proceed(r, q) /\ UNCHANGED tables
    BY <1>4 DEF FindOrder
  <2>2. /\ q.op = "PublicApprove" /\ q.at = "findFile" /\ q.ids = {f} /\ q.target = "APPROVED"
        /\ q.row = [Was EXCEPT !.customerEmailApproval = TRUE]
    BY <1>b DEF Idle, FileStatusSet
  <2> HIDE DEF q
  <2>3. req'[r] = q /\ committed' = committed
    BY <2>1, <2>2, GoesOn
  <2>4. ApprovingInPublic(req[r])'
    BY <1>c, <2>1, <2>2, <2>3 DEF ApprovingInPublic
  <2> QED
    BY <2>3, <2>4, ReadsOn DEF Begun
<1>5. CASE Upload(r)
  <2> DEFINE newest == IF ExistingFiles = {} THEN 0 ELSE Latest(file)
             q == [Idle EXCEPT !.op = "UploadBatch", !.at = "look"]
  <2>1. /\ Proceed(r, q) /\ newest + 1 \in Files /\ file' = [file EXCEPT ![newest + 1] = "UPLOADED"]
        /\ UNCHANGED <<ord, lastCancelFrom>>
    BY <1>5 DEF Upload
  <2>2. q.op = "UploadBatch" /\ q.at = "look"
    BY DEF Idle
  <2>3. newest = IF \E f \in Files : WasFile[f] # "ABSENT" THEN Latest(WasFile) ELSE 0
    BY <1>b DEF ExistingFiles, Exists
  <2> HIDE DEF q, newest
  <2>4. req'[r] = q /\ committed' = committed
    BY <2>1, <2>2, GoesOn
  <2>5. Was' = Was /\ WasFile' = WasFile /\ WasLog' = WasLog
    BY <2>4 DEF Was, WasFile, WasLog
  <2>6. Uploading(req[r])'
    BY <1>b, <2>1, <2>2, <2>3, <2>4, <2>5 DEF Uploading, Hold
  <2> QED
    BY <2>4, <2>6, ReadsOn DEF Begun
<1>6. CASE Send(r)
  <2> DEFINE q == [Idle EXCEPT !.op = "SendToCustomer", !.at = "find"]
  <2>1. Proceed(r, q) /\ ord' = Sent(ord) /\ UNCHANGED <<file, lastCancelFrom>>
    BY <1>6 DEF Send
  <2>2. q.op = "SendToCustomer" /\ q.at = "find"
    BY DEF Idle
  <2> HIDE DEF q
  <2>3. req'[r] = q /\ committed' = committed
    BY <2>1, <2>2, GoesOn
  <2>4. Was' = Was /\ WasFile' = WasFile /\ WasLog' = WasLog
    BY <2>3 DEF Was, WasFile, WasLog
  <2>5. Sending(req[r])'
    BY <1>b, <2>1, <2>2, <2>3, <2>4 DEF Sending, Hold, Sent
  <2> QED
    BY <2>3, <2>5, ReadsOn DEF Begun
<1>7. ASSUME NEW name \in DOMAIN SubStage, CheckSubStage(r, name)
      PROVE  Serves(r)
  <2> DEFINE q == [Idle EXCEPT !.op = "SetSubStage", !.at = "columns", !.target = name,
                               !.from = ord.status]
  <2>1. /\ Proceed(r, q) /\ Was.status \in {"CAD_IN_PROGRESS", "VPO_ISSUED"}
        /\ UNCHANGED tables
    BY <1>7, <1>b DEF CheckSubStage
  <2>2. q.op = "SetSubStage" /\ q.at = "columns" /\ q.target = name /\ q.from = Was.status
    BY <1>b DEF Idle
  <2> HIDE DEF q
  <2>3. req'[r] = q /\ committed' = committed
    BY <2>1, <2>2, GoesOn
  <2>4. Staging(req[r])'
    BY <1>c, <2>1, <2>2, <2>3 DEF Staging
  <2> QED
    BY <2>3, <2>4, ReadsOn DEF Begun
<1>8. CASE StartReconcile(r)
  <2> DEFINE q == [Idle EXCEPT !.op = "Reconcile", !.at = "compare", !.target = StageColumns(ord)]
  <2>1. Proceed(r, q) /\ Was.status = "CAD_IN_PROGRESS" /\ UNCHANGED tables
    BY <1>8, <1>b DEF StartReconcile
  <2>2. q.op = "Reconcile" /\ q.at = "compare" /\ q.target = StageColumns(Was)
    BY <1>b DEF Idle
  <2> HIDE DEF q
  <2>3. req'[r] = q /\ committed' = committed
    BY <2>1, <2>2, GoesOn
  <2>4. Reconciling(req[r])'
    BY <1>c, <2>1, <2>2, <2>3 DEF Reconciling, StageColumns
  <2> QED
    BY <2>3, <2>4, ReadsOn DEF Begun
<1> QED
  BY <1>1, <1>2, <1>3, <1>4, <1>5, <1>6, <1>7, <1>8 DEF Arrive

-----------------------------------------------------------------------------
(* It goes on: a price, and what is sent with it *)

\* The two ways a saved price ends, with and without designs that are sent.
LEMMA QuoteIsAtomic ==
  ASSUME WasOK, NEW op \in {"SaveQuote", "StartCadWithPrice"},
         op = "StartCadWithPrice" => Was.status = "NEW",
         lastCancelFrom' = WasLog, committed' = <<ord', file', lastCancelFrom'>>,
         \/ /\ AutoSends(Quoted(op), WasFile) /\ ord' = Sent(Quoted(op))
            /\ file' = Bumped(WasFile, "UPLOADED", "SENT_FOR_APPROVAL")
         \/ ~AutoSends(Quoted(op), WasFile) /\ ord' = Quoted(op) /\ file' = WasFile
  PROVE  AtomicStep
<1>1. /\ committed[1] = Was /\ committed[2] = WasFile /\ committed[3] = WasLog
      /\ committed'[1] = ord' /\ committed'[2] = file' /\ committed'[3] = WasLog
  BY DEF Was, WasFile, WasLog
<1>2. Atomic!WithAutoSend(Quoted(op))
  <2>1. Atomic!AutoSends(Quoted(op), WasFile) <=> AutoSends(Quoted(op), WasFile)
    BY DEF Atomic!AutoSends, AutoSends, Atomic!Files, Files
  <2>2. /\ Atomic!Sent(Quoted(op)) = Sent(Quoted(op))
        /\ Atomic!Bumped(WasFile, "UPLOADED", "SENT_FOR_APPROVAL")
             = Bumped(WasFile, "UPLOADED", "SENT_FOR_APPROVAL")
    BY DEF Atomic!Sent, Sent, Atomic!Bumped, Bumped, Atomic!Files, Files
  <2> QED
    BY <1>1, <2>1, <2>2 DEF Atomic!WithAutoSend
<1>3. CASE op = "SaveQuote"
  <2>1. Quoted(op) = [committed[1] EXCEPT !.quotedCost = TRUE]
    BY <1>1, <1>3 DEF Quoted
  <2>2. Atomic!SaveQuote
    BY <1>1, <1>2, <2>1 DEF Atomic!SaveQuote
  <2> QED
    BY <2>2 DEF AtomicStep, Atomic!StageStep
<1>4. CASE op = "StartCadWithPrice"
  <2>1. Quoted(op) = [committed[1] EXCEPT !.status = "CAD_IN_PROGRESS", !.quotedCost = @ \/ TRUE]
    BY <1>1, <1>4 DEF Quoted
  <2>2. Atomic!StartCad(TRUE)
    BY <1>1, <1>2, <1>4, <2>1 DEF Atomic!StartCad, Atomic!Transition, Atomic!AllowedTransitions
  <2>3. TRUE \in BOOLEAN
    OBVIOUS
  <2> QED
    BY <2>2, <2>3, Zenon DEF AtomicStep, Atomic!StageStep
<1> QED
  BY <1>3, <1>4

\* Files without uploads are not changed by marking those as sent.
LEMMA NothingToMark ==
  ASSUME WasOK, Uploads = {}
  PROVE  Bumped(WasFile, "UPLOADED", "SENT_FOR_APPROVAL") = WasFile
BY DEF WasOK, Uploads, Bumped

\* After the price is saved, the designs are looked up, sent and marked.
LEMMA QuotingServes ==
  ASSUME NEW r, Alone(r), Quoting(req[r]), Continue(r), Observe
  PROVE  Serves(r)
<1> DEFINE q == req[r]
<1>0. /\ WasOK /\ q.op \in {"SaveQuote", "StartCadWithPrice"}
      /\ q.op = "StartCadWithPrice" => Was.status = "NEW"
      /\ lastCancelFrom = WasLog
      /\ Quoted(q.op).status = "CAD_IN_PROGRESS"
      /\ ~Was.customerEmailApproval /\ ~Was.sentToCustomer
  BY DEF Quoting, Alone, SerialInv, Hold
<1>a. ~Quoted(q.op).customerEmailApproval /\ ~Quoted(q.op).sentToCustomer
  BY <1>0 DEF Quoted, WasOK, Order
<1>b. AutoSends(Quoted(q.op), WasFile)
        <=> \E f \in Files : WasFile[f] \in {"UPLOADED", "SENT_FOR_APPROVAL"}
  BY <1>0, <1>a DEF AutoSends
<1>c. ASSUME committed' = committed
      PROVE  /\ Was' = Was /\ WasFile' = WasFile /\ WasLog' = WasLog /\ Uploads' = Uploads
             /\ \A op : Quoted(op)' = Quoted(op)
  BY <1>c DEF Was, WasFile, WasLog, Uploads, Quoted
<1>1. CASE q.at = "findForQuote"
  <2> DEFINE found == {f \in Files : file[f] \in {"UPLOADED", "SENT_FOR_APPROVAL"}}
             uploaded == {f \in found : file[f] = "UPLOADED"}
             next == [q EXCEPT !.at = "send", !.ids = uploaded]
  <2>1. ord = Quoted(q.op) /\ file = WasFile
    BY <1>1 DEF Quoting, Hold
  <2>2. /\ (found = {} /\ Finish(r)) \/ (found # {} /\ Proceed(r, next))
        /\ UNCHANGED <<ord, file, lastCancelFrom>>
    BY <1>1, NextQuery DEF FindForQuote, tables
  <2>3. CASE found = {} /\ Finish(r)
    BY <1>0, <1>b, <2>1, <2>2, <2>3, QuoteIsAtomic, Ends
  <2>4. CASE found # {} /\ Proceed(r, next)
    <3>1. uploaded = Uploads /\ (\E f \in Files : WasFile[f] \in {"UPLOADED", "SENT_FOR_APPROVAL"})
      BY <2>1, <2>4 DEF Uploads
    <3>2. next.op = q.op /\ next.at = "send" /\ next.ids = uploaded
      BY DEF Alone, IInv, RequestsOK, RequestOK, Request
    <3> HIDE DEF next, uploaded
    <3>3. req'[r] = next /\ committed' = committed
      BY <2>4, <3>2, GoesOn
    <3>4. Quoting(req[r])'
      BY <1>0, <1>c, <2>1, <2>2, <3>1, <3>2, <3>3 DEF Quoting, Hold
    <3> QED
      BY <3>3, <3>4, ReadsOn DEF Begun
  <2> QED
    BY <2>2, <2>3, <2>4
<1>2. CASE q.at = "send"
  <2> DEFINE next == [q EXCEPT !.at = "mark", !.target = "SENT_FOR_APPROVAL"]
  <2>1. /\ ord = Quoted(q.op) /\ file = WasFile /\ q.ids = Uploads
        /\ \E f \in Files : WasFile[f] \in {"UPLOADED", "SENT_FOR_APPROVAL"}
    BY <1>2 DEF Quoting, Hold
  <2>2. /\ (q.ids = {} /\ Finish(r)) \/ (q.ids # {} /\ Proceed(r, next))
        /\ ord' = Sent(ord) /\ UNCHANGED <<file, lastCancelFrom>>
    BY <1>2, NextQuery DEF AutoSend
  <2>3. CASE q.ids = {} /\ Finish(r)
    BY <1>0, <1>b, <2>1, <2>2, <2>3, NothingToMark, QuoteIsAtomic, Ends
  <2>4. CASE Proceed(r, next)
    <3>1. next.op = q.op /\ next.at = "mark" /\ next.ids = q.ids /\ next.target = "SENT_FOR_APPROVAL"
      BY DEF Alone, IInv, RequestsOK, RequestOK, Request
    <3> HIDE DEF next
    <3>2. req'[r] = next /\ committed' = committed
      BY <2>4, <3>1, GoesOn
    <3>3. Sent(Quoted(q.op))' = Sent(Quoted(q.op)') /\ Quoted(q.op)' = Quoted(next.op)
      BY <1>c, <3>1, <3>2 DEF Sent
    <3>4. Hold(Sent(Quoted(req[r].op)), WasFile)'
      BY <1>0, <1>c, <2>1, <2>2, <3>1, <3>2, <3>3 DEF Hold
    <3>5. Quoting(req[r])'
      BY <1>0, <1>c, <2>1, <2>2, <3>1, <3>2, <3>4 DEF Quoting
    <3> QED
      BY <3>2, <3>5, ReadsOn DEF Begun
  <2> QED
    BY <2>2, <2>3, <2>4
<1>3. CASE q.at = "mark"
  <2>1. /\ ord = Sent(Quoted(q.op)) /\ file = WasFile /\ q.ids = Uploads
        /\ q.target = "SENT_FOR_APPROVAL"
        /\ \E f \in Files : WasFile[f] \in {"UPLOADED", "SENT_FOR_APPROVAL"}
    BY <1>3 DEF Quoting, Hold
  <2>2. /\ Finish(r) /\ UNCHANGED <<ord, lastCancelFrom>>
        /\ file' = [f \in Files |-> IF f \in q.ids /\ Exists(f) THEN q.target ELSE file[f]]
    <3>1. AfterMark["SaveQuote"] = "done" /\ AfterMark["StartCadWithPrice"] = "done"
      BY DEF AfterMark
    <3>2. q.op \in {"SetSubStage", "SendToCustomer", "SaveQuote", "StartCadWithPrice"}
      BY <1>0
    <3> QED
      BY <1>0, <1>3, <3>1, <3>2, NextQuery DEF Mark
  <2>3. file' = Bumped(WasFile, "UPLOADED", "SENT_FOR_APPROVAL")
    BY <2>1, <2>2 DEF Bumped, Uploads, Exists
  <2> QED
    BY <1>0, <1>b, <2>1, <2>2, <2>3, QuoteIsAtomic, Ends
<1> QED
  BY <1>1, <1>2, <1>3 DEF Quoting

\* A row that was read is saved, and a price may send the designs along.
LEMMA SavingServes ==
  ASSUME NEW r, Alone(r), Saving(req[r]), Continue(r), Observe
  PROVE  Serves(r)
<1> DEFINE q == req[r]
           next == [q EXCEPT !.at = "findForQuote", !.row = None, !.from = None]
<1>1. /\ WasOK /\ q.op \in Savers /\ q.at = "save" /\ q.row \in Saved(q.op, Was)
      /\ file = WasFile /\ lastCancelFrom = WasLog
  BY DEF Alone, SerialInv, Saving, Untouched, Hold
<1>2. /\ ord' = q.row /\ file' = WasFile /\ lastCancelFrom' = WasLog
      /\ (SendsAlong(q) /\ Proceed(r, next)) \/ (~SendsAlong(q) /\ Finish(r))
  BY <1>1, NextQuery DEF Save, Savers
<1>3. CASE q.op # "SaveQuote"
  <2>1. ~SendsAlong(q)
    BY <1>1, <1>3 DEF SendsAlong, Savers
  <2>2. req'[r] = Idle /\ committed' = <<ord', file', lastCancelFrom'>>
    BY <1>2, <2>1, Commits
  <2>3. [AtomicStep]_committed
    BY <1>1, <1>2, <1>3, <2>2, SaverIsAtomic
  <2> QED
    BY <2>2, <2>3 DEF Serves, Begun, Untouched, Hold, Was, WasFile, WasLog
<1>4. CASE q.op = "SaveQuote"
  <2>1. q.row = Quoted("SaveQuote")
    <3>1. Saved("SaveQuote", Was) = {[Was EXCEPT !.quotedCost = TRUE]}
      BY DEF Saved
    <3> QED
      BY <1>1, <1>4, <3>1 DEF Quoted
  <2>2. CASE SendsAlong(q) /\ Proceed(r, next)
    <3>1. next.op = "SaveQuote" /\ next.at = "findForQuote"
      BY <1>4 DEF Alone, IInv, RequestsOK, RequestOK, Request
    <3> HIDE DEF next
    <3>2. req'[r] = next /\ committed' = committed
      BY <2>2, <3>1, GoesOn
    <3>3. Was' = Was /\ WasFile' = WasFile /\ WasLog' = WasLog
      BY <3>2 DEF Was, WasFile, WasLog
    <3>4. /\ Quoted("SaveQuote").status = "CAD_IN_PROGRESS"
          /\ ~Was.customerEmailApproval /\ ~Was.sentToCustomer
      BY <1>1, <2>1, <2>2 DEF SendsAlong, Quoted, WasOK, Order
    <3>5. Quoting(req[r])'
      BY <1>1, <1>2, <2>1, <3>1, <3>2, <3>3, <3>4 DEF Quoting, Hold, Quoted
    <3> QED
      BY <3>2, <3>5, ReadsOn DEF Begun
  <2>3. CASE ~SendsAlong(q) /\ Finish(r)
    <3>1. ~AutoSends(Quoted("SaveQuote"), WasFile)
      BY <1>4, <2>1, <2>3 DEF SendsAlong, AutoSends
    <3> QED
      BY <1>1, <1>2, <2>1, <2>3, <3>1, QuoteIsAtomic, Ends
  <2> QED
    BY <1>2, <2>2, <2>3
<1> QED
  BY <1>3, <1>4

-----------------------------------------------------------------------------
(* A change of status *)

\* What a mover saves is what its handler does in one step.
LEMMA MoverIsAtomic ==
  ASSUME WasOK, NEW op \in Movers \ {"IssueVpo", "StartCadWithPrice"}, Permitted(op, Was),
         op = "MarkManufactured" => HasSupplier(Was),
         ord' = Moved(op, Was, IF op = "ReactivateOrder" THEN Resumed ELSE Was.status),
         file' = WasFile,
         IF op = "Cancel" THEN lastCancelFrom' = Was.status ELSE lastCancelFrom' = WasLog,
         committed' = <<ord', file', lastCancelFrom'>>
  PROVE  AtomicStep
<1>1. /\ committed[1] = Was /\ committed[2] = WasFile /\ committed[3] = WasLog
      /\ committed'[1] = ord' /\ committed'[2] = WasFile /\ committed'[3] = lastCancelFrom'
      /\ Was.status \in OrderStatus
  BY DEF Was, WasFile, WasLog, WasOK, Order
<1>2. CASE op = "StartCad"
  <2>1. Was.status = "NEW" /\ ord' = [Was EXCEPT !.status = "CAD_IN_PROGRESS"]
    BY <1>2 DEF Permitted, Moved
  <2>2. [Was EXCEPT !.status = "CAD_IN_PROGRESS", !.quotedCost = @ \/ FALSE] = ord'
    BY <2>1 DEF WasOK, Order
  <2>3. Atomic!StartCad(FALSE)
    BY <1>1, <1>2, <2>1, <2>2 DEF Atomic!StartCad, Atomic!Transition, Atomic!AllowedTransitions
  <2> QED
    BY <2>3, Zenon DEF AtomicStep, Atomic!StageStep
<1>3. CASE op = "RevertToVpo"
  <2>1. Atomic!RevertToVpo
    BY <1>1, <1>3 DEF Permitted, Moved, Atomic!RevertToVpo, Atomic!Transition,
      Atomic!AllowedTransitions, Atomic!RevertedToVpo, RevertedToVpo
  <2> QED
    BY <2>1 DEF AtomicStep, Atomic!StageStep
<1>4. CASE op = "RevertToCad"
  <2>1. Atomic!RevertToCad
    BY <1>1, <1>4 DEF Permitted, Moved, Atomic!RevertToCad, Atomic!Transition,
      Atomic!AllowedTransitions, Atomic!RevertedToCad, RevertedToCad
  <2> QED
    BY <2>1 DEF AtomicStep, Atomic!StageStep
<1>5. CASE op = "SendToRepair"
  <2>1. Atomic!SendToRepair
    BY <1>1, <1>5 DEF Permitted, Moved, Atomic!SendToRepair, Atomic!Transition,
      Atomic!AllowedTransitions
  <2> QED
    BY <2>1 DEF AtomicStep, Atomic!StageStep
<1>6. CASE op = "MarkManufactured"
  <2>1. Atomic!MarkManufactured("STAFF")
    BY <1>1, <1>6 DEF Permitted, Moved, HasSupplier, Atomic!MarkManufactured, Atomic!Transition,
      Atomic!AllowedTransitions, Atomic!Manufactured, Manufactured, Atomic!NeedsStoneSupplier,
      NeedsStoneSupplier
  <2> QED
    BY <2>1, Zenon DEF AtomicStep, Atomic!StageStep, Atomic!Roles
<1>7. CASE op = "CompleteOrder"
  <2>1. ord' = Completed(Was)
    BY <1>7 DEF Moved
  <2>2. "COMPLETED" \in AllowedTransitions[Was.status] \/ Was.source = "RING_BUILDER"
    BY <1>7 DEF Permitted
  <2>3. Atomic!CompleteOrder \/ Atomic!RingBuilderComplete
    BY <1>1, <1>7, <2>1, <2>2 DEF Atomic!CompleteOrder, Atomic!RingBuilderComplete,
      Atomic!Transition, Atomic!AllowedTransitions, AllowedTransitions, Atomic!Completed, Completed
  <2> QED
    BY <2>3 DEF AtomicStep, Atomic!StageStep
<1>8. CASE op = "Cancel"
  <2>1. Atomic!Cancel
    BY <1>1, <1>8 DEF Permitted, Moved, Atomic!Cancel, Atomic!Cancelled, Cancelled,
      Atomic!LogCancellation
  <2> QED
    BY <2>1 DEF AtomicStep, Atomic!ClosureStep
<1>9. CASE op = "ReactivateOrder"
  <2>1. Was.status = "CANCELLED" /\ ord' = [Was EXCEPT !.status = Resumed, !.isArchived = FALSE]
    BY <1>9 DEF Permitted, Moved
  <2>2. Atomic!ReactivateOrder
    BY <1>1, <1>9, <2>1 DEF Atomic!ReactivateOrder, Resumed
  <2> QED
    BY <2>2 DEF AtomicStep, Atomic!ClosureStep
<1> QED
  BY <1>2, <1>3, <1>4, <1>5, <1>6, <1>7, <1>8, <1>9 DEF Movers

\* A request that changes a status serves its caller in one step.
LEMMA MovingServes ==
  ASSUME NEW r, Alone(r), Moving(req[r]), Continue(r), Observe
  PROVE  Serves(r)
<1> DEFINE q == req[r]
<1>1. /\ WasOK /\ q.op \in Movers \ {"IssueVpo"} /\ Permitted(q.op, Was) /\ Untouched
      /\ ord = Was /\ file = WasFile /\ lastCancelFrom = WasLog
      /\ q \in Request
  BY DEF Alone, SerialInv, Moving, Untouched, Hold, IInv, RequestsOK, RequestOK
<1>2. ASSUME UNCHANGED tables, committed' = committed
      PROVE  /\ Was' = Was /\ WasFile' = WasFile /\ WasLog' = WasLog
             /\ Untouched' /\ Resumed' = Resumed
  BY <1>1, <1>2 DEF Untouched, Hold, tables, Was, WasFile, WasLog, Resumed
<1>3. CASE q.at = "lookup"
  <2> DEFINE next == [q EXCEPT !.at = "reload",
                               !.from = IF lastCancelFrom = None THEN "NEW" ELSE lastCancelFrom]
  <2>1. q.op = "ReactivateOrder" /\ Proceed(r, next) /\ UNCHANGED tables
    BY <1>3, NextQuery DEF LookUp, Ready
  <2>2. next.op = "ReactivateOrder" /\ next.at = "reload" /\ next.from = Resumed
    BY <1>1, <2>1 DEF Request, Resumed
  <2> HIDE DEF next
  <2>3. req'[r] = next /\ committed' = committed
    BY <2>1, <2>2, GoesOn
  <2>4. Moving(req[r])'
    BY <1>1, <1>2, <2>1, <2>2, <2>3 DEF Moving
  <2> QED
    BY <2>3, <2>4, ReadsOn DEF Begun
<1>4. CASE q.at = "verify"
  <2> DEFINE next == [q EXCEPT !.at = "reload"]
  <2>1. q.op = "MarkManufactured" /\ q.from = Was.status
    BY <1>4 DEF Moving
  <2>2. CASE HasSupplier(ord) /\ Proceed(r, next) /\ UNCHANGED tables
    <3>1. next.op = q.op /\ next.at = "reload" /\ next.from = q.from
      BY <1>1 DEF Request
    <3> HIDE DEF next
    <3>2. req'[r] = next /\ committed' = committed
      BY <2>2, <3>1, GoesOn
    <3>3. Moving(req[r])'
      BY <1>1, <1>2, <1>4, <2>1, <2>2, <3>1, <3>2 DEF Moving
    <3> QED
      BY <3>2, <3>3, ReadsOn DEF Begun
  <2>3. CASE Finish(r) /\ UNCHANGED tables
    BY <1>1, <2>3, GivesUp
  <2> QED
    BY <1>4, <2>1, <2>2, <2>3, NextQuery DEF Verify, HasSupplier
<1>5. CASE q.at = "reload"
  <2> DEFINE next == [q EXCEPT !.at = "save", !.row = Moved(q.op, ord, q.from)]
  <2>1. Proceed(r, next) /\ UNCHANGED tables
    BY <1>1, <1>5, NextQuery DEF Reload
  <2>2. /\ next.op = q.op /\ next.at = "save" /\ next.from = q.from
        /\ next.row = Moved(q.op, Was, q.from)
    BY <1>1 DEF Request
  <2> HIDE DEF next
  <2>3. req'[r] = next /\ committed' = committed
    BY <2>1, <2>2, GoesOn
  <2>4. Moving(req[r])'
    BY <1>1, <1>2, <1>5, <2>1, <2>2, <2>3 DEF Moving
  <2> QED
    BY <2>3, <2>4, ReadsOn DEF Begun
<1>6. CASE q.at = "save"
  <2> DEFINE next == [q EXCEPT !.at = "findForQuote", !.row = None, !.from = None]
  <2>1. /\ q.op = "MarkManufactured" => HasSupplier(Was)
        /\ q.from = IF q.op = "ReactivateOrder" THEN Resumed ELSE Was.status
        /\ q.row = Moved(q.op, Was, q.from)
    BY <1>6 DEF Moving
  <2>2. /\ ord' = q.row /\ file' = WasFile
        /\ IF q.op = "Cancel" THEN LogCancellation(q.from) ELSE lastCancelFrom' = WasLog
        /\ (SendsAlong(q) /\ Proceed(r, next)) \/ (~SendsAlong(q) /\ Finish(r))
    BY <1>1, <1>6, NextQuery DEF Save
  <2>3. CASE q.op # "StartCadWithPrice"
    <3>1. ~SendsAlong(q)
      BY <1>1, <2>3 DEF SendsAlong, Movers
    <3>2. q.op = "Cancel" => Was.status # "CANCELLED" /\ lastCancelFrom' = Was.status
      BY <1>1, <2>1, <2>2 DEF Permitted, LogCancellation
    <3>3. IF q.op = "Cancel" THEN lastCancelFrom' = Was.status ELSE lastCancelFrom' = WasLog
      BY <2>2, <3>2
    <3>4. committed' = <<ord', file', lastCancelFrom'>> => AtomicStep
      BY <1>1, <2>1, <2>2, <2>3, <3>3, MoverIsAtomic
    <3> QED
      BY <2>2, <3>1, <3>4, Ends
  <2>4. CASE q.op = "StartCadWithPrice"
    <3>1. Was.status = "NEW" /\ q.row = Quoted(q.op) /\ lastCancelFrom' = WasLog
      BY <1>1, <2>1, <2>2, <2>4 DEF Permitted, Moved, Quoted
    <3>2. CASE SendsAlong(q) /\ Proceed(r, next)
      <4>1. next.op = q.op /\ next.at = "findForQuote"
        BY <1>1 DEF Request
      <4> HIDE DEF next
      <4>2. req'[r] = next /\ committed' = committed
        BY <3>2, <4>1, GoesOn
      <4>3. Was' = Was /\ WasFile' = WasFile /\ WasLog' = WasLog
        BY <4>2 DEF Was, WasFile, WasLog
      <4>4. /\ Quoted(q.op).status = "CAD_IN_PROGRESS"
            /\ ~Was.customerEmailApproval /\ ~Was.sentToCustomer
        BY <1>1, <2>4, <3>1, <3>2 DEF SendsAlong, Quoted, WasOK, Order
      <4>5. Quoting(req[r])'
        BY <2>2, <2>4, <3>1, <4>1, <4>2, <4>3, <4>4 DEF Quoting, Hold, Quoted
      <4> QED
        BY <4>2, <4>5, ReadsOn DEF Begun
    <3>3. CASE ~SendsAlong(q) /\ Finish(r)
      <4>1. ~AutoSends(Quoted(q.op), WasFile)
        BY <2>4, <3>1, <3>3 DEF SendsAlong, AutoSends
      <4> QED
        BY <1>1, <2>2, <2>4, <3>1, <3>3, <4>1, QuoteIsAtomic, Ends
    <3> QED
      BY <2>2, <3>2, <3>3
  <2> QED
    BY <2>3, <2>4
<1> QED
  BY <1>3, <1>4, <1>5, <1>6 DEF Moving

-----------------------------------------------------------------------------
(* The VPO is issued by staff *)

\* Staff issue the VPO in one step, or fail after the SKU and the files.
LEMMA IssuingServes ==
  ASSUME NEW r, Alone(r), Issuing(req[r]), Continue(r), Observe
  PROVE  Serves(r)
<1> DEFINE q == req[r]
           files == Bumped(WasFile, "SENT_FOR_APPROVAL", "APPROVED")
<1>1. /\ WasOK /\ q.op = "IssueVpo" /\ Was.status = "CAD_IN_PROGRESS" /\ lastCancelFrom = WasLog
      /\ q \in Request
      /\ committed[1] = Was /\ committed[2] = WasFile /\ committed[3] = WasLog
  BY DEF Alone, SerialInv, Issuing, Untouched, Hold, IInv, RequestsOK, RequestOK,
         Was, WasFile, WasLog
<1>2. ASSUME committed' = committed
      PROVE  /\ Was' = Was /\ WasFile' = WasFile /\ WasLog' = WasLog
             /\ WithSku(Was)' = WithSku(Was) /\ Issued(Was)' = Issued(Was)
             /\ files' = files
  BY <1>2 DEF Was, WasFile, WasLog, WithSku, Issued, Bumped
<1>3. ASSUME NEW next \in Request, next.op = q.op, Proceed(r, next),
             \/ next.at \in {"sku", "number"} /\ ord' = Was /\ file' = WasFile
             \/ next.at = "approveFiles" /\ ord' = WithSku(Was) /\ file' = WasFile
             \/ next.at = "reload" /\ ord' = WithSku(Was) /\ file' = files
             \/ /\ next.at = "save" /\ ord' = WithSku(Was) /\ file' = files
                /\ next.row = Issued(Was),
             lastCancelFrom' = WasLog
      PROVE  Serves(r)
  <2>1. req'[r] = next /\ committed' = committed
    BY <1>3, GoesOn
  <2>2. Issuing(req[r])'
    BY <1>1, <1>2, <1>3, <2>1 DEF Issuing, Hold, Untouched
  <2> QED
    BY <2>1, <2>2, ReadsOn DEF Begun
<1>4. CASE q.at = "verify"
  <2> DEFINE next == [q EXCEPT !.at = IF ord.kiraSkuNumber THEN "approveFiles" ELSE "sku"]
  <2>1. Proceed(r, next) /\ UNCHANGED tables /\ ord = Was /\ file = WasFile
    BY <1>1, <1>4, NextQuery DEF Verify, Issuing, Untouched, Hold
  <2>2. /\ next \in Request /\ next.op = q.op
        /\ next.at = IF ord.kiraSkuNumber THEN "approveFiles" ELSE "sku"
    BY <1>1 DEF Request, Progress
  <2>3. Was.kiraSkuNumber => Was = WithSku(Was)
    BY <1>1 DEF WithSku, WasOK, Order
  <2> HIDE DEF next
  <2> QED
    BY <1>1, <1>3, <2>1, <2>2, <2>3 DEF tables
<1>5. CASE q.at = "sku"
  <2> DEFINE next == [q EXCEPT !.at = "number"]
  <2>1. ord = Was /\ file = WasFile /\ UNCHANGED tables /\ (Proceed(r, next) \/ Finish(r))
    BY <1>5, NextQuery DEF InsertSku, Issuing, Untouched, Hold
  <2>2. next \in Request /\ next.op = q.op /\ next.at = "number"
    BY <1>1 DEF Request, Progress
  <2> HIDE DEF next
  <2>3. CASE Proceed(r, next)
    BY <1>1, <1>3, <2>1, <2>2, <2>3 DEF tables
  <2>4. CASE Finish(r)
    BY <1>1, <2>1, <2>4, GivesUp DEF Untouched, Hold
  <2> QED
    BY <2>1, <2>3, <2>4
<1>6. CASE q.at = "number"
  <2> DEFINE next == [q EXCEPT !.at = "approveFiles"]
  <2>1. /\ ord' = WithSku(Was) /\ file' = WasFile /\ lastCancelFrom' = WasLog
        /\ Proceed(r, next)
    BY <1>1, <1>6, NextQuery DEF StoreSku, Issuing, Untouched, Hold, WithSku
  <2>2. next \in Request /\ next.op = q.op /\ next.at = "approveFiles"
    BY <1>1 DEF Request, Progress
  <2> HIDE DEF next
  <2> QED
    BY <1>3, <2>1, <2>2
<1>7. CASE q.at = "approveFiles"
  <2> DEFINE next == [q EXCEPT !.at = "reload"]
  <2>1. /\ ord' = WithSku(Was) /\ file' = files /\ lastCancelFrom' = WasLog
        /\ Proceed(r, next)
    BY <1>1, <1>7, NextQuery DEF ApproveFiles, Issuing, Hold
  <2>2. next \in Request /\ next.op = q.op /\ next.at = "reload"
    BY <1>1 DEF Request, Progress
  <2> HIDE DEF next, files
  <2> QED
    BY <1>3, <2>1, <2>2
<1>8. CASE q.at = "reload"
  <2> DEFINE row == Moved(q.op, ord, q.from)
             next == [q EXCEPT !.at = "save", !.row = row]
  <2>1. /\ ord = WithSku(Was) /\ file = files /\ UNCHANGED tables
        /\ Proceed(r, next) \/ Finish(r)
    BY <1>8, NextQuery DEF Reload, Issuing, Hold
  <2>2. row = Issued(Was)
    BY <1>1, <2>1 DEF Moved, WithSku, Issued, WasOK, Order
  <2>3. next \in Request /\ next.op = q.op /\ next.at = "save" /\ next.row = row
    <3>1. row \in Order
      BY <1>1, <2>2 DEF Issued, WasOK, Order, OrderStatus
    <3> HIDE DEF row
    <3> QED
      BY <1>1, <3>1 DEF Request, Progress
  <2> HIDE DEF next, row, files
  <2>4. CASE Proceed(r, next)
    BY <1>1, <1>3, <2>1, <2>2, <2>3, <2>4 DEF tables
  <2>5. CASE Finish(r)
    <3>1. ASSUME committed' = <<ord', file', lastCancelFrom'>>
          PROVE  Atomic!IssueVpo(TRUE, FALSE)
      BY <1>1, <2>1, <3>1 DEF tables, files, Atomic!IssueVpo, Atomic!Transition,
        Atomic!AllowedTransitions, Atomic!Bumped, Bumped, Atomic!Files, Files, WithSku
    <3>2. TRUE \in BOOLEAN /\ FALSE \in BOOLEAN
      OBVIOUS
    <3>3. committed' = <<ord', file', lastCancelFrom'>> => AtomicStep
      BY <3>1, <3>2, Zenon DEF AtomicStep, Atomic!StageStep
    <3> QED
      BY <2>5, <3>3, Ends
  <2> QED
    BY <2>1, <2>4, <2>5
<1>9. CASE q.at = "save"
  <2>1. ord' = Issued(Was) /\ file' = files /\ lastCancelFrom' = WasLog /\ Finish(r)
    BY <1>1, <1>9, NextQuery DEF Save, SendsAlong, Issuing, Hold
  <2>2. ASSUME committed' = <<ord', file', lastCancelFrom'>>
        PROVE  Atomic!IssueVpo(TRUE, TRUE)
    BY <1>1, <2>1, <2>2 DEF Atomic!IssueVpo, Atomic!Transition, Atomic!Issued, Issued,
      Atomic!AllowedTransitions, Atomic!Bumped, Bumped, Atomic!Files, Files
  <2>3. TRUE \in BOOLEAN
    OBVIOUS
  <2>4. committed' = <<ord', file', lastCancelFrom'>> => AtomicStep
    BY <2>2, <2>3, Zenon DEF AtomicStep, Atomic!StageStep
  <2> QED
    BY <2>1, <2>4, Ends
<1> QED
  BY <1>4, <1>5, <1>6, <1>7, <1>8, <1>9 DEF Issuing

-----------------------------------------------------------------------------
(* The tracking page approves *)

\* The file is approved, then the row that was read at first is saved.
LEMMA ApprovingInPublicServes ==
  ASSUME NEW r, Alone(r), ApprovingInPublic(req[r]), Continue(r), Observe
  PROVE  Serves(r)
<1> DEFINE q == req[r]
           Row == [Was EXCEPT !.customerEmailApproval = TRUE]
<1>1. /\ WasOK /\ q.op = "PublicApprove" /\ q.row = Row /\ lastCancelFrom = WasLog /\ ord = Was
      /\ q \in Request
      /\ committed[1] = Was /\ committed[2] = WasFile /\ committed[3] = WasLog
  BY DEF Alone, SerialInv, ApprovingInPublic, Untouched, Hold, IInv, RequestsOK, RequestOK,
         Was, WasFile, WasLog
<1>2. ASSUME committed' = committed
      PROVE  /\ Was' = Was /\ WasFile' = WasFile /\ WasLog' = WasLog /\ Row' = Row
  BY <1>2 DEF Was, WasFile, WasLog
<1>3. PICK f \in Files :
        \/ /\ q.at \in {"findFile", "mark"} /\ q.ids = {f} /\ q.target = "APPROVED"
           /\ q.at = "mark" => WasFile[f] # "ABSENT"
           /\ file = WasFile
        \/ q.at = "save" /\ WasFile[f] # "ABSENT" /\ file = [WasFile EXCEPT ![f] = "APPROVED"]
  BY DEF ApprovingInPublic, Untouched, Hold
<1>4. CASE q.at = "findFile"
  <2> DEFINE next == [q EXCEPT !.at = "mark"]
  <2>1. UNCHANGED tables /\ (Finish(r) \/ (WasFile[f] # "ABSENT" /\ Proceed(r, next)))
    BY <1>3, <1>4, NextQuery DEF FindFileOfOrder, Exists
  <2>2. /\ next.op = q.op /\ next.at = "mark" /\ next.ids = {f} /\ next.target = "APPROVED"
        /\ next.row = q.row
    BY <1>1, <1>3, <1>4 DEF Request
  <2> HIDE DEF next
  <2>3. CASE WasFile[f] # "ABSENT" /\ Proceed(r, next)
    <3>1. req'[r] = next /\ committed' = committed
      BY <2>2, <2>3, GoesOn
    <3>2. ApprovingInPublic(req[r])'
      BY <1>1, <1>2, <1>3, <1>4, <2>1, <2>2, <2>3, <3>1
      DEF ApprovingInPublic, Untouched, Hold, tables
    <3> QED
      BY <3>1, <3>2, ReadsOn DEF Begun
  <2>4. CASE Finish(r)
    BY <1>1, <1>3, <1>4, <2>1, <2>4, GivesUp DEF Untouched, Hold
  <2> QED
    BY <2>1, <2>3, <2>4
<1>5. CASE q.at = "mark"
  <2> DEFINE next == [q EXCEPT !.at = "save", !.ids = {}, !.target = None]
  <2>1. /\ Proceed(r, next) /\ UNCHANGED <<ord, lastCancelFrom>>
        /\ file' = [WasFile EXCEPT ![f] = "APPROVED"]
    <3>1. AfterMark["PublicApprove"] = "save"
      BY DEF AfterMark
    <3>2. q.op \notin {"SetSubStage", "SendToCustomer", "SaveQuote", "StartCadWithPrice"}
      BY <1>1
    <3>3. Mark(r)
      BY <1>5, NextQuery
    <3>4. Proceed(r, next) /\ UNCHANGED <<ord, lastCancelFrom>>
      BY <1>1, <3>1, <3>3 DEF Mark
    <3>5. file' = [g \in Files |-> IF g \in q.ids THEN q.target ELSE file[g]]
      BY <3>2, <3>3 DEF Mark
    <3>6. file' = [WasFile EXCEPT ![f] = "APPROVED"]
      BY <1>1, <1>3, <1>5, <3>5 DEF WasOK
    <3> QED
      BY <3>4, <3>6
  <2>2. next.op = q.op /\ next.at = "save" /\ next.row = q.row
    BY <1>1 DEF Request
  <2> HIDE DEF next
  <2>3. req'[r] = next /\ committed' = committed
    BY <2>1, <2>2, GoesOn
  <2>4. ApprovingInPublic(req[r])'
    BY <1>1, <1>2, <1>3, <1>5, <2>1, <2>2, <2>3 DEF ApprovingInPublic, Hold
  <2> QED
    BY <2>3, <2>4, ReadsOn DEF Begun
<1>6. CASE q.at = "save"
  <2>1. ord' = Row /\ file' = file /\ lastCancelFrom' = WasLog /\ Finish(r)
    BY <1>1, <1>6, NextQuery DEF Save, SendsAlong
  <2>2. ASSUME committed' = <<ord', file', lastCancelFrom'>>
        PROVE  Atomic!PublicApprove(f)
    BY <1>1, <1>3, <1>6, <2>1, <2>2 DEF Atomic!PublicApprove, Atomic!Exists
  <2>3. f \in Atomic!Files
    BY DEF Atomic!Files, Files
  <2>4. committed' = <<ord', file', lastCancelFrom'>> => AtomicStep
    BY <2>2, <2>3, Zenon DEF AtomicStep, Atomic!CadStep
  <2> QED
    BY <2>1, <2>4, Ends
<1> QED
  BY <1>3, <1>4, <1>5, <1>6

-----------------------------------------------------------------------------
(* One design file *)

\* What the request that found file f writes to it.
LEMMA MarkingServes ==
  ASSUME NEW r, Alone(r), Marking(req[r]), Continue(r), Observe
  PROVE  Serves(r)
<1> DEFINE q == req[r]
           next == [q EXCEPT !.at = AfterMark[q.op], !.ids = {}, !.target = None]
<1>1. /\ WasOK /\ q.op \in FileHandlers /\ q.at = "mark" /\ q.target = FileStatusSet[q.op]
      /\ ord = Was /\ file = WasFile /\ lastCancelFrom = WasLog
      /\ q \in Request
      /\ committed[1] = Was /\ committed[2] = WasFile /\ committed[3] = WasLog
  BY DEF Alone, SerialInv, Marking, Untouched, Hold, IInv, RequestsOK, RequestOK,
         Was, WasFile, WasLog
<1>2. PICK f \in Files : q.ids = {f} /\ WasFile[f] # "ABSENT"
  BY DEF Marking
<1>3. FileHandlers = {"Approve", "Reject", "RequestRevision", "PublicReject", "SendForApproval",
                      "DeleteFile"}
  BY DEF FileHandlers, FileStatusSet
<1>4. Mark(r)
  BY <1>1, NextQuery
<1>5. file' = [WasFile EXCEPT ![f] = FileStatusSet[q.op]] /\ UNCHANGED <<ord, lastCancelFrom>>
  <2>1. q.op \notin {"SetSubStage", "SendToCustomer", "SaveQuote", "StartCadWithPrice"}
    BY <1>1, <1>3
  <2>2. file' = [g \in Files |-> IF g \in q.ids THEN q.target ELSE file[g]]
    BY <1>4, <2>1 DEF Mark
  <2>3. UNCHANGED <<ord, lastCancelFrom>>
    BY <1>4 DEF Mark
  <2> QED
    BY <1>1, <1>2, <2>2, <2>3 DEF WasOK
<1>6. IF AfterMark[q.op] = "done" THEN Finish(r) ELSE Proceed(r, next)
  BY <1>4 DEF Mark
<1>7. CASE q.op \in {"PublicReject", "DeleteFile"}
  <2>1. Finish(r)
    BY <1>6, <1>7 DEF AfterMark
  <2>2. f \in Atomic!Files
    BY DEF Atomic!Files, Files
  <2>3. ASSUME committed' = <<ord', file', lastCancelFrom'>>, q.op = "PublicReject"
        PROVE  AtomicStep
    <3>1. Atomic!PublicReject(f)
      BY <1>1, <1>2, <1>5, <2>3 DEF Atomic!PublicReject, Atomic!Exists, FileStatusSet
    <3> QED
      BY <2>2, <3>1, Zenon DEF AtomicStep, Atomic!CadStep
  <2>4. ASSUME committed' = <<ord', file', lastCancelFrom'>>, q.op = "DeleteFile"
        PROVE  AtomicStep
    <3>1. Atomic!DeleteFile(f)
      BY <1>1, <1>2, <1>5, <2>4 DEF Atomic!DeleteFile, Atomic!Exists, FileStatusSet
    <3> QED
      BY <2>2, <3>1, Zenon DEF AtomicStep, Atomic!CadStep
  <2> QED
    BY <1>7, <2>1, <2>3, <2>4, Ends
<1>8. CASE q.op \in {"Approve", "Reject", "RequestRevision", "SendForApproval"}
  <2> DEFINE at == AfterMark[q.op]
  <2>1. /\ q.op = "Approve" => at = "flags"
        /\ q.op \in {"Reject", "SendForApproval"} => at = "look"
        /\ q.op = "RequestRevision" => at = "revise"
    BY DEF AfterMark
  <2>2. Proceed(r, next) /\ at # "done"
    BY <1>6, <1>8, <2>1
  <2>3. next.op = q.op /\ next.at = at
    BY <1>1 DEF Request
  <2> HIDE DEF next, at
  <2>4. req'[r] = next /\ committed' = committed
    BY <2>2, <2>3, GoesOn
  <2>5. Was' = Was /\ WasFile' = WasFile /\ WasLog' = WasLog
    BY <2>4 DEF Was, WasFile, WasLog
  <2>6. Marked(req[r])'
    BY <1>1, <1>2, <1>5, <1>8, <2>1, <2>3, <2>4, <2>5 DEF Marked
  <2> QED
    BY <2>4, <2>6, ReadsOn DEF Begun
<1> QED
  BY <1>1, <1>3, <1>7, <1>8

\* Once the file is written, only the order's row and the SKU are.
LEMMA MarkedServes ==
  ASSUME NEW r, Alone(r), Marked(req[r]), Continue(r), Observe
  PROVE  Serves(r)
<1> DEFINE q == req[r]
<1>1. /\ WasOK /\ q \in Request
      /\ committed[1] = Was /\ committed[2] = WasFile /\ committed[3] = WasLog
  BY DEF Alone, SerialInv, IInv, RequestsOK, RequestOK, Was, WasFile, WasLog
<1>2. PICK f \in Files :
        /\ WasFile[f] # "ABSENT" /\ lastCancelFrom = WasLog
        /\ q.op \in FileHandlers /\ file = [WasFile EXCEPT ![f] = FileStatusSet[q.op]]
        /\ \/ q.op = "Approve" /\ q.at = "flags" /\ ord = Was
           \/ q.op = "Approve" /\ q.at = "look" /\ ord = ApprovalFlagged(Was)
           \/ /\ q.op = "Approve" /\ q.at \in {"sku", "number"} /\ ord = ApprovalFlagged(Was)
              /\ ~Was.kiraSkuNumber
           \/ q.op = "Approve" /\ q.at = "issue" /\ ord = WithSku(ApprovalFlagged(Was))
           \/ q.op = "Reject" /\ q.at = "look" /\ ord = Was
           \/ q.op = "Reject" /\ q.at = "cancel" /\ q.from = Was.status /\ ord = Was
           \/ q.op = "RequestRevision" /\ q.at = "revise" /\ ord = Was
           \/ q.op = "SendForApproval" /\ q.at = "look" /\ ord = Was
           \/ /\ q.op = "SendForApproval" /\ q.at = "queue" /\ ord = Was
              /\ Was.status \in PreVpoStatuses
  BY DEF Marked
<1>3. f \in Atomic!Files
  BY DEF Atomic!Files, Files
<1>4. FileStatusSet["Approve"] = "APPROVED" /\ FileStatusSet["Reject"] = "REJECTED"
      /\ FileStatusSet["RequestRevision"] = "REVISION_REQUESTED"
      /\ FileStatusSet["SendForApproval"] = "SENT_FOR_APPROVAL"
  BY DEF FileStatusSet
<1>5. ASSUME committed' = committed
      PROVE  /\ Was' = Was /\ WasFile' = WasFile /\ WasLog' = WasLog
             /\ ApprovalFlagged(Was)' = ApprovalFlagged(Was)
             /\ WithSku(ApprovalFlagged(Was))' = WithSku(ApprovalFlagged(Was))
  BY <1>5 DEF Was, WasFile, WasLog, ApprovalFlagged, WithSku
<1>6. ASSUME NEW next, next.op = q.op, next.at # "done", Proceed(r, next),
             file' = file, lastCancelFrom' = lastCancelFrom,
             \/ q.op = "Approve" /\ next.at = "look" /\ ord' = ApprovalFlagged(Was)
             \/ /\ q.op = "Approve" /\ next.at \in {"sku", "number"} /\ ord' = ApprovalFlagged(Was)
                /\ ~Was.kiraSkuNumber
             \/ q.op = "Approve" /\ next.at = "issue" /\ ord' = WithSku(ApprovalFlagged(Was))
             \/ q.op = "Reject" /\ next.at = "cancel" /\ next.from = Was.status /\ ord' = Was
             \/ /\ q.op = "SendForApproval" /\ next.at = "queue" /\ ord' = Was
                /\ Was.status \in PreVpoStatuses
      PROVE  Serves(r)
  <2>1. req'[r] = next /\ committed' = committed
    BY <1>6, GoesOn
  <2>2. Marked(req[r])'
    BY <1>2, <1>5, <1>6, <2>1 DEF Marked
  <2> QED
    BY <2>1, <2>2, ReadsOn DEF Begun
<1>7. ASSUME Finish(r), ord' = ApprovalFlagged(Was), ~Was.kiraSkuNumber, q.op = "Approve",
             file' = file, lastCancelFrom' = lastCancelFrom
      PROVE  Serves(r)
  <2>1. ASSUME committed' = <<ord', file', lastCancelFrom'>>
        PROVE  Atomic!Approve(f, FALSE)
    BY <1>1, <1>2, <1>4, <1>7, <2>1 DEF Atomic!Approve, Atomic!Exists, Atomic!ApprovalFlagged,
      ApprovalFlagged
  <2>2. FALSE \in BOOLEAN
    OBVIOUS
  <2>3. committed' = <<ord', file', lastCancelFrom'>> => AtomicStep
    BY <1>3, <2>1, <2>2, Zenon DEF AtomicStep, Atomic!CadStep
  <2> QED
    BY <1>7, <2>3, Ends
<1>8. CASE q.op = "Approve" /\ q.at = "flags"
  <2> DEFINE next == [q EXCEPT !.at = "look"]
  <2>1. /\ ord' = ApprovalFlagged(Was) /\ Proceed(r, next)
        /\ file' = file /\ lastCancelFrom' = lastCancelFrom
    BY <1>2, <1>8, NextQuery DEF Flag
  <2>2. next.op = q.op /\ next.at = "look"
    BY <1>1 DEF Request
  <2> HIDE DEF next
  <2> QED
    BY <1>6, <1>8, <2>1, <2>2
<1>9. CASE q.op = "Approve" /\ q.at = "look"
  <2> DEFINE next == [q EXCEPT !.at = IF ord.kiraSkuNumber THEN "issue" ELSE "sku"]
  <2>1. UNCHANGED tables /\ Proceed(r, next) /\ ord = ApprovalFlagged(Was)
    BY <1>2, <1>9, NextQuery DEF Look
  <2>2. next.op = q.op /\ next.at = IF ord.kiraSkuNumber THEN "issue" ELSE "sku"
    BY <1>1 DEF Request
  <2>3. ord.kiraSkuNumber = Was.kiraSkuNumber
    BY <1>1, <2>1 DEF ApprovalFlagged, WasOK, Order
  <2>4. Was.kiraSkuNumber => ord = WithSku(ApprovalFlagged(Was))
    BY <1>1, <2>1 DEF ApprovalFlagged, WithSku, WasOK, Order
  <2> HIDE DEF next
  <2> QED
    BY <1>6, <1>9, <2>1, <2>2, <2>3, <2>4 DEF tables
<1>10. CASE q.op = "Approve" /\ q.at = "sku"
  <2> DEFINE next == [q EXCEPT !.at = "number"]
  <2>1. /\ UNCHANGED tables /\ (Proceed(r, next) \/ Finish(r))
        /\ ord = ApprovalFlagged(Was) /\ ~Was.kiraSkuNumber
    BY <1>2, <1>10, NextQuery DEF InsertSku
  <2>2. next.op = q.op /\ next.at = "number"
    BY <1>1 DEF Request
  <2> HIDE DEF next
  <2> QED
    BY <1>6, <1>7, <1>10, <2>1, <2>2 DEF tables
<1>11. CASE q.op = "Approve" /\ q.at = "number"
  <2> DEFINE next == [q EXCEPT !.at = "issue"]
  <2>1. /\ ord' = WithSku(ApprovalFlagged(Was)) /\ Proceed(r, next)
        /\ file' = file /\ lastCancelFrom' = lastCancelFrom
    BY <1>2, <1>11, NextQuery DEF StoreSku, WithSku
  <2>2. next.op = q.op /\ next.at = "issue"
    BY <1>1 DEF Request
  <2> HIDE DEF next
  <2> QED
    BY <1>6, <1>11, <2>1, <2>2
<1>12. CASE q.op = "Approve" /\ q.at = "issue"
  <2>1. /\ ord' = [WithSku(ApprovalFlagged(Was)) EXCEPT !.status = "VPO_ISSUED", !.vpoIssuedAt = TRUE]
        /\ Finish(r) /\ file' = file /\ lastCancelFrom' = lastCancelFrom
    BY <1>2, <1>12, NextQuery DEF Issue
  <2>2. ord' = ApprovalIssued(Was)
    BY <1>1, <2>1 DEF WithSku, ApprovalFlagged, ApprovalIssued, WasOK, Order
  <2>3. ASSUME committed' = <<ord', file', lastCancelFrom'>>
        PROVE  Atomic!Approve(f, TRUE)
    BY <1>1, <1>2, <1>4, <1>12, <2>1, <2>2, <2>3 DEF Atomic!Approve, Atomic!Exists,
      Atomic!ApprovalIssued, ApprovalIssued, Atomic!ApprovalFlagged, ApprovalFlagged
  <2>4. TRUE \in BOOLEAN
    OBVIOUS
  <2>5. committed' = <<ord', file', lastCancelFrom'>> => AtomicStep
    BY <1>3, <2>3, <2>4, Zenon DEF AtomicStep, Atomic!CadStep
  <2> QED
    BY <2>1, <2>5, Ends
<1>13. CASE q.op = "Reject" /\ q.at = "look"
  <2> DEFINE next == [q EXCEPT !.at = "cancel", !.from = ord.status]
  <2>1. UNCHANGED tables /\ Proceed(r, next) /\ ord = Was
    BY <1>2, <1>13, NextQuery DEF Look
  <2>2. next.op = q.op /\ next.at = "cancel" /\ next.from = ord.status
    BY <1>1 DEF Request
  <2> HIDE DEF next
  <2> QED
    BY <1>6, <1>13, <2>1, <2>2 DEF tables
<1>14. CASE q.op = "Reject" /\ q.at = "cancel"
  <2>1. /\ ord' = Cancelled(Was) /\ LogCancellation(Was.status) /\ Finish(r) /\ file' = file
    BY <1>2, <1>14, NextQuery DEF CancelRejected
  <2>2. ASSUME committed' = <<ord', file', lastCancelFrom'>>
        PROVE  Atomic!Reject(f)
    BY <1>1, <1>2, <1>4, <1>14, <2>1, <2>2 DEF Atomic!Reject, Atomic!Exists,
      Atomic!Cancelled, Cancelled, Atomic!LogCancellation, LogCancellation
  <2>3. committed' = <<ord', file', lastCancelFrom'>> => AtomicStep
    BY <1>3, <2>2, Zenon DEF AtomicStep, Atomic!CadStep
  <2> QED
    BY <2>1, <2>3, Ends
<1>15. CASE q.op = "RequestRevision" /\ q.at = "revise"
  <2>1. /\ ord' = RevisionRequested(Was) /\ Finish(r)
        /\ file' = file /\ lastCancelFrom' = lastCancelFrom
    BY <1>2, <1>15, NextQuery DEF Revise
  <2>2. ASSUME committed' = <<ord', file', lastCancelFrom'>>
        PROVE  Atomic!RequestRevision(f)
    BY <1>1, <1>2, <1>4, <1>15, <2>1, <2>2 DEF Atomic!RequestRevision, Atomic!Exists,
      Atomic!RevisionRequested, RevisionRequested
  <2>3. committed' = <<ord', file', lastCancelFrom'>> => AtomicStep
    BY <1>3, <2>2, Zenon DEF AtomicStep, Atomic!CadStep
  <2> QED
    BY <2>1, <2>3, Ends
<1>16. CASE q.op = "SendForApproval"
  <2> DEFINE next == [q EXCEPT !.at = "queue"]
             row == IF Was.status \in PreVpoStatuses
                    THEN [Was EXCEPT !.status = "CAD_IN_PROGRESS", !.cadSubStatus = "UPLOADED"]
                    ELSE Was
  <2>1. ord = Was
    BY <1>2, <1>16
  <2>2. ASSUME ord' = row, Finish(r), file' = file, lastCancelFrom' = lastCancelFrom
        PROVE  Serves(r)
    <3>1. ASSUME committed' = <<ord', file', lastCancelFrom'>>
          PROVE  Atomic!SendForApproval(f)
      BY <1>1, <1>2, <1>4, <1>16, <2>2, <3>1 DEF Atomic!SendForApproval, Atomic!Exists,
        Atomic!PreVpoStatuses, PreVpoStatuses
    <3>2. committed' = <<ord', file', lastCancelFrom'>> => AtomicStep
      BY <1>3, <3>1, Zenon DEF AtomicStep, Atomic!CadStep
    <3> QED
      BY <2>2, <3>2, Ends
  <2>3. CASE q.at = "look" /\ Was.status \in PreVpoStatuses
    <3>1. Proceed(r, next) /\ UNCHANGED tables
      BY <1>16, <2>1, <2>3, NextQuery DEF Look
    <3>2. next.op = q.op /\ next.at = "queue"
      BY <1>1 DEF Request
    <3> HIDE DEF next
    <3> QED
      BY <1>6, <1>16, <2>1, <2>3, <3>1, <3>2 DEF tables
  <2>4. CASE q.at = "look" /\ Was.status \notin PreVpoStatuses
    <3>1. Finish(r) /\ UNCHANGED tables
      BY <1>16, <2>1, <2>4, NextQuery DEF Look
    <3> QED
      BY <2>1, <2>2, <2>4, <3>1 DEF tables
  <2>5. CASE q.at = "queue" /\ Was.status \in PreVpoStatuses
    <3>1. /\ ord' = [Was EXCEPT !.cadSubStatus = "UPLOADED", !.status = "CAD_IN_PROGRESS"]
          /\ Finish(r) /\ file' = file /\ lastCancelFrom' = lastCancelFrom
      BY <1>16, <2>1, <2>5, NextQuery DEF Queue
    <3>2. ord' = row
      BY <1>1, <2>5, <3>1 DEF WasOK, Order
    <3> QED
      BY <2>2, <3>1, <3>2
  <2> QED
    BY <1>2, <1>16, <2>3, <2>4, <2>5
<1> QED
  BY <1>2, <1>8, <1>9, <1>10, <1>11, <1>12, <1>13, <1>14, <1>15, <1>16

-----------------------------------------------------------------------------
(* Designs are uploaded, sent, staged by hand and reconciled *)

\* The newest design is stored, then the order queues for its quote.
LEMMA UploadingServes ==
  ASSUME NEW r, Alone(r), Uploading(req[r]), Continue(r), Observe
  PROVE  Serves(r)
<1> DEFINE q == req[r]
           newest == IF \E f \in Files : WasFile[f] # "ABSENT" THEN Latest(WasFile) ELSE 0
           next == [q EXCEPT !.at = "queue"]
           row == IF Was.status \in PreVpoStatuses THEN [Was EXCEPT !.cadSubStatus = "UPLOADED"]
                  ELSE Was
<1>1. /\ WasOK /\ q \in Request /\ q.op = "UploadBatch" /\ newest + 1 \in Files
      /\ ord = Was /\ file = [WasFile EXCEPT ![newest + 1] = "UPLOADED"]
      /\ lastCancelFrom = WasLog
      /\ q.at = "look" \/ (q.at = "queue" /\ Was.status \in PreVpoStatuses)
      /\ committed[1] = Was /\ committed[2] = WasFile /\ committed[3] = WasLog
  BY DEF Alone, SerialInv, IInv, RequestsOK, RequestOK, Was, WasFile, WasLog, Uploading, Hold
<1>2. ASSUME Finish(r), ord' = row, file' = file, lastCancelFrom' = lastCancelFrom
      PROVE  Serves(r)
  <2>1. Atomic!Latest(WasFile) = Latest(WasFile)
    BY DEF Atomic!Latest, Latest, Atomic!Files, Files
  <2>2. newest = IF \E f \in Atomic!Files : WasFile[f] # "ABSENT"
                 THEN Atomic!Latest(WasFile) ELSE 0
    BY <2>1 DEF Atomic!Files, Files
  <2> HIDE DEF newest
  <2>3. \A f \in Files : f \in newest + 1 .. newest + 1 <=> f = newest + 1
    BY <1>1 DEF Files
  <2>4. file' = [f \in Files |-> IF f \in newest + 1 .. newest + 1 THEN "UPLOADED" ELSE WasFile[f]]
    BY <1>1, <1>2, <2>3 DEF WasOK
  <2>5. ASSUME committed' = <<ord', file', lastCancelFrom'>>
        PROVE  Atomic!UploadBatch(1)
    BY <1>1, <1>2, <2>2, <2>4, <2>5 DEF Atomic!UploadBatch, Atomic!Exists, Atomic!PreVpoStatuses,
      PreVpoStatuses, Atomic!Files, Files
  <2>6. 1 \in Atomic!Files
    BY RowAssumption DEF Atomic!Files
  <2>7. committed' = <<ord', file', lastCancelFrom'>> => AtomicStep
    BY <2>5, <2>6, Zenon DEF AtomicStep, Atomic!CadStep
  <2> QED
    BY <1>2, <2>7, Ends
<1>3. CASE q.at = "look" /\ Was.status \in PreVpoStatuses
  <2>1. Proceed(r, next) /\ UNCHANGED tables
    BY <1>1, <1>3, NextQuery DEF Look
  <2>2. next.op = q.op /\ next.at = "queue"
    BY <1>1 DEF Request
  <2> HIDE DEF next
  <2>3. req'[r] = next /\ committed' = committed
    BY <2>1, <2>2, GoesOn
  <2>4. Was' = Was /\ WasFile' = WasFile /\ WasLog' = WasLog /\ newest' = newest
    BY <2>3 DEF Was, WasFile, WasLog
  <2>5. Uploading(req[r])'
    <3> HIDE DEF newest
    <3>1. /\ next.op = "UploadBatch" /\ newest + 1 \in Files
          /\ ord' = Was /\ file' = [WasFile EXCEPT ![newest + 1] = "UPLOADED"]
          /\ lastCancelFrom' = WasLog
      BY <1>1, <2>1, <2>2 DEF tables
    <3> QED
      BY <1>3, <2>2, <2>3, <2>4, <3>1 DEF Uploading, Hold, newest
  <2> QED
    BY <2>3, <2>5, ReadsOn DEF Begun
<1>4. CASE q.at = "look" /\ Was.status \notin PreVpoStatuses
  <2>1. Finish(r) /\ UNCHANGED tables
    BY <1>1, <1>4, NextQuery DEF Look
  <2> QED
    BY <1>1, <1>2, <1>4, <2>1 DEF tables
<1>5. CASE q.at = "queue" /\ Was.status \in PreVpoStatuses
  <2>1. /\ ord' = [Was EXCEPT !.cadSubStatus = "UPLOADED", !.status = Was.status]
        /\ Finish(r) /\ file' = file /\ lastCancelFrom' = lastCancelFrom
    <3>1. Queue(r)
      BY <1>5, NextQuery
    <3>2. q.op # "SendForApproval"
      BY <1>1
    <3> QED
      BY <1>1, <3>1, <3>2 DEF Queue, WasOK, Order
  <2>2. ord' = row
    BY <1>1, <1>5, <2>1 DEF WasOK, Order
  <2> QED
    BY <1>2, <2>1, <2>2
<1> QED
  BY <1>1, <1>3, <1>4, <1>5

\* The order is sent first, its uploaded designs after it.
LEMMA SendingServes ==
  ASSUME NEW r, Alone(r), Sending(req[r]), Continue(r), Observe
  PROVE  Serves(r)
<1> DEFINE q == req[r]
           found == {f \in ExistingFiles : file[f] = "UPLOADED"}
           next == [q EXCEPT !.at = "mark", !.ids = found, !.target = "SENT_FOR_APPROVAL"]
<1>1. /\ WasOK /\ q \in Request /\ q.op = "SendToCustomer"
      /\ ord = Sent(Was) /\ file = WasFile /\ lastCancelFrom = WasLog
      /\ committed[1] = Was /\ committed[2] = WasFile /\ committed[3] = WasLog
  BY DEF Alone, SerialInv, IInv, RequestsOK, RequestOK, Was, WasFile, WasLog, Sending, Hold
<1>2. found = Uploads
  BY <1>1 DEF Uploads, ExistingFiles, Exists
<1>3. ASSUME Finish(r), ord' = ord, file' = Bumped(WasFile, "UPLOADED", "SENT_FOR_APPROVAL"),
             lastCancelFrom' = lastCancelFrom
      PROVE  Serves(r)
  <2>1. ASSUME committed' = <<ord', file', lastCancelFrom'>>
        PROVE  Atomic!SendToCustomer
    BY <1>1, <1>3, <2>1 DEF Atomic!SendToCustomer, Atomic!Sent, Sent, Atomic!Bumped, Bumped,
      Atomic!Files, Files
  <2>2. committed' = <<ord', file', lastCancelFrom'>> => AtomicStep
    BY <2>1 DEF AtomicStep, Atomic!CadStep
  <2> QED
    BY <1>3, <2>2, Ends
<1>4. CASE q.at = "find"
  <2>1. UNCHANGED tables /\ IF found = {} THEN Finish(r) ELSE Proceed(r, next)
    BY <1>1, <1>4, NextQuery DEF FindFiles
  <2>2. next.op = q.op /\ next.at = "mark" /\ next.ids = found /\ next.target = "SENT_FOR_APPROVAL"
    BY <1>1 DEF Request
  <2> HIDE DEF next, found
  <2>3. CASE found = {}
    BY <1>1, <1>2, <1>3, <2>1, <2>3, NothingToMark DEF tables
  <2>4. CASE found # {}
    <3>1. req'[r] = next /\ committed' = committed
      BY <2>1, <2>2, <2>4, GoesOn
    <3>2. Was' = Was /\ WasFile' = WasFile /\ WasLog' = WasLog /\ Uploads' = Uploads
          /\ Sent(Was)' = Sent(Was)
      BY <3>1 DEF Was, WasFile, WasLog, Uploads, Sent
    <3>3. Sending(req[r])'
      BY <1>1, <1>2, <2>1, <2>2, <3>1, <3>2 DEF Sending, Hold, tables
    <3> QED
      BY <3>1, <3>3, ReadsOn DEF Begun
  <2> QED
    BY <2>3, <2>4
<1>5. CASE q.at = "mark"
  <2>1. q.ids = Uploads /\ q.target = "SENT_FOR_APPROVAL"
    BY <1>5 DEF Sending
  <2>2. /\ Finish(r) /\ UNCHANGED <<ord, lastCancelFrom>>
        /\ file' = [f \in Files |-> IF f \in q.ids /\ Exists(f) THEN q.target ELSE file[f]]
    <3>1. AfterMark["SendToCustomer"] = "done"
      BY DEF AfterMark
    <3>2. q.op \in {"SetSubStage", "SendToCustomer", "SaveQuote", "StartCadWithPrice"}
      BY <1>1
    <3> QED
      BY <1>1, <1>5, <3>1, <3>2, NextQuery DEF Mark
  <2>3. file' = Bumped(WasFile, "UPLOADED", "SENT_FOR_APPROVAL")
    BY <1>1, <2>1, <2>2 DEF Bumped, Uploads, Exists
  <2> QED
    BY <1>3, <2>2, <2>3
<1> QED
  BY <1>4, <1>5 DEF Sending

\* The columns of the sub-stage are written, then the status of every file.
LEMMA StagingServes ==
  ASSUME NEW r, Alone(r), Staging(req[r]), Continue(r), Observe
  PROVE  Serves(r)
<1> DEFINE q == req[r]
           found == {f \in Files : WasFile[f] # "ABSENT"}
<1>1. /\ WasOK /\ q \in Request /\ q.op = "SetSubStage"
      /\ Was.status \in {"CAD_IN_PROGRESS", "VPO_ISSUED"}
      /\ committed[1] = Was /\ committed[2] = WasFile /\ committed[3] = WasLog
      /\ ExistingFiles = {f \in Files : file[f] # "ABSENT"}
  BY DEF Alone, SerialInv, IInv, RequestsOK, RequestOK, Was, WasFile, WasLog, Staging,
         ExistingFiles, Exists
<1>2. PICK name \in DOMAIN SubStage :
        \/ /\ q.at = "columns" /\ q.target = name /\ q.from = Was.status
           /\ ord = Was /\ file = WasFile /\ lastCancelFrom = WasLog
        \/ /\ q.at \in {"find", "mark"} /\ q.target = SubStage[name].fileStatus
           /\ ord = InSubStage(Was, SubStage[name]) /\ file = WasFile /\ lastCancelFrom = WasLog
           /\ q.at = "mark" => q.ids = found
  BY DEF Staging, Untouched, Hold
<1> DEFINE stage == SubStage[name]
<1>3. ASSUME NEW next, next.op = q.op, Proceed(r, next), next.target = stage.fileStatus,
             next.at = "find" \/ (next.at = "mark" /\ next.ids = found),
             ord' = InSubStage(Was, stage), file' = WasFile, lastCancelFrom' = WasLog
      PROVE  Serves(r)
  <2>1. req'[r] = next /\ committed' = committed
    BY <1>3, GoesOn
  <2>2. /\ Was' = Was /\ WasFile' = WasFile /\ WasLog' = WasLog /\ found' = found
        /\ InSubStage(Was, stage)' = InSubStage(Was, stage)
    BY <2>1 DEF Was, WasFile, WasLog, InSubStage, SubStage
  <2>3. Staging(req[r])'
    <3> HIDE DEF found
    <3>1. /\ next.op = "SetSubStage" /\ name \in DOMAIN SubStage /\ next.at \in {"find", "mark"}
          /\ next.at = "mark" => next.ids = found
      BY <1>1, <1>3
    <3> QED
      BY <1>1, <1>3, <2>1, <2>2, <3>1 DEF Staging, Hold, found
  <2> QED
    BY <2>1, <2>3, ReadsOn DEF Begun
<1>4. ASSUME Finish(r), ord' = InSubStage(Was, stage), lastCancelFrom' = WasLog,
             file' = [f \in Files |-> IF WasFile[f] # "ABSENT" THEN stage.fileStatus ELSE "ABSENT"]
      PROVE  Serves(r)
  <2>1. Atomic!SubStage = SubStage
    BY DEF Atomic!SubStage, SubStage
  <2>2. Atomic!InSubStage(Was, stage) = InSubStage(Was, stage)
    BY DEF Atomic!InSubStage, InSubStage
  <2>3. ASSUME committed' = <<ord', file', lastCancelFrom'>>
        PROVE  Atomic!SetSubStage(name)
    BY <1>1, <1>4, <2>1, <2>2, <2>3 DEF Atomic!SetSubStage, Atomic!Exists, Atomic!Files, Files
  <2>4. name \in DOMAIN Atomic!SubStage
    BY <2>1
  <2>5. committed' = <<ord', file', lastCancelFrom'>> => AtomicStep
    BY <2>3, <2>4, Zenon DEF AtomicStep, Atomic!CadStep
  <2> QED
    BY <1>4, <2>5, Ends
<1>5. CASE q.at = "columns"
  <2> DEFINE next == [q EXCEPT !.at = "find", !.target = SubStage[q.target].fileStatus]
  <2>1. /\ Proceed(r, next) /\ UNCHANGED <<file, lastCancelFrom>>
        /\ ord' = [InSubStage(Was, stage) EXCEPT
                     !.vpoIssuedAt = IF Was.status = "VPO_ISSUED" THEN FALSE ELSE Was.vpoIssuedAt]
    BY <1>2, <1>5, NextQuery DEF SetColumns
  <2>2. ord' = InSubStage(Was, stage)
    <3>1. PICK dated \in BOOLEAN :
            dated = IF Was.status = "VPO_ISSUED" THEN FALSE ELSE Was.vpoIssuedAt
      BY <1>1 DEF WasOK, Order
    <3> HIDE DEF stage
    <3>2. InSubStage(Was, stage) =
            [Was EXCEPT !.status = "CAD_IN_PROGRESS", !.cadSubStatus = stage.cadSubStatus,
                        !.sentToCustomer = stage.sentToCustomer,
                        !.customerEmailApproval = FALSE,
                        !.awaitingApprovalSince = stage.sentToCustomer,
                        !.vpoIssuedAt = dated]
      BY <3>1 DEF InSubStage
    <3>3. ord' = [InSubStage(Was, stage) EXCEPT !.vpoIssuedAt = dated]
      BY <2>1, <3>1
    <3> QED
      BY <1>1, <3>2, <3>3 DEF WasOK, Order
  <2>3. next.op = q.op /\ next.at = "find" /\ next.target = stage.fileStatus
    BY <1>1, <1>2, <1>5 DEF Request
  <2> HIDE DEF next, stage
  <2> QED
    BY <1>2, <1>3, <1>5, <2>1, <2>2, <2>3
<1>6. CASE q.at = "find"
  <2> DEFINE next == [q EXCEPT !.at = "mark", !.ids = found, !.target = q.target]
  <2>1. ExistingFiles = found
    BY <1>1, <1>2, <1>6
  <2>2. UNCHANGED tables /\ IF found = {} THEN Finish(r) ELSE Proceed(r, next)
    <3>1. FindFiles(r)
      BY <1>6, NextQuery
    <3>2. q.op # "SendToCustomer"
      BY <1>1
    <3>3. {f \in ExistingFiles : q.op = "SendToCustomer" => file[f] = "UPLOADED"} = found
      BY <2>1, <3>2
    <3> HIDE DEF found
    <3> QED
      BY <3>1, <3>2, <3>3 DEF FindFiles
  <2>3. next.op = q.op /\ next.at = "mark" /\ next.ids = found /\ next.target = q.target
    BY <1>1 DEF Request
  <2>4. CASE found = {}
    <3>1. \A f \in Files : WasFile[f] = "ABSENT"
      BY <2>4
    <3>2. WasFile = [f \in Files |-> IF WasFile[f] # "ABSENT" THEN stage.fileStatus ELSE "ABSENT"]
      BY <1>1, <3>1 DEF WasOK
    <3> QED
      BY <1>2, <1>4, <1>6, <2>2, <2>4, <3>2 DEF tables
  <2>5. CASE found # {}
    <3> HIDE DEF next
    <3> QED
      BY <1>2, <1>3, <1>6, <2>2, <2>3, <2>5 DEF tables
  <2> QED
    BY <2>4, <2>5
<1>7. CASE q.at = "mark"
  <2>1. /\ Finish(r) /\ UNCHANGED <<ord, lastCancelFrom>>
        /\ file' = [f \in Files |-> IF f \in q.ids /\ Exists(f) THEN q.target ELSE file[f]]
    <3>1. AfterMark["SetSubStage"] = "done"
      BY DEF AfterMark
    <3>2. q.op \in {"SetSubStage", "SendToCustomer", "SaveQuote", "StartCadWithPrice"}
      BY <1>1
    <3> QED
      BY <1>1, <1>7, <3>1, <3>2, NextQuery DEF Mark
  <2>2. file' = [f \in Files |-> IF WasFile[f] # "ABSENT" THEN stage.fileStatus ELSE "ABSENT"]
    BY <1>2, <1>7, <2>1 DEF Exists
  <2> QED
    BY <1>2, <1>4, <1>7, <2>1, <2>2
<1> QED
  BY <1>2, <1>5, <1>6, <1>7

\* What the newest file calls for is compared with the columns, and repaired.
LEMMA ReconcilingServes ==
  ASSUME NEW r, Alone(r), Reconciling(req[r]), Continue(r), Observe
  PROVE  Serves(r)
<1> DEFINE q == req[r]
           wrong == SubStageOf(file) \ {q.target}
<1>1. /\ WasOK /\ q \in Request /\ q.op = "Reconcile" /\ Was.status = "CAD_IN_PROGRESS"
      /\ Untouched /\ ord = Was /\ file = WasFile /\ lastCancelFrom = WasLog
      /\ committed[1] = Was /\ committed[2] = WasFile /\ committed[3] = WasLog
  BY DEF Alone, SerialInv, IInv, RequestsOK, RequestOK, Was, WasFile, WasLog, Reconciling,
         Untouched, Hold
<1>2. CASE q.at = "compare"
  <2>1. q.target = StageColumns(Was)
    BY <1>2 DEF Reconciling
  <2>2. UNCHANGED tables
        /\ IF wrong = {} THEN Finish(r)
           ELSE \E target \in wrong : Proceed(r, [q EXCEPT !.at = "resync", !.target = target])
    BY <1>2, NextQuery DEF Compare
  <2>3. CASE Finish(r)
    BY <1>1, <2>2, <2>3, GivesUp
  <2>4. ASSUME NEW target \in wrong, Proceed(r, [q EXCEPT !.at = "resync", !.target = target])
        PROVE  Serves(r)
    <3> DEFINE next == [q EXCEPT !.at = "resync", !.target = target]
    <3>1. next.op = q.op /\ next.at = "resync" /\ next.target = target
      BY <1>1 DEF Request
    <3>2. Proceed(r, next)
      BY <2>4
    <3> HIDE DEF next
    <3>3. req'[r] = next /\ committed' = committed
      BY <3>1, <3>2, GoesOn
    <3>4. /\ Was' = Was /\ WasFile' = WasFile /\ WasLog' = WasLog
          /\ SubStageOf(WasFile)' = SubStageOf(WasFile) /\ StageColumns(Was)' = StageColumns(Was)
      BY <3>3 DEF Was, WasFile, WasLog
    <3>5. Reconciling(req[r])'
      BY <1>1, <2>1, <2>2, <3>1, <3>3, <3>4 DEF Reconciling, Untouched, Hold, tables
    <3> QED
      BY <3>3, <3>5, ReadsOn DEF Begun
  <2> QED
    BY <2>2, <2>3, <2>4
<1>3. CASE q.at = "resync"
  <2>1. q.target \in SubStageOf(WasFile) \ {StageColumns(Was)}
    BY <1>3 DEF Reconciling
  <2>2. ord' = Resynced(Was, q.target) /\ Finish(r) /\ UNCHANGED <<file, lastCancelFrom>>
    BY <1>1, <1>3, NextQuery DEF Resync
  <2>3. Atomic!SubStageOf(WasFile) = SubStageOf(WasFile)
    <3>1. Atomic!Latest(WasFile) = Latest(WasFile) /\ Atomic!Files = Files
      BY DEF Atomic!Latest, Latest, Atomic!Files, Files
    <3> QED
      BY <3>1 DEF Atomic!SubStageOf, SubStageOf
  <2>4. ASSUME committed' = <<ord', file', lastCancelFrom'>>
        PROVE  Atomic!Reconcile
    BY <1>1, <2>1, <2>2, <2>3, <2>4 DEF Atomic!Reconcile, Atomic!Resynced, Resynced, StageColumns
  <2>5. committed' = <<ord', file', lastCancelFrom'>> => AtomicStep
    BY <2>4 DEF AtomicStep, Atomic!CadStep
  <2> QED
    BY <2>2, <2>5, Ends
<1> QED
  BY <1>2, <1>3 DEF Reconciling

-----------------------------------------------------------------------------
(* The theorem *)

\* The request has begun a handler and goes on with it.
LEMMA ContinuationServes ==
  ASSUME NEW r, Alone(r), Continue(r), Observe
  PROVE  Serves(r)
<1>1. r \in Requests /\ Begun(req[r])
  BY DEF Alone, SerialInv
<1>2. CASE req[r] = Idle /\ Untouched
  <2>1. req[r].at = "done"
    BY <1>2 DEF Idle
  <2> QED
    BY <2>1, NextQuery
<1> QED
  BY <1>1, <1>2, SavingServes, ApprovingInPublicServes, MovingServes, IssuingServes,
     QuotingServes, MarkingServes, MarkedServes, UploadingServes, SendingServes, StagingServes,
     ReconcilingServes DEF Begun

\* What the stages say is about the variables only.
LEMMA NothingHappens ==
  ASSUME UNCHANGED vars, SerialInv
  PROVE  SerialInv'
<1>1. /\ ord' = ord /\ file' = file /\ lastCancelFrom' = lastCancelFrom /\ req' = req
      /\ committed' = committed /\ Was' = Was /\ WasFile' = WasFile /\ WasLog' = WasLog
      /\ Untouched' = Untouched /\ Resumed' = Resumed /\ Uploads' = Uploads
  BY DEF vars, Was, WasFile, WasLog, Untouched, Hold, Resumed, Uploads
<1>2. SUFFICES ASSUME NEW r \in Requests PROVE Begun(req[r])'
  BY <1>1 DEF SerialInv, WasOK
<1>3. Begun(req[r])
  BY DEF SerialInv
<1> DEFINE q == req[r]
<1>4. CASE q = Idle /\ Untouched
  BY <1>1, <1>4 DEF Begun
<1>5. CASE Saving(q)
  BY <1>1, <1>5 DEF Begun, Saving
<1>6. CASE ApprovingInPublic(q)
  BY <1>1, <1>6 DEF Begun, ApprovingInPublic, Hold
<1>7. CASE Moving(q)
  BY <1>1, <1>7 DEF Begun, Moving
<1>8. CASE Issuing(q)
  <2>1. /\ WithSku(Was)' = WithSku(Was) /\ Issued(Was)' = Issued(Was)
        /\ Bumped(WasFile, "SENT_FOR_APPROVAL", "APPROVED")'
             = Bumped(WasFile, "SENT_FOR_APPROVAL", "APPROVED")
    BY <1>1 DEF WithSku, Issued, Bumped
  <2> QED
    BY <1>1, <1>8, <2>1 DEF Begun, Issuing, Hold
<1>9. CASE Quoting(q)
  <2>1. Quoted(q.op)' = Quoted(q.op) /\ Sent(Quoted(q.op))' = Sent(Quoted(q.op))
    BY <1>1 DEF Quoted, Sent
  <2> QED
    BY <1>1, <1>9, <2>1 DEF Begun, Quoting, Hold
<1>10. CASE Marking(q)
  BY <1>1, <1>10 DEF Begun, Marking
<1>11. CASE Marked(q)
  <2>1. /\ ApprovalFlagged(Was)' = ApprovalFlagged(Was)
        /\ WithSku(ApprovalFlagged(Was))' = WithSku(ApprovalFlagged(Was))
    BY <1>1 DEF ApprovalFlagged, WithSku
  <2> QED
    BY <1>1, <1>11, <2>1 DEF Begun, Marked
<1>12. CASE Uploading(q)
  BY <1>1, <1>12 DEF Begun, Uploading, Hold
<1>13. CASE Sending(q)
  BY <1>1, <1>13 DEF Begun, Sending, Hold, Sent
<1>14. CASE Staging(q)
  BY <1>1, <1>14 DEF Begun, Staging, Hold
<1>15. CASE Reconciling(q)
  BY <1>1, <1>15 DEF Begun, Reconciling
<1> QED
  BY <1>3, <1>4, <1>5, <1>6, <1>7, <1>8, <1>9, <1>10, <1>11, <1>12, <1>13, <1>14, <1>15
  DEF Begun

\* A restart loses the request and leaves what it wrote; otherwise the only
\* request serves.
LEMMA SerialStep ==
  ASSUME NEW r, Requests = {r}, IInv, IInv', SerialInv, [Next]_vars
  PROVE  SerialInv' /\ (Restart \/ [AtomicStep]_committed)
<1>1. CASE UNCHANGED vars
  BY <1>1, NothingHappens DEF vars
<1>2. ASSUME committed' = committed \/ committed' = <<ord', file', lastCancelFrom'>>
      PROVE  WasOK'
  <2>1. CASE committed' = committed
    BY <2>1 DEF SerialInv, WasOK, Was, WasFile, WasLog
  <2>2. CASE committed' = <<ord', file', lastCancelFrom'>>
    BY <2>2 DEF IInv, TablesOK, GoodRow, WasOK, Was, WasFile, WasLog
  <2> QED
    BY <1>2, <2>1, <2>2
<1>3. CASE Restart /\ Observe
  <2>1. committed' = <<ord', file', lastCancelFrom'>> /\ req' = [s \in Requests |-> Idle]
    BY <1>3 DEF Restart, Observe, tables
  <2>2. Untouched'
    BY <2>1 DEF Untouched, Hold, Was, WasFile, WasLog
  <2> QED
    BY <1>2, <1>3, <2>1, <2>2 DEF SerialInv, Begun
<1>4. CASE (Arrive(r) \/ Continue(r)) /\ Observe
  <2>1. Serves(r)
    BY <1>4, ArrivalServes, ContinuationServes DEF Alone
  <2>2. WasOK'
    BY <1>2, <1>4 DEF Observe, tables
  <2> QED
    BY <2>1, <2>2 DEF Serves, SerialInv
<1> QED
  BY <1>1, <1>3, <1>4 DEF Next

\* Nothing has begun.
LEMMA SerialStarts == Init => SerialInv
<1> SUFFICES ASSUME Init PROVE SerialInv
  OBVIOUS
<1>1. WasOK
  BY Starts DEF Init, IInv, TablesOK, GoodRow, WasOK, Was, WasFile, WasLog, tables
<1>2. \A s \in Requests : Begun(req[s])
  BY DEF Init, Begun, Untouched, Hold, Was, WasFile, WasLog, tables
<1> QED
  BY <1>1, <1>2 DEF SerialInv

\* A request that runs alone is always at a stage of its handler, and the tables
\* hold what that stage says; restarts put it back to the start of none.
LEMMA SerialInductive ==
  ASSUME \E r : Requests = {r}
  PROVE  Spec => []SerialInv
<1> PICK r : Requests = {r}
  OBVIOUS
<1>1. IInv /\ IInv' /\ SerialInv /\ [Next]_vars => SerialInv'
  BY SerialStep
<1> QED
  BY <1>1, SerialStarts, Inductive, PTL DEF Spec

\* One request at a time, each of them carried out: the tables that others see
\* change by one step of the workflow at a time.
THEOREM SerialSafe ==
  ASSUME \E r : Requests = {r}, Restarts = FALSE
  PROVE  Spec => SerialIsAtomic
<1> PICK r : Requests = {r}
  OBVIOUS
<1>1. Init => Atomic!Init
  BY DEF Atomic!Init, Init, Atomic!InitialOrders, Atomic!CreatedOrder, CreatedOrder,
         Atomic!Files, Files, tables
<1>2. IInv /\ IInv' /\ SerialInv /\ [Next]_vars => [AtomicStep]_committed
  BY SerialStep DEF Restart
<1> QED
  BY <1>1, <1>2, SerialInductive, Inductive, PTL DEF Spec, SerialIsAtomic, AtomicStep

-----------------------------------------------------------------------------
(* The promise about the stages, query by query *)

\* The stages the factory and the repair desk see.
Producing == {"VPO_ISSUED", "MANUFACTURED", "REPAIR"}

\* OrderStages in terms of the stored row and the log, which others read while
\* requests are in flight, and not of what requests leave behind when done.
Stages == INSTANCE OrderStages WITH
  Nowhere <- None, FinishEarly <- "RING_BUILDER" \in Origins,
  stage <- ord.status, issued <- ord.kiraSkuNumber, resume <- lastCancelFrom

\* A step of a request that is a step of the promise, or none.
StageStep == [Stages!Next]_(Stages!stages)

\* The date of the VPO is only forgotten when the design is taken up again, and
\* stands wherever a VPO is issued; stones come in while one is.
DateStep ==
  /\ \/ ord'.status = "CAD_IN_PROGRESS"
     \/ ord'.vpoIssuedAt = TRUE
     \/ /\ ord'.vpoIssuedAt = ord.vpoIssuedAt
        /\ \/ ord'.status \notin Producing \/ ord.status \in Producing
           \/ ord.status = "CANCELLED" /\ ord'.status = lastCancelFrom
  /\ ord'.stoneReceived = ord.stoneReceived \/ ord.status = "VPO_ISSUED"

KeepsOrder == StageStep /\ DateStep

\* Columns that say nothing of the stage.
SameStage(row) ==
  /\ row.status = ord.status /\ row.kiraSkuNumber = ord.kiraSkuNumber
  /\ row.vpoIssuedAt = ord.vpoIssuedAt /\ row.stoneReceived = ord.stoneReceived

\* A query that leaves the stage alone keeps what is promised about it.
LEMMA StageStays ==
  ASSUME SameStage(ord'), UNCHANGED lastCancelFrom
  PROVE  KeepsOrder
BY DEF SameStage, KeepsOrder, StageStep, DateStep, Stages!stages, Producing

\* A change of sub-stage by hand works on the design and keeps the SKU.
LEMMA SetColumnsDesigns ==
  ASSUME IInv, NEW r \in Requests, SetColumns(r)
  PROVE  /\ ord'.status = "CAD_IN_PROGRESS" /\ ord'.kiraSkuNumber = ord.kiraSkuNumber
         /\ ord'.stoneReceived = ord.stoneReceived
<1> DEFINE target == SubStage[req[r].target]
<1>1. PICK old : old = IF ord.status = "VPO_ISSUED" THEN FALSE ELSE ord.vpoIssuedAt
  OBVIOUS
<1>2. PICK new : new = IF req[r].from = "VPO_ISSUED" THEN FALSE ELSE ord.vpoIssuedAt
  OBVIOUS
<1>3. ord' = [InSubStage(ord, target) EXCEPT !.vpoIssuedAt = new]
  BY <1>2 DEF SetColumns
<1> HIDE DEF target
<1>4. InSubStage(ord, target) =
        [ord EXCEPT !.status = "CAD_IN_PROGRESS", !.cadSubStatus = target.cadSubStatus,
                    !.sentToCustomer = target.sentToCustomer,
                    !.customerEmailApproval = FALSE,
                    !.awaitingApprovalSince = target.sentToCustomer, !.vpoIssuedAt = old]
  BY <1>1 DEF InSubStage
<1> QED
  BY <1>3, <1>4 DEF IInv, TablesOK, GoodRow, Order

\* Of the queries that a handler which updates named columns issues, few move the
\* order; the others read, or write files, flags and clocks.
LEMMA ColumnQueries ==
  ASSUME IInv, NEW r \in Requests, Continue(r), req[r].at \notin {"save", "cancel"}
  PROVE  \/ KeepsOrder
         \/ req[r].at = "issue" /\ Issue(r)
<1> DEFINE q == req[r]
<1>0. ord \in Order
  BY DEF IInv, TablesOK, GoodRow
<1>1. CASE UNCHANGED <<ord, lastCancelFrom>>
  BY <1>1, StageStays DEF SameStage
<1>2. CASE AutoSend(r) \/ Flag(r) \/ Resync(r)
  <2>1. UNCHANGED lastCancelFrom
    BY <1>2 DEF AutoSend, Flag, Resync
  <2>2. ord' = Sent(ord) \/ ord' = ApprovalFlagged(ord) \/ ord' = Resynced(ord, q.target)
    BY <1>2 DEF AutoSend, Flag, Resync
  <2>3. SameStage(ord')
    BY <1>0, <2>2 DEF SameStage, Sent, ApprovalFlagged, Resynced, Order
  <2> QED
    BY <2>1, <2>3, StageStays
<1>3. CASE StoreSku(r)
  <2>1. /\ UNCHANGED lastCancelFrom /\ ord'.status = ord.status /\ ord'.kiraSkuNumber = TRUE
        /\ ord'.vpoIssuedAt = ord.vpoIssuedAt /\ ord'.stoneReceived = ord.stoneReceived
    BY <1>0, <1>3 DEF StoreSku, Order
  <2>2. Stages!Number
    BY <2>1 DEF Stages!Number
  <2> QED
    BY <2>1, <2>2 DEF KeepsOrder, StageStep, DateStep, Stages!Next, Producing
<1>4. CASE Revise(r) \/ SetColumns(r)
  <2>1. UNCHANGED lastCancelFrom
    BY <1>4 DEF Revise, SetColumns
  <2>2. /\ ord'.status = "CAD_IN_PROGRESS" /\ ord'.kiraSkuNumber = ord.kiraSkuNumber
        /\ ord'.stoneReceived = ord.stoneReceived
    BY <1>0, <1>4, SetColumnsDesigns DEF Revise, RevisionRequested, Order
  <2>3. Stages!Design
    BY <2>1, <2>2 DEF Stages!Design
  <2> QED
    BY <2>2, <2>3 DEF KeepsOrder, StageStep, DateStep, Stages!Next, Producing
<1>5. CASE Queue(r)
  <2>1. PICK status \in {"CAD_IN_PROGRESS", ord.status} :
          ord' = [ord EXCEPT !.cadSubStatus = "UPLOADED", !.status = status]
    BY <1>5 DEF Queue
  <2>2. UNCHANGED lastCancelFrom
    BY <1>5 DEF Queue
  <2>3. /\ ord'.status = status /\ ord'.kiraSkuNumber = ord.kiraSkuNumber
        /\ ord'.vpoIssuedAt = ord.vpoIssuedAt /\ ord'.stoneReceived = ord.stoneReceived
    BY <1>0, <2>1 DEF Order
  <2>4. CASE status = "CAD_IN_PROGRESS"
    <3>1. Stages!Design
      BY <2>2, <2>3, <2>4 DEF Stages!Design
    <3> QED
      BY <2>3, <2>4, <3>1 DEF KeepsOrder, StageStep, DateStep, Stages!Next, Producing
  <2> QED
    BY <2>2, <2>3, <2>4, StageStays DEF SameStage
<1>6. CASE \/ FindForQuote(r) \/ Verify(r) \/ LookUp(r) \/ Reload(r) \/ InsertSku(r)
           \/ FindFileOfOrder(r) \/ Look(r) \/ FindFiles(r) \/ Compare(r)
  BY <1>1, <1>6
  DEF FindForQuote, Verify, LookUp, Reload, InsertSku, FindFileOfOrder, Look, FindFiles, Compare,
      tables
<1>7. CASE ApproveFiles(r) \/ Mark(r)
  BY <1>1, <1>7 DEF ApproveFiles, Mark
<1> QED
  BY <1>2, <1>3, <1>4, <1>5, <1>6, <1>7, NextQuery

\* A request that comes in writes no stage.
LEMMA ArrivalKeepsStage ==
  ASSUME IInv, NEW r \in Requests, Arrive(r)
  PROVE  KeepsOrder
<1>1. CASE Send(r)
  <2>1. ord' = Sent(ord) /\ UNCHANGED lastCancelFrom
    BY <1>1 DEF Send
  <2>2. SameStage(ord')
    BY <2>1 DEF SameStage, Sent, IInv, TablesOK, GoodRow, Order
  <2> QED
    BY <2>1, <2>2, StageStays
<1>2. CASE ~Send(r)
  <2>1. UNCHANGED <<ord, lastCancelFrom>>
    BY <1>2 DEF Arrive, Load, Check, FindFile, FindOrder, Upload, CheckSubStage, StartReconcile,
                tables
  <2> QED
    BY <2>1, StageStays DEF SameStage
<1> QED
  BY <1>1, <1>2

\* A restart only clears a supplier.
LEMMA RestartKeepsStage ==
  ASSUME IInv, Restart
  PROVE  KeepsOrder
<1>1. SameStage(ord')
  BY DEF SameStage, Restart, IInv, TablesOK, GoodRow, Order
<1> QED
  BY <1>1, StageStays DEF Restart

\* What the promise implies of itself: an order in production has its SKU, and so
\* has one that would resume there; a cancelled order resumes at one of the stages,
\* and not as cancelled.
StagesOK ==
  /\ ord.status \in Stages!Stage /\ lastCancelFrom \in (Stages!Stage \ {"CANCELLED"}) \cup {None}
  /\ ord.status = "CANCELLED" => lastCancelFrom # None
  /\ ord.status \in Producing \/ lastCancelFrom \in Producing => ord.kiraSkuNumber = TRUE

\* Every step of the promise keeps that.
LEMMA StagesKeep ==
  ASSUME StagesOK, StageStep
  PROVE  StagesOK'
<1> USE DEF StagesOK, Stages!Stage, Producing
<1>1. CASE UNCHANGED Stages!stages
  BY <1>1 DEF Stages!stages
<1>2. CASE Stages!Design \/ Stages!Number \/ Stages!Issue
  BY <1>2 DEF Stages!Design, Stages!Number, Stages!Issue
<1>3. CASE Stages!Manufacture \/ Stages!Repair \/ Stages!Finish
  <2>1. CASE Stages!Manufacture
    BY <2>1 DEF Stages!Manufacture
  <2>2. CASE Stages!Repair
    BY <2>2 DEF Stages!Repair
  <2>3. CASE Stages!Finish
    BY <2>3 DEF Stages!Finish
  <2> QED
    BY <1>3, <2>1, <2>2, <2>3
<1>4. CASE Stages!Cancel
  BY <1>4, NoneIsNoStatus DEF Stages!Cancel, OrderStatus
<1>5. CASE Stages!Resume
  BY <1>5 DEF Stages!Resume
<1> QED
  BY <1>1, <1>2, <1>3, <1>4, <1>5 DEF StageStep, Stages!Next

\* The orders that the factory's desks and overdue alerts rely on, in the same terms.
Live == INSTANCE OrderLifecycle WITH before <- None, customerClosed <- FALSE

\* What they rely on, with what makes it last: an order that would resume in
\* production still has the date of its VPO.
DatesOK ==
  /\ \/ ord.status \in Producing
     \/ ord.status = "CANCELLED" /\ lastCancelFrom \in Producing
     => ord.vpoIssuedAt = TRUE
  /\ ord.stoneReceived = TRUE => ord.kiraSkuNumber = TRUE

\* What KeepsOrder says of a query is enough for the dates,
LEMMA DatesKeep ==
  ASSUME StagesOK, DatesOK, KeepsOrder
  PROVE  DatesOK'
<1> USE DEF StagesOK, DatesOK, KeepsOrder, DateStep, Producing
<1>1. CASE UNCHANGED Stages!stages
  BY <1>1 DEF Stages!stages
<1>2. CASE Stages!Design \/ Stages!Number \/ Stages!Issue
  BY <1>2 DEF Stages!Design, Stages!Number, Stages!Issue
<1>3. CASE Stages!Manufacture \/ Stages!Repair
  BY <1>3 DEF Stages!Manufacture, Stages!Repair
<1>4. CASE Stages!Finish
  BY <1>4 DEF Stages!Finish
<1>5. CASE Stages!Cancel
  BY <1>5 DEF Stages!Cancel
<1>6. CASE Stages!Resume
  BY <1>6 DEF Stages!Resume
<1> QED
  BY <1>1, <1>2, <1>3, <1>4, <1>5, <1>6 DEF StageStep, Stages!Next

\* Every order starts where the promise does.
LEMMA StagesStart == Init => Stages!Init /\ StagesOK /\ DatesOK
BY NoneIsNoStatus
DEF Init, CreatedOrder, Stages!Init, StagesOK, DatesOK, Stages!Stage, Producing, OrderStatus

\* and for the stages.
LEMMA OrderKeeps ==
  ASSUME StagesOK, DatesOK, KeepsOrder
  PROVE  StageStep /\ StagesOK' /\ DatesOK'
BY StagesKeep, DatesKeep DEF KeepsOrder

\* Together they say that what is in production was issued.
LEMMA OrderIsIssued ==
  ASSUME IInv, StagesOK, DatesOK
  PROVE  Live!ProductionIsIssued /\ IssuedHasSku
BY DEF IInv, TablesOK, GoodRow, Order, StagesOK, DatesOK, Producing, IssuedHasSku,
       Live!ProductionIsIssued, Live!InProduction

-----------------------------------------------------------------------------
(* One request at a time keeps it *)

\* A handler that saves the row it read, and of which nobody else wrote meanwhile.
LEMMA SaverIsStage ==
  ASSUME StagesOK, ord \in Order, NEW op \in Savers, ord' \in Saved(op, ord),
         UNCHANGED lastCancelFrom
  PROVE  KeepsOrder
<1>1. CASE op = "CompleteManufacturing"
  <2>1. ord.status = "VPO_ISSUED" /\ ord' = Manufactured(ord)
    BY <1>1 DEF Saved, When
  <2>2. /\ ord'.status = "MANUFACTURED" /\ ord'.kiraSkuNumber = ord.kiraSkuNumber
        /\ ord'.vpoIssuedAt = ord.vpoIssuedAt
    BY <2>1 DEF Manufactured, Order
  <2>3. Stages!Manufacture
    BY <2>1, <2>2 DEF Stages!Manufacture, StagesOK, Producing
  <2> QED
    BY <2>1, <2>2, <2>3 DEF KeepsOrder, StageStep, DateStep, Stages!Next, Producing
<1>2. CASE op = "CompleteRepair"
  <2>1. ord.status = "REPAIR" /\ ord' = [ord EXCEPT !.status = "COMPLETED"]
    BY <1>2 DEF Saved, When
  <2>2. /\ ord'.status = "COMPLETED" /\ ord'.kiraSkuNumber = ord.kiraSkuNumber
        /\ ord'.vpoIssuedAt = ord.vpoIssuedAt /\ ord'.stoneReceived = ord.stoneReceived
    BY <2>1 DEF Order
  <2>3. Stages!Finish
    BY <2>1, <2>2 DEF Stages!Finish
  <2> QED
    BY <2>1, <2>2, <2>3 DEF KeepsOrder, StageStep, DateStep, Stages!Next, Producing
<1>3. CASE op \in {"CloseProject", "AutoArchive", "ReactivateClosedProject", "ReactivateAutoArchived"}
  <2>1. ord' \in {Closed(ord), AutoArchived(ord), Reopened(ord)}
    BY <1>3 DEF Saved, When
  <2>2. SameStage(ord')
    BY <2>1 DEF SameStage, Closed, AutoArchived, Reopened, Order
  <2> QED
    BY <2>2, StageStays
<1>4. CASE op \in {"AssignSupplier", "EditSupplier"}
  <2>1. SameStage(ord')
    <3>1. CASE op = "AssignSupplier"
      <4>1. PICK f \in Factories, s \in SupplySources : ord' = Assigned(ord, f, s)
        BY <1>4, <3>1 DEF Saved
      <4> QED
        BY <4>1 DEF SameStage, Assigned, Order
    <3>2. CASE op = "EditSupplier"
      <4>1. ord' \in Edited(ord)
        BY <1>4, <3>2 DEF Saved
      <4> QED
        BY <4>1 DEF SameStage, Edited, Order
    <3> QED
      BY <1>4, <3>1, <3>2
  <2> QED
    BY <2>1, StageStays
<1>5. CASE op \in {"UpdateQuoteOptions", "SaveQuote"}
  <2>1. ord' \in {ord, [ord EXCEPT !.quotedCost = TRUE]}
    BY <1>5 DEF Saved
  <2>2. SameStage(ord')
    BY <2>1 DEF SameStage, Order
  <2> QED
    BY <2>2, StageStays
<1>6. CASE op = "MarkStoneSent"
  <2>1. ord.status = "VPO_ISSUED" /\ ord' = [ord EXCEPT !.stoneReceived = TRUE]
    BY <1>6 DEF Saved, When
  <2>2. /\ ord'.status = ord.status /\ ord'.kiraSkuNumber = ord.kiraSkuNumber
        /\ ord'.vpoIssuedAt = ord.vpoIssuedAt
    BY <2>1 DEF Order
  <2> QED
    BY <2>1, <2>2 DEF KeepsOrder, StageStep, DateStep, Stages!stages, Producing
<1> QED
  BY <1>1, <1>2, <1>3, <1>4, <1>5, <1>6 DEF Savers

\* A change of status, checked on the row that is saved.
LEMMA MoverIsStage ==
  ASSUME StagesOK, ord \in Order, lastCancelFrom \in OrderStatus \cup {None},
         NEW op \in Movers \ {"IssueVpo"}, NEW from, Permitted(op, ord),
         from = IF op # "ReactivateOrder" THEN ord.status
                ELSE IF lastCancelFrom = None THEN "NEW" ELSE lastCancelFrom,
         ord' = Moved(op, ord, from),
         IF op = "Cancel" THEN LogCancellation(from) ELSE UNCHANGED lastCancelFrom
  PROVE  KeepsOrder
<1>1. CASE op \in {"StartCad", "StartCadWithPrice", "RevertToCad"}
  <2>1. /\ UNCHANGED lastCancelFrom /\ ord'.status = "CAD_IN_PROGRESS"
        /\ ord'.kiraSkuNumber = ord.kiraSkuNumber /\ ord'.stoneReceived = ord.stoneReceived
    <3>1. ord' \in {[ord EXCEPT !.status = "CAD_IN_PROGRESS"],
                    [ord EXCEPT !.status = "CAD_IN_PROGRESS", !.quotedCost = TRUE],
                    RevertedToCad(ord)}
      BY <1>1 DEF Moved
    <3> QED
      BY <1>1, <3>1 DEF RevertedToCad, Order
  <2>2. Stages!Design
    BY <2>1 DEF Stages!Design
  <2> QED
    BY <2>1, <2>2 DEF KeepsOrder, StageStep, DateStep, Stages!Next, Producing
<1>2. CASE op = "RevertToVpo"
  <2>1. ord.status = "MANUFACTURED" /\ ord' = RevertedToVpo(ord)
    BY <1>2 DEF Permitted, Moved
  <2>2. /\ ord'.status = "VPO_ISSUED" /\ ord'.kiraSkuNumber = ord.kiraSkuNumber
        /\ ord'.vpoIssuedAt = TRUE /\ ord'.stoneReceived = ord.stoneReceived
    BY <2>1 DEF RevertedToVpo, Order
  <2>3. Stages!Issue
    BY <1>2, <2>1, <2>2 DEF Stages!Issue, StagesOK, Producing
  <2> QED
    BY <2>1, <2>2, <2>3 DEF KeepsOrder, StageStep, DateStep, Stages!Next, Producing
<1>3. CASE op = "SendToRepair"
  <2>1. ord.status = "MANUFACTURED" /\ ord' = [ord EXCEPT !.status = "REPAIR"]
    BY <1>3 DEF Permitted, Moved
  <2>2. /\ ord'.status = "REPAIR" /\ ord'.kiraSkuNumber = ord.kiraSkuNumber
        /\ ord'.vpoIssuedAt = ord.vpoIssuedAt /\ ord'.stoneReceived = ord.stoneReceived
    BY <2>1 DEF Order
  <2>3. Stages!Repair
    BY <1>3, <2>1, <2>2 DEF Stages!Repair
  <2> QED
    BY <2>1, <2>2, <2>3 DEF KeepsOrder, StageStep, DateStep, Stages!Next, Producing
<1>4. CASE op = "MarkManufactured"
  <2>1. ord.status = "VPO_ISSUED" /\ ord' = Manufactured(ord)
    BY <1>4 DEF Permitted, Moved
  <2>2. /\ ord'.status = "MANUFACTURED" /\ ord'.kiraSkuNumber = ord.kiraSkuNumber
        /\ ord'.vpoIssuedAt = ord.vpoIssuedAt
    BY <2>1 DEF Manufactured, Order
  <2>3. Stages!Manufacture
    BY <1>4, <2>1, <2>2 DEF Stages!Manufacture, StagesOK, Producing
  <2> QED
    BY <2>1, <2>2, <2>3 DEF KeepsOrder, StageStep, DateStep, Stages!Next, Producing
<1>5. CASE op = "CompleteOrder"
  <2>1. \/ "COMPLETED" \in AllowedTransitions[ord.status]
        \/ ord.source = "RING_BUILDER"
    BY <1>5 DEF Permitted
  <2>2. \/ ord.status \in {"MANUFACTURED", "REPAIR"} \/ "RING_BUILDER" \in Origins
    BY <2>1 DEF Order, OrderStatus, AllowedTransitions, StagesOK, Stages!Stage
  <2>3. ord' = Completed(ord)
    BY <1>5 DEF Moved
  <2>4. /\ ord'.status = "COMPLETED" /\ ord'.kiraSkuNumber = ord.kiraSkuNumber
        /\ ord'.vpoIssuedAt = ord.vpoIssuedAt /\ ord'.stoneReceived = ord.stoneReceived
    BY <2>3 DEF Completed, Order
  <2>5. Stages!Finish
    BY <1>5, <2>2, <2>4 DEF Stages!Finish
  <2> QED
    BY <2>4, <2>5 DEF KeepsOrder, StageStep, DateStep, Stages!Next, Producing
<1>6. CASE op = "Cancel"
  <2>1. ord.status # "CANCELLED" /\ ord' = Cancelled(ord) /\ LogCancellation(ord.status)
    BY <1>6 DEF Permitted, Moved
  <2>2. /\ ord'.status = "CANCELLED" /\ ord'.kiraSkuNumber = ord.kiraSkuNumber
        /\ ord'.vpoIssuedAt = ord.vpoIssuedAt /\ ord'.stoneReceived = ord.stoneReceived
    BY <2>1 DEF Cancelled, Order
  <2>3. Stages!Cancel
    BY <2>1, <2>2 DEF Stages!Cancel, LogCancellation
  <2> QED
    BY <2>1, <2>2, <2>3 DEF KeepsOrder, StageStep, DateStep, Stages!Next, Producing
<1>7. CASE op = "ReactivateOrder"
  <2>1. ord.status = "CANCELLED" /\ from = lastCancelFrom
    BY <1>7 DEF Permitted, StagesOK
  <2>2. ord' = [ord EXCEPT !.status = lastCancelFrom, !.isArchived = FALSE]
    BY <1>7, <2>1 DEF Moved
  <2>3. /\ ord'.status = lastCancelFrom /\ ord'.kiraSkuNumber = ord.kiraSkuNumber
        /\ ord'.vpoIssuedAt = ord.vpoIssuedAt /\ ord'.stoneReceived = ord.stoneReceived
    BY <2>2 DEF Order
  <2>4. Stages!Resume
    BY <1>7, <2>1, <2>3 DEF Stages!Resume
  <2> QED
    BY <2>1, <2>3, <2>4 DEF KeepsOrder, StageStep, DateStep, Stages!Next, Producing
<1> QED
  BY <1>1, <1>2, <1>3, <1>4, <1>5, <1>6, <1>7 DEF Movers

\* The row that is put back was read when nothing of its request was written.
LEMMA SaveIsStage ==
  ASSUME NEW r, Alone(r), StagesOK, Save(r)
  PROVE  KeepsOrder
<1> DEFINE q == req[r]
<1>1. /\ Begun(q) /\ q.at = "save" /\ ord' = q.row
      /\ IF q.op = "Cancel" THEN LogCancellation(q.from) ELSE UNCHANGED lastCancelFrom
  BY DEF Alone, SerialInv, Save
<1>2. ord \in Order /\ lastCancelFrom \in OrderStatus \cup {None} /\ Was \in Order
  BY DEF Alone, IInv, TablesOK, GoodRow, SerialInv, WasOK
<1>3. CASE Saving(q)
  <2>1. q.op \in Savers /\ ord' \in Saved(q.op, ord) /\ q.op # "Cancel"
    BY <1>1, <1>3 DEF Saving, Untouched, Hold, Savers
  <2> QED
    BY <1>1, <1>2, <2>1, SaverIsStage
<1>4. CASE ApprovingInPublic(q)
  <2>1. ord' = [Was EXCEPT !.customerEmailApproval = TRUE] /\ ord = Was /\ q.op = "PublicApprove"
    BY <1>1, <1>4 DEF ApprovingInPublic, Hold
  <2>2. SameStage(ord')
    BY <1>2, <2>1 DEF SameStage, Order
  <2> QED
    BY <1>1, <2>1, <2>2, StageStays
<1>5. CASE Moving(q)
  <2>1. /\ ord = Was /\ lastCancelFrom = WasLog /\ q.op \in Movers \ {"IssueVpo"}
        /\ Permitted(q.op, Was) /\ q.row = Moved(q.op, Was, q.from)
        /\ q.from = IF q.op = "ReactivateOrder" THEN Resumed ELSE Was.status
    BY <1>1, <1>5 DEF Moving, Untouched, Hold
  <2>2. Resumed = IF lastCancelFrom = None THEN "NEW" ELSE lastCancelFrom
    BY <2>1 DEF Resumed
  <2>3. /\ Permitted(q.op, ord) /\ ord' = Moved(q.op, ord, q.from)
        /\ q.from = IF q.op # "ReactivateOrder" THEN ord.status
                    ELSE IF lastCancelFrom = None THEN "NEW" ELSE lastCancelFrom
    BY <1>1, <2>1, <2>2
  <2> HIDE DEF q
  <2> QED
    BY <1>1, <1>2, <2>1, <2>3, MoverIsStage
<1>6. CASE Issuing(q)
  <2>1. q.row = Issued(Was) /\ q.op = "IssueVpo"
    BY <1>1, <1>6 DEF Issuing
  <2>2. ord = WithSku(Was)
    BY <1>1, <1>6 DEF Issuing, Hold
  <2>3. /\ ord'.status = "VPO_ISSUED" /\ ord'.kiraSkuNumber = TRUE
        /\ ord'.vpoIssuedAt = TRUE /\ ord'.stoneReceived = ord.stoneReceived
    BY <1>1, <1>2, <2>1, <2>2 DEF Issued, WithSku, Order
  <2>4. Stages!Issue
    BY <1>1, <2>1, <2>3 DEF Stages!Issue
  <2> QED
    BY <2>3, <2>4 DEF KeepsOrder, StageStep, DateStep, Stages!Next, Producing
<1> QED
  BY <1>1, <1>3, <1>4, <1>5, <1>6
  DEF Begun, Idle, Quoting, Marking, Marked, Uploading, Sending, Staging, Reconciling

\* Every query of a request that runs alone keeps the promise, also when the ones
\* that were to follow it are lost.
LEMMA AloneIsStage ==
  ASSUME NEW r, Alone(r), StagesOK, Continue(r)
  PROVE  KeepsOrder
<1> DEFINE q == req[r]
<1>1. r \in Requests /\ IInv /\ Begun(q) /\ ord \in Order
  BY DEF Alone, SerialInv, IInv, TablesOK, GoodRow
<1>2. CASE q.at = "issue" /\ Issue(r)
  <2>1. q.op = "Approve" /\ ord' = [ord EXCEPT !.status = "VPO_ISSUED", !.vpoIssuedAt = TRUE]
        /\ UNCHANGED lastCancelFrom
    BY <1>2 DEF Issue, Ready
  <2>2. ord = WithSku(ApprovalFlagged(Was)) /\ Was \in Order
    BY <1>1, <1>2, <2>1
    DEF Alone, SerialInv, WasOK, Begun, Idle, Saving, ApprovingInPublic, Moving, Issuing, Quoting,
        Marking, Marked, Uploading, Sending, Staging, Reconciling
  <2>3. ord.kiraSkuNumber = TRUE
    BY <2>2 DEF WithSku, ApprovalFlagged, Order
  <2>4. /\ ord'.status = "VPO_ISSUED" /\ ord'.kiraSkuNumber = TRUE
        /\ ord'.vpoIssuedAt = TRUE /\ ord'.stoneReceived = ord.stoneReceived
    BY <1>1, <2>1, <2>3 DEF Order
  <2>5. Stages!Issue
    BY <2>1, <2>4 DEF Stages!Issue
  <2> QED
    BY <2>4, <2>5 DEF KeepsOrder, StageStep, DateStep, Stages!Next, Producing
<1>3. CASE q.at = "cancel"
  <2>1. CancelRejected(r)
    BY <1>3, NextQuery
  <2>2. ord' = Cancelled(ord) /\ LogCancellation(q.from) /\ q.op = "Reject"
    BY <2>1 DEF CancelRejected, Ready
  <2>3. q.from = Was.status /\ ord = Was
    BY <1>1, <1>3, <2>2
    DEF Begun, Idle, Saving, ApprovingInPublic, Moving, Issuing, Quoting,
        Marking, Marked, Uploading, Sending, Staging, Reconciling
  <2>4. /\ ord'.status = "CANCELLED" /\ ord'.kiraSkuNumber = ord.kiraSkuNumber
        /\ ord'.vpoIssuedAt = ord.vpoIssuedAt /\ ord'.stoneReceived = ord.stoneReceived
    BY <1>1, <2>2 DEF Cancelled, Order
  <2>5. CASE ord.status = "CANCELLED"
    BY <2>2, <2>3, <2>4, <2>5, StageStays DEF LogCancellation, SameStage
  <2>6. CASE ord.status # "CANCELLED"
    <3>1. Stages!Cancel
      BY <2>2, <2>3, <2>4, <2>6 DEF Stages!Cancel, LogCancellation
    <3> QED
      BY <2>4, <3>1 DEF KeepsOrder, StageStep, DateStep, Stages!Next, Producing
  <2> QED
    BY <2>5, <2>6
<1>4. CASE q.at = "save"
  BY <1>4, NextQuery, SaveIsStage
<1> QED
  BY <1>1, <1>2, <1>3, <1>4, ColumnQueries

\* So does every step of a server with one request at a time.
LEMMA AloneKeepsOrder ==
  ASSUME NEW r, Requests = {r}, IInv, SerialInv, StagesOK, [Next]_vars
  PROVE  KeepsOrder
<1>1. CASE UNCHANGED vars
  BY <1>1, StageStays DEF vars, SameStage
<1>2. CASE Continue(r)
  BY <1>2, AloneIsStage DEF Alone
<1> QED
  BY <1>1, <1>2, ArrivalKeepsStage, RestartKeepsStage DEF Next

\* One request at a time keeps the promise and what makes it inductive.
LEMMA AloneStays ==
  ASSUME \E r : Requests = {r}
  PROVE  Spec => Stages!Spec /\ [](StagesOK /\ DatesOK)
<1> PICK r : Requests = {r}
  OBVIOUS
<1>1. IInv /\ SerialInv /\ (StagesOK /\ DatesOK) /\ [Next]_vars
        => StageStep /\ (StagesOK /\ DatesOK)'
  BY AloneKeepsOrder, OrderKeeps
<1> QED
  BY <1>1, StagesStart, SerialInductive, Inductive, PTL DEF Spec, Stages!Spec, StageStep

\* A server that is never asked two things at once keeps the promise about the
\* stages in the rows it stores, query by query: also where a restart leaves a
\* handler half-way, for no query relies on one that may not come.
THEOREM CrashKeepsStages ==
  ASSUME \E r : Requests = {r}
  PROVE  Spec => Stages!Spec
BY AloneStays, PTL

\* Nor is there a moment, then, at which an order is in production, or its stone is
\* in, without the SKU and the date of its VPO.
THEOREM CrashKeepsProduction ==
  ASSUME \E r : Requests = {r}
  PROVE  Spec => []Live!ProductionIsIssued
<1>1. IInv /\ (StagesOK /\ DatesOK) => Live!ProductionIsIssued
  BY OrderIsIssued
<1> QED
  BY <1>1, AloneStays, Inductive, PTL

\* In particular no VPO is issued without its SKU: the order found issued without
\* one takes two requests.
THEOREM SerialIssuedHasSku ==
  ASSUME \E r : Requests = {r}
  PROVE  Spec => []IssuedHasSku
<1>1. IInv /\ (StagesOK /\ DatesOK) => IssuedHasSku
  BY OrderIsIssued
<1> QED
  BY <1>1, AloneStays, Inductive, PTL

-----------------------------------------------------------------------------
(* What the comments say is true of requests that do not overlap *)

\* Closing a project does not move it: the status that closeProjectByCustomer saves
\* is the one that is stored.
THEOREM SerialClosingKeepsStatus ==
  ASSUME \E r : Requests = {r}
  PROVE  Spec => ClosingKeepsStatus
<1> PICK one : Requests = {one}
  OBVIOUS
<1>1. SerialInv =>
        [\A r \in Requests :
           Save(r) /\ req[r].op = "CloseProject" => ord'.status = ord.status]_vars
  <2> SUFFICES ASSUME SerialInv, NEW r \in Requests, Save(r), req[r].op = "CloseProject"
               PROVE  ord'.status = ord.status
    OBVIOUS
  <2>1. Saving(req[r])
    BY DEF SerialInv, Begun, Idle, Save, ApprovingInPublic, Moving, Issuing, Quoting, Marking,
           Marked, Uploading, Sending, Staging, Reconciling, Movers, FileHandlers, FileStatusSet
  <2>2. ord' \in Saved("CloseProject", Was) /\ ord = Was /\ Was \in Order
    BY <2>1 DEF Saving, Save, Untouched, Hold, SerialInv, WasOK
  <2>3. Saved("CloseProject", Was) \subseteq {Closed(Was)}
    BY DEF Saved, When
  <2> QED
    BY <2>2, <2>3 DEF Closed, Order
<1> QED
  BY <1>1, SerialInductive, PTL DEF ClosingKeepsStatus

\* No stage is skipped, except by completing a Ring Builder order early.
THEOREM SerialNoStageSkipping ==
  ASSUME \E r : Requests = {r}, "RING_BUILDER" \notin Origins
  PROVE  Spec => NoStageSkipping
<1> PICK one : Requests = {one}
  OBVIOUS
<1>1. SerialInv =>
        \A r \in Requests :
          Save(r) /\ req[r].op \in Movers \ {"Cancel", "ReactivateOrder"} =>
            ord'.status \in AllowedTransitions[ord.status] \cup {ord.status}
  <2> SUFFICES ASSUME SerialInv, NEW r \in Requests, Save(r),
                      req[r].op \in Movers \ {"Cancel", "ReactivateOrder"}
               PROVE  ord'.status \in AllowedTransitions[ord.status] \cup {ord.status}
    OBVIOUS
  <2> DEFINE q == req[r]
  <2>1. ord' = q.row /\ q.at = "save" /\ WasOK /\ Was \in Order
    BY DEF Save, SerialInv, WasOK
  <2>2. Moving(q) \/ Issuing(q)
    BY <2>1 DEF SerialInv, Begun, Idle, Saving, ApprovingInPublic, Quoting, Marking, Marked,
                Uploading, Sending, Staging, Reconciling, Movers, Savers, FileHandlers, FileStatusSet
  <2>3. CASE Issuing(q)
    <3>1. ord = WithSku(Was) /\ q.row = Issued(Was) /\ Was.status = "CAD_IN_PROGRESS"
      BY <2>1, <2>3 DEF Issuing, Hold
    <3> QED
      BY <2>1, <3>1 DEF WithSku, Issued, AllowedTransitions, Order
  <2>4. CASE Moving(q)
    <3>1. /\ ord = Was /\ Permitted(q.op, Was) /\ ord' = Moved(q.op, Was, q.from)
          /\ q.op \in Movers \ {"IssueVpo", "Cancel", "ReactivateOrder"}
      BY <2>1, <2>4 DEF Moving, Untouched, Hold
    <3>2. Was.source # "RING_BUILDER" /\ Was.status \in OrderStatus
      BY <2>1 DEF Order
    <3>3. CASE q.op = "StartCad"
      <4>1. Was.status = "NEW" /\ ord'.status = "CAD_IN_PROGRESS"
        BY <2>1, <3>1, <3>3 DEF Permitted, Moved, Order
      <4> QED
        BY <3>1, <4>1 DEF AllowedTransitions
    <3>4. CASE q.op = "StartCadWithPrice"
      <4>1. Was.status = "NEW" /\ ord' = [Was EXCEPT !.status = "CAD_IN_PROGRESS", !.quotedCost = TRUE]
        BY <3>1, <3>4 DEF Permitted, Moved
      <4>2. ord'.status = "CAD_IN_PROGRESS"
        BY <2>1, <4>1 DEF Order
      <4> QED
        BY <3>1, <4>1, <4>2 DEF AllowedTransitions
    <3>5. CASE q.op = "RevertToVpo"
      <4>1. Was.status = "MANUFACTURED" /\ ord' = RevertedToVpo(Was)
        BY <3>1, <3>5 DEF Permitted, Moved
      <4>2. ord'.status = "VPO_ISSUED"
        BY <2>1, <4>1 DEF Order, RevertedToVpo
      <4> QED
        BY <3>1, <4>1, <4>2 DEF AllowedTransitions
    <3>6. CASE q.op = "RevertToCad"
      <4>1. Was.status = "VPO_ISSUED" /\ ord' = RevertedToCad(Was)
        BY <3>1, <3>6 DEF Permitted, Moved
      <4>2. ord'.status = "CAD_IN_PROGRESS"
        BY <2>1, <4>1 DEF Order, RevertedToCad
      <4> QED
        BY <3>1, <4>1, <4>2 DEF AllowedTransitions
    <3>7. CASE q.op = "SendToRepair"
      <4>1. Was.status = "MANUFACTURED" /\ ord'.status = "REPAIR"
        BY <2>1, <3>1, <3>7 DEF Permitted, Moved, Order
      <4> QED
        BY <3>1, <4>1 DEF AllowedTransitions
    <3>8. CASE q.op = "MarkManufactured"
      <4>1. Was.status = "VPO_ISSUED" /\ ord'.status = "MANUFACTURED"
        BY <2>1, <3>1, <3>8 DEF Permitted, Moved, Manufactured, Order
      <4> QED
        BY <3>1, <4>1 DEF AllowedTransitions
    <3>9. CASE q.op = "CompleteOrder"
      BY <2>1, <3>1, <3>2, <3>9 DEF Permitted, Moved, Completed, Order
    <3> QED
      BY <3>1, <3>3, <3>4, <3>5, <3>6, <3>7, <3>8, <3>9 DEF Movers
  <2> QED
    BY <2>2, <2>3, <2>4
<1> QED
  BY <1>1, SerialInductive, PTL DEF NoStageSkipping

-----------------------------------------------------------------------------
(* Requests that overlap and write named columns only *)

\* CadService, and a rejection on the tracking page: no handler puts back a row it
\* read, as an approval on the tracking page does.
ColumnHandlers == (DOMAIN FileStatusSet \ {"PublicApprove"}) \cup OtherHandlers

\* A VPO is not issued, and no approval is about to issue one, without the SKU.
SkuFirst ==
  /\ IssuedHasSku
  /\ \A r \in Requests : /\ req[r].at # "save"
                         /\ req[r].at = "issue" => ord.kiraSkuNumber

\* It is enough to look at the row, which keeps its SKU, and at the request that
\* took the step.
LEMMA SkuFirstSteps ==
  ASSUME IInv, SkuFirst, NEW r \in Requests, NEW q, Proceed(r, q),
         ord.kiraSkuNumber => ord'.kiraSkuNumber,
         ord'.status = "VPO_ISSUED" => ord'.kiraSkuNumber,
         q.at # "save", q.at = "issue" => ord'.kiraSkuNumber
  PROVE  SkuFirst'
<1>1. ASSUME NEW s \in Requests
      PROVE  req'[s].at # "save" /\ (req'[s].at = "issue" => ord'.kiraSkuNumber)
  <2>1. req'[s] = IF s = r THEN q ELSE req[s]
    BY DEF Proceed, IInv
  <2> QED
    BY <2>1 DEF SkuFirst
<1> QED
  BY <1>1 DEF SkuFirst, IssuedHasSku

\* A step that leaves the row alone, or changes it and keeps the SKU.
LEMMA SkuFirstFinishes ==
  ASSUME IInv, SkuFirst, NEW r \in Requests, Finish(r),
         ord.kiraSkuNumber => ord'.kiraSkuNumber,
         ord'.status = "VPO_ISSUED" => ord'.kiraSkuNumber
  PROVE  SkuFirst'
<1>1. Idle.at = "done"
  BY DEF Idle
<1> QED
  BY <1>1, SkuFirstSteps DEF Finish

\* A handler of CadService starts.
LEMMA ArrivalIsSkuFirst ==
  ASSUME Handlers \subseteq ColumnHandlers, IInv, SkuFirst, NEW r \in Requests, Arrive(r)
  PROVE  SkuFirst'
<1>1. /\ \A op \in Savers : ~Load(r, op)
      /\ \A op \in Movers : ~Check(r, op)
      /\ \A f \in Files : ~FindOrder(r, f)
  BY DEF Load, Check, FindOrder, Free, ColumnHandlers, FileStatusSet, OtherHandlers, Savers, Movers
<1>2. ord.status = "VPO_ISSUED" => ord.kiraSkuNumber
  BY DEF SkuFirst, IssuedHasSku
<1>3. ASSUME NEW q, Proceed(r, q), ord' = ord, q.at \notin {"save", "issue"}
      PROVE  SkuFirst'
  BY <1>2, <1>3, SkuFirstSteps
<1>4. ASSUME NEW op \in DOMAIN FileStatusSet, NEW f \in Files, FindFile(r, op, f)
      PROVE  SkuFirst'
  <2> DEFINE q == [Idle EXCEPT !.op = op, !.at = "mark", !.ids = {f}, !.target = FileStatusSet[op]]
  <2>1. Proceed(r, q) /\ ord' = ord
    BY <1>4 DEF FindFile, tables
  <2>2. q.at = "mark"
    BY DEF Idle
  <2> QED
    BY <1>3, <2>1, <2>2
<1>5. CASE Upload(r)
  <2> DEFINE q == [Idle EXCEPT !.op = "UploadBatch", !.at = "look"]
  <2>1. Proceed(r, q) /\ ord' = ord
    BY <1>5 DEF Upload
  <2>2. q.at = "look"
    BY DEF Idle
  <2> QED
    BY <1>3, <2>1, <2>2
<1>6. CASE Send(r)
  <2> DEFINE q == [Idle EXCEPT !.op = "SendToCustomer", !.at = "find"]
  <2>1. Proceed(r, q) /\ ord' = Sent(ord)
    BY <1>6 DEF Send
  <2>2. q.at = "find"
    BY DEF Idle
  <2>3. ord'.kiraSkuNumber = ord.kiraSkuNumber /\ ord'.status = ord.status
    BY <2>1 DEF Sent, IInv, TablesOK, GoodRow, Order
  <2> HIDE DEF q
  <2> QED
    BY <1>2, <2>1, <2>2, <2>3, SkuFirstSteps
<1>7. ASSUME NEW name \in DOMAIN SubStage, CheckSubStage(r, name)
      PROVE  SkuFirst'
  <2> DEFINE q == [Idle EXCEPT !.op = "SetSubStage", !.at = "columns", !.target = name,
                               !.from = ord.status]
  <2>1. Proceed(r, q) /\ ord' = ord
    BY <1>7 DEF CheckSubStage, tables
  <2>2. q.at = "columns"
    BY DEF Idle
  <2> QED
    BY <1>3, <2>1, <2>2
<1>8. CASE StartReconcile(r)
  <2> DEFINE q == [Idle EXCEPT !.op = "Reconcile", !.at = "compare", !.target = StageColumns(ord)]
  <2>1. Proceed(r, q) /\ ord' = ord
    BY <1>8 DEF StartReconcile, tables
  <2>2. q.at = "compare"
    BY DEF Idle
  <2> QED
    BY <1>3, <2>1, <2>2
<1> QED
  BY <1>1, <1>4, <1>5, <1>6, <1>7, <1>8 DEF Arrive

\* It goes on: the only query that issues a VPO comes after the SKU was seen or stored.
LEMMA ContinuationIsSkuFirst ==
  ASSUME Handlers \subseteq ColumnHandlers, IInv, SkuFirst, NEW r \in Requests, Continue(r)
  PROVE  SkuFirst'
<1> DEFINE q == req[r]
<1>1. /\ q \in Request /\ Carries(q) /\ q.at # "save" /\ (q.at = "issue" => ord.kiraSkuNumber)
      /\ q.op \in ColumnHandlers \cup {None}
  <2>1. q \in Request /\ Carries(q)
    BY DEF IInv, RequestsOK, RequestOK
  <2> QED
    BY <2>1 DEF Request, SkuFirst
<1>2. /\ q.op \notin Movers /\ q.op \notin {"SaveQuote", "StartCadWithPrice", "PublicApprove"}
  BY <1>1, NoneIsNoHandler
  DEF ColumnHandlers, FileStatusSet, OtherHandlers, Movers, Savers, AllHandlers
<1>3. ord \in Order /\ (ord.status = "VPO_ISSUED" => ord.kiraSkuNumber)
  BY DEF IInv, TablesOK, GoodRow, SkuFirst, IssuedHasSku
<1>a. ASSUME NEW n, Proceed(r, n), ord' = ord, n.at # "save", n.at = "issue" => ord.kiraSkuNumber
      PROVE  SkuFirst'
  BY <1>3, <1>a, SkuFirstSteps
<1>b. ASSUME Finish(r), ord' = ord
      PROVE  SkuFirst'
  BY <1>3, <1>b, SkuFirstFinishes
<1>4. ~(q.at \in {"findForQuote", "send", "verify", "lookup", "reload", "approveFiles"})
  BY <1>1, <1>2 DEF Carries
<1>5. CASE q.at = "sku" /\ InsertSku(r)
  <2> DEFINE n == [q EXCEPT !.at = "number"]
  <2>1. n.at = "number"
    BY <1>1 DEF Request
  <2>2. ord' = ord /\ (Proceed(r, n) \/ Finish(r))
    BY <1>5 DEF InsertSku, tables
  <2> HIDE DEF n
  <2> QED
    BY <1>a, <1>b, <2>1, <2>2
<1>6. CASE q.at = "number" /\ StoreSku(r)
  <2> DEFINE n == [q EXCEPT !.at = IF q.op = "IssueVpo" THEN "approveFiles" ELSE "issue"]
  <2>1. n.at # "save"
    BY <1>1 DEF Request
  <2>2. Proceed(r, n) /\ ord' = [ord EXCEPT !.kiraSkuNumber = TRUE]
    BY <1>6 DEF StoreSku
  <2>3. ord'.kiraSkuNumber
    BY <1>3, <2>2 DEF Order
  <2> HIDE DEF n
  <2> QED
    BY <2>1, <2>2, <2>3, SkuFirstSteps
<1>7. CASE q.at = "findFile" /\ FindFileOfOrder(r)
  <2> DEFINE n == [q EXCEPT !.at = "mark"]
  <2>1. n.at = "mark"
    BY <1>1 DEF Request
  <2>2. ord' = ord /\ (Proceed(r, n) \/ Finish(r))
    BY <1>7 DEF FindFileOfOrder, tables
  <2> HIDE DEF n
  <2> QED
    BY <1>a, <1>b, <2>1, <2>2
<1>8. CASE q.at = "mark" /\ Mark(r)
  <2> DEFINE n == [q EXCEPT !.at = AfterMark[q.op], !.ids = {}, !.target = None]
  <2>1. q.op \in DOMAIN AfterMark
    BY <1>1, <1>8 DEF Carries
  <2>2. AfterMark[q.op] \notin {"save", "issue"}
    BY <1>2, <2>1 DEF AfterMark
  <2>3. n.at = AfterMark[q.op]
    BY <1>1 DEF Request
  <2>4. ord' = ord /\ (Proceed(r, n) \/ Finish(r))
    BY <1>8 DEF Mark
  <2> HIDE DEF n
  <2> QED
    BY <1>a, <1>b, <2>2, <2>3, <2>4
<1>9. CASE q.at = "flags" /\ Flag(r)
  <2> DEFINE n == [q EXCEPT !.at = "look"]
  <2>1. n.at = "look"
    BY <1>1 DEF Request
  <2>2. Proceed(r, n) /\ ord' = ApprovalFlagged(ord)
    BY <1>9 DEF Flag
  <2>3. ord'.kiraSkuNumber = ord.kiraSkuNumber /\ ord'.status = ord.status
    BY <1>3, <2>2 DEF ApprovalFlagged, Order
  <2> HIDE DEF n
  <2> QED
    BY <1>3, <2>1, <2>2, <2>3, SkuFirstSteps
<1>10. CASE q.at = "look" /\ Look(r)
  <2>1. ord' = ord /\ q.op \in {"Approve", "Reject", "SendForApproval", "UploadBatch"}
    BY <1>1, <1>10 DEF Look, Carries, tables
  <2>2. CASE q.op = "Approve"
    <3> DEFINE n == [q EXCEPT !.at = IF ord.kiraSkuNumber THEN "issue" ELSE "sku"]
    <3>1. n.at # "save" /\ (n.at = "issue" => ord.kiraSkuNumber)
      BY <1>1 DEF Request
    <3>2. Proceed(r, n)
      BY <1>10, <2>2 DEF Look
    <3> HIDE DEF n
    <3> QED
      BY <1>a, <2>1, <3>1, <3>2
  <2>3. CASE q.op = "Reject"
    <3> DEFINE n == [q EXCEPT !.at = "cancel", !.from = ord.status]
    <3>1. n.at = "cancel"
      BY <1>1 DEF Request
    <3>2. Proceed(r, n)
      BY <1>10, <2>3 DEF Look
    <3> HIDE DEF n
    <3> QED
      BY <1>a, <2>1, <3>1, <3>2
  <2>4. CASE q.op \in {"SendForApproval", "UploadBatch"}
    <3> DEFINE n == [q EXCEPT !.at = "queue"]
    <3>1. n.at = "queue"
      BY <1>1 DEF Request
    <3>2. Proceed(r, n) \/ Finish(r)
      BY <1>10, <2>4 DEF Look
    <3> HIDE DEF n
    <3> QED
      BY <1>a, <1>b, <2>1, <3>1, <3>2
  <2> QED
    BY <2>1, <2>2, <2>3, <2>4
<1>11. CASE q.at = "issue" /\ Issue(r)
  <2>1. ord' = [ord EXCEPT !.status = "VPO_ISSUED", !.vpoIssuedAt = TRUE] /\ Finish(r)
    BY <1>11 DEF Issue
  <2>2. ord'.kiraSkuNumber
    BY <1>1, <1>3, <1>11, <2>1 DEF Order
  <2> QED
    BY <2>1, <2>2, SkuFirstFinishes
<1>12. CASE CancelRejected(r) \/ Revise(r)
  <2>1. Finish(r) /\ (ord' = Cancelled(ord) \/ ord' = RevisionRequested(ord))
    BY <1>12 DEF CancelRejected, Revise
  <2>2. ord'.kiraSkuNumber = ord.kiraSkuNumber /\ ord'.status # "VPO_ISSUED"
    BY <1>3, <2>1 DEF Cancelled, RevisionRequested, Order
  <2> QED
    BY <2>1, <2>2, SkuFirstFinishes
<1>13. CASE Queue(r)
  <2>1. PICK status \in {"CAD_IN_PROGRESS", ord.status} :
          ord' = [ord EXCEPT !.cadSubStatus = "UPLOADED", !.status = status]
    BY <1>13 DEF Queue
  <2>2. Finish(r)
    BY <1>13 DEF Queue
  <2>3. ord'.kiraSkuNumber = ord.kiraSkuNumber /\ ord'.status = status
    BY <1>3, <2>1 DEF Order
  <2> QED
    BY <1>3, <2>2, <2>3, SkuFirstFinishes
<1>14. CASE q.at = "columns" /\ SetColumns(r)
  <2> DEFINE n == [q EXCEPT !.at = "find", !.target = SubStage[q.target].fileStatus]
  <2>1. n.at = "find"
    BY <1>1 DEF Request
  <2>2. Proceed(r, n)
    BY <1>14 DEF SetColumns
  <2>3. ord'.kiraSkuNumber = ord.kiraSkuNumber /\ ord'.status = "CAD_IN_PROGRESS"
    <3> DEFINE stage == SubStage[q.target]
    <3>1. PICK old : old = IF ord.status = "VPO_ISSUED" THEN FALSE ELSE ord.vpoIssuedAt
      OBVIOUS
    <3>2. PICK new : new = IF q.from = "VPO_ISSUED" THEN FALSE ELSE ord.vpoIssuedAt
      OBVIOUS
    <3>3. ord' = [InSubStage(ord, stage) EXCEPT !.vpoIssuedAt = new]
      BY <1>14, <3>2 DEF SetColumns
    <3> HIDE DEF stage
    <3>4. InSubStage(ord, stage) =
            [ord EXCEPT !.status = "CAD_IN_PROGRESS", !.cadSubStatus = stage.cadSubStatus,
                        !.sentToCustomer = stage.sentToCustomer,
                        !.customerEmailApproval = FALSE,
                        !.awaitingApprovalSince = stage.sentToCustomer, !.vpoIssuedAt = old]
      BY <3>1 DEF InSubStage
    <3> QED
      BY <1>3, <3>3, <3>4 DEF Order
  <2> HIDE DEF n
  <2> QED
    BY <2>1, <2>2, <2>3, SkuFirstSteps
<1>15. CASE q.at = "find" /\ FindFiles(r)
  <2>1. ord' = ord
    BY <1>15 DEF FindFiles, tables
  <2>2. Finish(r) \/ \E ids, target : Proceed(r, [q EXCEPT !.at = "mark", !.ids = ids, !.target = target])
    BY <1>15 DEF FindFiles
  <2>3. ASSUME NEW ids, NEW target,
               Proceed(r, [q EXCEPT !.at = "mark", !.ids = ids, !.target = target])
        PROVE  SkuFirst'
    <3> DEFINE n == [q EXCEPT !.at = "mark", !.ids = ids, !.target = target]
    <3>1. n.at = "mark" /\ Proceed(r, n)
      BY <1>1, <2>3 DEF Request
    <3> HIDE DEF n
    <3> QED
      BY <1>a, <2>1, <3>1
  <2> QED
    BY <1>b, <2>1, <2>2, <2>3
<1>16. CASE q.at = "compare" /\ Compare(r)
  <2>1. ord' = ord
    BY <1>16 DEF Compare, tables
  <2>2. Finish(r) \/ \E target : Proceed(r, [q EXCEPT !.at = "resync", !.target = target])
    BY <1>16 DEF Compare
  <2>3. ASSUME NEW target, Proceed(r, [q EXCEPT !.at = "resync", !.target = target])
        PROVE  SkuFirst'
    <3> DEFINE n == [q EXCEPT !.at = "resync", !.target = target]
    <3>1. n.at = "resync" /\ Proceed(r, n)
      BY <1>1, <2>3 DEF Request
    <3> HIDE DEF n
    <3> QED
      BY <1>a, <2>1, <3>1
  <2> QED
    BY <1>b, <2>1, <2>2, <2>3
<1>17. CASE q.at = "resync" /\ Resync(r)
  <2>1. Finish(r) /\ ord' = Resynced(ord, q.target)
    BY <1>17 DEF Resync
  <2>2. ord'.kiraSkuNumber = ord.kiraSkuNumber /\ ord'.status = ord.status
    BY <1>3, <2>1 DEF Resynced, Order
  <2> QED
    BY <1>3, <2>1, <2>2, SkuFirstFinishes
<1> QED
  BY <1>1, <1>4, <1>5, <1>6, <1>7, <1>8, <1>9, <1>10, <1>11, <1>12, <1>13, <1>14, <1>15, <1>16,
     <1>17, NextQuery

\* So does every step of the server.
LEMMA ColumnsKeepSkuFirst ==
  ASSUME Handlers \subseteq ColumnHandlers, IInv, SkuFirst, [Next]_vars
  PROVE  SkuFirst'
<1>1. CASE UNCHANGED vars
  BY <1>1 DEF vars, SkuFirst, IssuedHasSku
<1>2. CASE Restart
  <2>1. ord'.kiraSkuNumber = ord.kiraSkuNumber /\ ord'.status = ord.status
    BY <1>2 DEF Restart, IInv, TablesOK, GoodRow, Order
  <2>2. \A r \in Requests : req'[r].at = "done"
    BY <1>2 DEF Restart, Idle
  <2> QED
    BY <2>1, <2>2 DEF SkuFirst, IssuedHasSku
<1> QED
  BY <1>1, <1>2, ArrivalIsSkuFirst, ContinuationIsSkuFirst DEF Next

\* Nothing is issued yet.
LEMMA SkuFirstStarts == Init => SkuFirst
BY DEF Init, CreatedOrder, Idle, SkuFirst, IssuedHasSku

\* Any number of requests, overlapping in any way and cut off by restarts: as long as
\* they are those of CadService, which updates named columns only, no VPO is issued
\* without its SKU.  It takes a row that is saved whole to lose one.
THEOREM ColumnsKeepSku ==
  ASSUME Handlers \subseteq ColumnHandlers
  PROVE  Spec => []IssuedHasSku
<1>1. IInv /\ SkuFirst /\ [Next]_vars => SkuFirst'
  BY ColumnsKeepSkuFirst
<1>2. SkuFirst => IssuedHasSku
  BY DEF SkuFirst
<1> QED
  BY <1>1, <1>2, SkuFirstStarts, Inductive, PTL DEF Spec

\* Nor, rejections aside, does a step of theirs leave the promise about the stages.
LEMMA ColumnsKeepOrder ==
  ASSUME Handlers \subseteq ColumnHandlers \ {"Reject"}, IInv, SkuFirst, [Next]_vars
  PROVE  KeepsOrder
<1>1. CASE UNCHANGED vars
  BY <1>1, StageStays DEF vars, SameStage
<1>2. ASSUME NEW r \in Requests, Continue(r)
      PROVE  KeepsOrder
  <2>1. req[r].at # "save"
    BY DEF SkuFirst
  <2>2. req[r].at # "cancel"
    <3>1. SUFFICES ASSUME CancelRejected(r) PROVE FALSE
      BY <1>2, NextQuery
    <3>2. req[r].op = "Reject"
      BY <3>1 DEF CancelRejected, Ready
    <3>3. req[r].op \in Handlers \cup {None}
      BY DEF IInv, RequestsOK, RequestOK, Request
    <3> QED
      BY <3>2, <3>3, NoneIsNoHandler DEF AllHandlers, FileStatusSet
  <2>3. CASE req[r].at = "issue" /\ Issue(r)
    <3>1. ord' = [ord EXCEPT !.status = "VPO_ISSUED", !.vpoIssuedAt = TRUE] /\ ord.kiraSkuNumber
      BY <1>2, <2>3 DEF Issue, SkuFirst
    <3>2. /\ ord'.status = "VPO_ISSUED" /\ ord'.kiraSkuNumber /\ UNCHANGED lastCancelFrom
          /\ ord'.vpoIssuedAt = TRUE /\ ord'.stoneReceived = ord.stoneReceived
      BY <2>3, <3>1 DEF Issue, IInv, TablesOK, GoodRow, Order
    <3>3. ord.kiraSkuNumber = TRUE /\ ord'.kiraSkuNumber = TRUE
      BY <3>1, <3>2 DEF IInv, TablesOK, GoodRow, Order
    <3>4. Stages!Issue
      BY <3>2, <3>3 DEF Stages!Issue
    <3> QED
      BY <3>2, <3>4 DEF KeepsOrder, StageStep, DateStep, Stages!Next, Producing
  <2> QED
    BY <1>2, <2>1, <2>2, <2>3, ColumnQueries
<1> QED
  BY <1>1, <1>2, ArrivalKeepsStage, RestartKeepsStage DEF Next

\* So do handlers that write single columns, however they overlap.
LEMMA ColumnsStay ==
  ASSUME Handlers \subseteq ColumnHandlers \ {"Reject"}
  PROVE  Spec => Stages!Spec /\ [](StagesOK /\ DatesOK)
<1>1. IInv /\ SkuFirst /\ [Next]_vars => SkuFirst'
  BY ColumnsKeepSkuFirst
<1>2. IInv /\ SkuFirst /\ (StagesOK /\ DatesOK) /\ [Next]_vars
        => StageStep /\ (StagesOK /\ DatesOK)'
  BY ColumnsKeepOrder, OrderKeeps
<1> QED
  BY <1>1, <1>2, SkuFirstStarts, StagesStart, Inductive, PTL DEF Spec, Stages!Spec, StageStep

\* CadService, rejections aside, keeps the whole promise about the stages however
\* many of its requests overlap and wherever a restart cuts them off.  A rejection
\* does not: it logs the stage it read, and by then the order may have left it.
THEOREM ColumnsKeepStages ==
  ASSUME Handlers \subseteq ColumnHandlers \ {"Reject"}
  PROVE  Spec => Stages!Spec
BY ColumnsStay, PTL

\* Nor do they bring an order into production without the date of its VPO.
THEOREM ColumnsKeepProduction ==
  ASSUME Handlers \subseteq ColumnHandlers \ {"Reject"}
  PROVE  Spec => []Live!ProductionIsIssued
<1>1. IInv /\ (StagesOK /\ DatesOK) => Live!ProductionIsIssued
  BY OrderIsIssued
<1> QED
  BY <1>1, ColumnsStay, Inductive, PTL
=============================================================================
