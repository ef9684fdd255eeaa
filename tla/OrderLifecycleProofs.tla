------------------------ MODULE OrderLifecycleProofs ------------------------
(***************************************************************************)
(* Proofs about OrderLifecycle, for any catalog of factories and           *)
(* suppliers and any number of design files; then about the modules that   *)
(* extend it: the event log (OrderLog), the pages (OrderDesks) and the     *)
(* clocks of a design that waits (ApprovalStall). Each of the three keeps  *)
(* the inductive invariant, so that what is proved here holds there too.   *)
(* Where a comment of the code promises more than its handlers keep, a     *)
(* theorem says which steps are the exceptions.                            *)
(***************************************************************************)
EXTENDS OrderLifecycle, OrderLog, OrderDesks, ApprovalStall, OrderRowProofs,
        WellFoundedInduction, TLAPS

-----------------------------------------------------------------------------
(* Type correctness *)

HandledOK ==
  /\ ord \in Order
  /\ file \in [Files -> CadFileStatus]
  /\ lastCancelFrom \in OrderStatus \cup {None}

\* The stage handlers of OrdersService.
LEMMA StageStepTyped ==
  ASSUME HandledOK, StageStep
  PROVE  HandledOK'
<1> USE DEF HandledOK
<1>a. ASSUME NEW r \in Order, WithAutoSend(r) \/ (ord' = r /\ UNCHANGED file)
      PROVE  ord' \in Order /\ file' \in [Files -> CadFileStatus]
  BY <1>a, EffectsAreOrders, BumpedFiles DEF WithAutoSend, CadFileStatus
<1>1. ASSUME NEW priced \in BOOLEAN, StartCad(priced)
      PROVE  HandledOK'
  <2> DEFINE r == [ord EXCEPT !.status = "CAD_IN_PROGRESS", !.quotedCost = @ \/ priced]
  <2>1. r \in Order
    <3>1. (ord.quotedCost \/ priced) \in BOOLEAN
      OBVIOUS
    <3>2. PICK q \in BOOLEAN : r = [ord EXCEPT !.status = "CAD_IN_PROGRESS", !.quotedCost = q]
      BY <3>1, Zenon
    <3> HIDE DEF r
    <3> QED
      BY <3>2 DEF Order, OrderStatus
  <2>2. UNCHANGED lastCancelFrom /\ (WithAutoSend(r) \/ (ord' = r /\ UNCHANGED file))
    BY <1>1 DEF StartCad
  <2> HIDE DEF r
  <2> QED
    BY <2>1, <2>2, <1>a
<1>2. CASE SaveQuote
  <2>1. [ord EXCEPT !.quotedCost = TRUE] \in Order
    BY DEF Order
  <2> QED
    BY <2>1, <1>2, <1>a DEF SaveQuote
<1>3. ASSUME NEW priced \in BOOLEAN, NEW codeKnown \in BOOLEAN, IssueVpo(priced, codeKnown)
      PROVE  HandledOK'
  <2>1. [ord EXCEPT !.kiraSkuNumber = TRUE] \in Order
    BY DEF Order
  <2>2. Bumped(file, "SENT_FOR_APPROVAL", "APPROVED") \in [Files -> CadFileStatus]
    BY BumpedFiles DEF CadFileStatus
  <2> QED
    BY <2>1, <2>2, <1>3, EffectsAreOrders DEF IssueVpo
<1>4. CASE RevertToVpo \/ RevertToCad \/ CompleteOrder \/ RingBuilderComplete
  BY <1>4, EffectsAreOrders DEF RevertToVpo, RevertToCad, CompleteOrder, RingBuilderComplete
<1>5. CASE SendToRepair
  BY <1>5 DEF SendToRepair, Order, OrderStatus
<1>6. ASSUME NEW role \in Roles, MarkManufactured(role)
      PROVE  HandledOK'
  BY <1>6, EffectsAreOrders DEF MarkManufactured
<1> QED
  BY <1>1, <1>2, <1>3, <1>4, <1>5, <1>6 DEF StageStep

\* Cancelling, closing, archiving and their undoing.
LEMMA ClosureStepTyped ==
  ASSUME HandledOK, ClosureStep
  PROVE  HandledOK'
<1> USE DEF HandledOK
<1>1. CASE Cancel
  BY <1>1, EffectsAreOrders DEF Cancel, LogCancellation, Order
<1>2. CASE ReactivateOrder
  <2>1. (IF lastCancelFrom = None THEN "NEW" ELSE lastCancelFrom) \in OrderStatus
    BY DEF OrderStatus
  <2> QED
    BY <2>1, <1>2 DEF ReactivateOrder, Order
<1>3. CASE CloseProject \/ ReactivateClosedProject \/ ReactivateAutoArchived \/ AutoArchive
  BY <1>3, EffectsAreOrders
  DEF CloseProject, ReactivateClosedProject, ReactivateAutoArchived, AutoArchive
<1> QED
  BY <1>1, <1>2, <1>3 DEF ClosureStep

\* Suppliers, stones, the workshop and the repair desk.
LEMMA RoutingStepTyped ==
  ASSUME HandledOK, RoutingStep
  PROVE  HandledOK'
<1> USE DEF HandledOK
<1>1. CASE (\E f \in Factories, s \in SupplySources : AssignSupplier(f, s)) \/ EditSupplier
  <2>1. ASSUME NEW f \in Factories, NEW s \in SupplySources, AssignSupplier(f, s)
        PROVE  HandledOK'
    BY <2>1 DEF AssignSupplier, Assigned, Order
  <2>2. CASE EditSupplier
    BY <2>2 DEF EditSupplier, Order
  <2> QED
    BY <1>1, <2>1, <2>2
<1>2. CASE StartupCleanup \/ MarkStoneSent
  BY <1>2 DEF StartupCleanup, MarkStoneSent, Order
<1>3. CASE BackfillStuckCadApprovals
  BY <1>3, BumpedFiles DEF BackfillStuckCadApprovals, CadFileStatus
<1>4. ASSUME NEW role \in Roles, CompleteManufacturing(role)
      PROVE  HandledOK'
  BY <1>4, EffectsAreOrders DEF CompleteManufacturing
<1>5. CASE CompleteRepair
  BY <1>5 DEF CompleteRepair, Order, OrderStatus
<1> QED
  BY <1>1, <1>2, <1>3, <1>4, <1>5 DEF RoutingStep

\* Uploads, sub-stages and the answers to a design.
LEMMA CadStepTyped ==
  ASSUME HandledOK, CadStep
  PROVE  HandledOK'
<1> USE DEF HandledOK
<1>1. ASSUME NEW n \in Files, UploadBatch(n)
      PROVE  HandledOK'
  <2>1. file' \in [Files -> CadFileStatus]
    BY <1>1 DEF UploadBatch, CadFileStatus
  <2>2. ord' \in Order
    BY <1>1 DEF UploadBatch, Order, CadSubStatus
  <2> QED
    BY <1>1, <2>1, <2>2 DEF UploadBatch
<1>2. CASE SendToCustomer
  BY <1>2, EffectsAreOrders, BumpedFiles DEF SendToCustomer, CadFileStatus
<1>3. ASSUME NEW name \in DOMAIN SubStage, SetSubStage(name)
      PROVE  HandledOK'
  BY <1>3, EffectsAreOrders, SubStageColumns DEF SetSubStage, CadFileStatus
<1>4. CASE Reconcile
  <2>1. PICK target \in SubStageOf(file) : ord' = Resynced(ord, target)
    BY <1>4 DEF Reconcile
  <2>2. PICK c \in CadSubStatus, sent \in BOOLEAN :
          target = [cadSubStatus |-> c, sentToCustomer |-> sent]
    BY <2>1, SubStagesOfFiles
  <2>3. ord' \in Order
    BY <2>1, <2>2 DEF Resynced, Order
  <2> QED
    BY <1>4, <2>3 DEF Reconcile
<1>5. ASSUME NEW f \in Files, SendForApproval(f)
      PROVE  HandledOK'
  BY <1>5 DEF SendForApproval, Order, OrderStatus, CadSubStatus, CadFileStatus
<1>6. ASSUME NEW f \in Files, NEW skuOk \in BOOLEAN, Approve(f, skuOk)
      PROVE  HandledOK'
  BY <1>6, EffectsAreOrders DEF Approve, CadFileStatus
<1>7. ASSUME NEW f \in Files, Reject(f)
      PROVE  HandledOK'
  <2>1. file' \in [Files -> CadFileStatus] /\ ord' \in Order
    BY <1>7, EffectsAreOrders DEF Reject, CadFileStatus
  <2>2. lastCancelFrom' \in OrderStatus \cup {None}
    BY <1>7 DEF Reject, LogCancellation, Order
  <2> QED
    BY <2>1, <2>2
<1>8. ASSUME NEW f \in Files, RequestRevision(f) \/ DeleteFile(f) \/ PublicReject(f)
      PROVE  HandledOK'
  BY <1>8, EffectsAreOrders DEF RequestRevision, DeleteFile, PublicReject, CadFileStatus
<1>9. ASSUME NEW f \in Files, PublicApprove(f)
      PROVE  HandledOK'
  BY <1>9 DEF PublicApprove, Order, CadFileStatus
<1> QED
  BY <1>1, <1>2, <1>3, <1>4, <1>5, <1>6, <1>7, <1>8, <1>9 DEF CadStep

\* Created and imported rows are well typed.
LEMMA InitTyped ==
  ASSUME Init
  PROVE  TypeOK
<1>1. ord \in Order
  <2>1. CASE \E o \in Origins \ {"IMPORT"}, q \in BOOLEAN, m \in Mountings :
               ord = CreatedOrder(o, q, m)
    BY <2>1, CreatedIsOrder, RowAssumption
  <2>2. CASE /\ "IMPORT" \in Origins
             /\ \E q \in BOOLEAN : \E r \in ResolveImportedStatus(q) :
                  \E sku, approved, archived \in BOOLEAN :
                    ord = ImportedOrder(r, q, sku, approved, archived)
    BY <2>2, ImportedIsOrder
  <2> QED
    BY <2>1, <2>2 DEF Init, InitialOrders
<1>2. file \in [Files -> CadFileStatus]
  BY DEF Init, CadFileStatus
<1> QED
  BY <1>1, <1>2 DEF Init, TypeOK

\* The history variables stay well typed with the rows they look at.
LEMMA ObservedTyped ==
  ASSUME TypeOK, HandledOK', Observe
  PROVE  TypeOK'
<1>1. before' \in OrderStatus \cup {None} /\ customerClosed' \in BOOLEAN
  BY DEF Observe, TypeOK, Order
<1> QED
  BY <1>1 DEF TypeOK, HandledOK

\* Every step keeps the types.
LEMMA StepTyped ==
  ASSUME TypeOK, [Next]_vars
  PROVE  TypeOK'
<1>1. CASE Next
  <2>1. HandledOK'
    BY <1>1, StageStepTyped, ClosureStepTyped, RoutingStepTyped, CadStepTyped
    DEF Next, TypeOK, HandledOK
  <2> QED
    BY <1>1, <2>1, ObservedTyped DEF Next
<1>2. CASE UNCHANGED vars
  BY <1>2 DEF vars, TypeOK
<1> QED
  BY <1>1, <1>2

\* Every reachable state is well typed.
THEOREM TypeCorrect == Spec => []TypeOK
BY InitTyped, StepTyped, PTL DEF Spec

-----------------------------------------------------------------------------
(* The inductive invariant *)

Safe ==
  /\ ProductionIsIssued /\ ResumedIsIssued
  /\ CancellationIsLogged /\ NeverShipped
  /\ ClosureIsRecorded
  /\ ord.source # "IMPORT" => SentOrdersHaveClock


\* A price changes the price and, with an auto-send, the two columns of sending.
LEMMA PricedRow ==
  ASSUME IInv, NEW status \in OrderStatus, NEW q \in BOOLEAN,
         LET r == [ord EXCEPT !.status = status, !.quotedCost = q]
         IN  WithAutoSend(r) \/ ord' = r
  PROVE  \E sent, since \in BOOLEAN :
           /\ ord' = [ord EXCEPT !.status = status, !.quotedCost = q,
                                 !.sentToCustomer = sent, !.awaitingApprovalSince = since]
           /\ sent /\ ord.source # "IMPORT" => since
<1> DEFINE r == [ord EXCEPT !.status = status, !.quotedCost = q]
<1> USE DEF IInv, TypeOK, Order, SentOrdersHaveClock
<1>1. CASE ord' = r
  <2>1. ord' = [ord EXCEPT !.status = status, !.quotedCost = q,
                           !.sentToCustomer = ord.sentToCustomer,
                           !.awaitingApprovalSince = ord.awaitingApprovalSince]
    BY <1>1
  <2> QED
    BY <2>1
<1>2. CASE ord' = Sent(r)
  <2>1. ord' = [ord EXCEPT !.status = status, !.quotedCost = q,
                           !.sentToCustomer = TRUE, !.awaitingApprovalSince = TRUE]
    BY <1>2 DEF Sent
  <2> QED
    BY <2>1
<1> QED
  BY <1>1, <1>2 DEF WithAutoSend

\* The stage handlers keep it.
LEMMA StageStepSafe ==
  ASSUME IInv, StageStep, Observe
  PROVE  Safe'
<1> USE DEF IInv, TypeOK, Order, Observe, Safe, ProductionIsIssued, ResumedIsIssued,
            CancellationIsLogged, NeverShipped, ClosureIsRecorded, SentOrdersHaveClock,
            InProduction
<1>1. ASSUME NEW priced \in BOOLEAN, StartCad(priced)
      PROVE  Safe'
  <2>1. PICK q \in BOOLEAN :
          LET r == [ord EXCEPT !.status = "CAD_IN_PROGRESS", !.quotedCost = q]
          IN  WithAutoSend(r) \/ ord' = r
    <3>1. (ord.quotedCost \/ priced) \in BOOLEAN
      OBVIOUS
    <3> QED
      BY <1>1, <3>1, Zenon DEF StartCad
  <2>2. "CAD_IN_PROGRESS" \in OrderStatus
    BY DEF OrderStatus
  <2>3. PICK sent, since \in BOOLEAN :
          /\ ord' = [ord EXCEPT !.status = "CAD_IN_PROGRESS", !.quotedCost = q,
                                !.sentToCustomer = sent, !.awaitingApprovalSince = since]
          /\ sent /\ ord.source # "IMPORT" => since
    <3> HIDE DEF IInv
    <3> QED
      BY <2>1, <2>2, PricedRow
  <2> QED
    BY <1>1, <2>3 DEF StartCad
<1>2. CASE SaveQuote
  <2>1. /\ ord.status \in OrderStatus
        /\ [ord EXCEPT !.quotedCost = TRUE] =
             [ord EXCEPT !.status = ord.status, !.quotedCost = TRUE]
    OBVIOUS
  <2>2. PICK sent, since \in BOOLEAN :
          /\ ord' = [ord EXCEPT !.status = ord.status, !.quotedCost = TRUE,
                                !.sentToCustomer = sent, !.awaitingApprovalSince = since]
          /\ sent /\ ord.source # "IMPORT" => since
    <3>1. LET r == [ord EXCEPT !.status = ord.status, !.quotedCost = TRUE]
          IN  WithAutoSend(r) \/ ord' = r
      BY <1>2, <2>1, Zenon DEF SaveQuote
    <3> HIDE DEF IInv
    <3> QED
      BY <2>1, <3>1, PricedRow
  <2> QED
    BY <1>2, <2>2 DEF SaveQuote
<1>3. ASSUME NEW priced \in BOOLEAN, NEW codeKnown \in BOOLEAN, IssueVpo(priced, codeKnown)
      PROVE  Safe'
  BY <1>3 DEF IssueVpo, Issued, Transition, AllowedTransitions
<1>4. CASE RevertToVpo
  BY <1>4 DEF RevertToVpo, RevertedToVpo
<1>5. CASE RevertToCad
  BY <1>5 DEF RevertToCad, RevertedToCad
<1>6. CASE SendToRepair
  BY <1>6 DEF SendToRepair, Transition, AllowedTransitions, OrderStatus
<1>7. ASSUME NEW role \in Roles, MarkManufactured(role)
      PROVE  Safe'
  BY <1>7 DEF MarkManufactured, Manufactured, Transition, AllowedTransitions, OrderStatus
<1>8. CASE CompleteOrder
  BY <1>8 DEF CompleteOrder, Completed
<1>9. CASE RingBuilderComplete
  BY <1>9 DEF RingBuilderComplete, Completed
<1> HIDE DEF IInv, Observe, Safe
<1> QED
  BY <1>1, <1>2, <1>3, <1>4, <1>5, <1>6, <1>7, <1>8, <1>9 DEF StageStep


\* Cancelling, closing, archiving and their undoing keep it.
LEMMA ClosureStepSafe ==
  ASSUME IInv, ClosureStep, Observe
  PROVE  Safe'
<1> USE DEF IInv, TypeOK, Order, Observe, Safe, ProductionIsIssued, ResumedIsIssued,
            CancellationIsLogged, NeverShipped, ClosureIsRecorded, SentOrdersHaveClock,
            InProduction
<1>1. CASE Cancel
  BY <1>1, NoneIsNoStatus DEF Cancel, Cancelled, LogCancellation
<1>2. CASE ReactivateOrder
  BY <1>2 DEF ReactivateOrder
<1>3. CASE CloseProject
  BY <1>3 DEF CloseProject, Closed
<1>4. CASE ReactivateClosedProject
  BY <1>4 DEF ReactivateClosedProject, Reopened
<1>5. CASE ReactivateAutoArchived
  BY <1>5 DEF ReactivateAutoArchived, Reopened
<1>6. CASE AutoArchive
  BY <1>6 DEF AutoArchive, AutoArchived
<1> HIDE DEF IInv, Observe, Safe
<1> QED
  BY <1>1, <1>2, <1>3, <1>4, <1>5, <1>6 DEF ClosureStep


\* Suppliers, stones, the workshop and the repair desk keep it.
LEMMA RoutingStepSafe ==
  ASSUME IInv, RoutingStep, Observe
  PROVE  Safe'
<1> USE DEF IInv, TypeOK, Order, Observe, Safe, ProductionIsIssued, ResumedIsIssued,
            CancellationIsLogged, NeverShipped, ClosureIsRecorded, SentOrdersHaveClock,
            InProduction
<1>1. ASSUME NEW f \in Factories, NEW s \in SupplySources, AssignSupplier(f, s)
      PROVE  Safe'
  BY <1>1 DEF AssignSupplier, Assigned
<1>2. CASE EditSupplier
  BY <1>2 DEF EditSupplier
<1>3. CASE StartupCleanup
  BY <1>3 DEF StartupCleanup
<1>4. CASE BackfillStuckCadApprovals
  BY <1>4 DEF BackfillStuckCadApprovals
<1>5. CASE MarkStoneSent
  BY <1>5 DEF MarkStoneSent
<1>6. ASSUME NEW role \in Roles, CompleteManufacturing(role)
      PROVE  Safe'
  BY <1>6 DEF CompleteManufacturing, Manufactured
<1>7. CASE CompleteRepair
  BY <1>7 DEF CompleteRepair
<1> HIDE DEF IInv, Observe, Safe
<1> QED
  BY <1>1, <1>2, <1>3, <1>4, <1>5, <1>6, <1>7 DEF RoutingStep


\* Uploads, sub-stages and the answers to a design keep it.
LEMMA CadStepSafe ==
  ASSUME IInv, CadStep, Observe
  PROVE  Safe'
<1> USE DEF IInv, TypeOK, Order, Observe, Safe, ProductionIsIssued, ResumedIsIssued,
            CancellationIsLogged, NeverShipped, ClosureIsRecorded, SentOrdersHaveClock,
            InProduction
<1>1. ASSUME NEW n \in Files, UploadBatch(n)
      PROVE  Safe'
  BY <1>1 DEF UploadBatch
<1>2. CASE SendToCustomer
  BY <1>2 DEF SendToCustomer, Sent
<1>3. ASSUME NEW name \in DOMAIN SubStage, SetSubStage(name)
      PROVE  Safe'
  BY <1>3 DEF SetSubStage, InSubStage
<1>4. CASE Reconcile
  BY <1>4 DEF Reconcile, Resynced
<1>5. ASSUME NEW f \in Files, SendForApproval(f)
      PROVE  Safe'
  BY <1>5 DEF SendForApproval
<1>6. ASSUME NEW f \in Files, NEW skuOk \in BOOLEAN, Approve(f, skuOk)
      PROVE  Safe'
  BY <1>6 DEF Approve, ApprovalIssued, ApprovalFlagged
<1>7. ASSUME NEW f \in Files, Reject(f)
      PROVE  Safe'
  BY <1>7, NoneIsNoStatus DEF Reject, Cancelled, LogCancellation
<1>8. ASSUME NEW f \in Files, RequestRevision(f)
      PROVE  Safe'
  BY <1>8 DEF RequestRevision, RevisionRequested
<1>9. ASSUME NEW f \in Files, DeleteFile(f) \/ PublicReject(f)
      PROVE  Safe'
  BY <1>9 DEF DeleteFile, PublicReject
<1>10. ASSUME NEW f \in Files, PublicApprove(f)
      PROVE  Safe'
  BY <1>10 DEF PublicApprove
<1> HIDE DEF IInv, Observe, Safe
<1> QED
  BY <1>1, <1>2, <1>3, <1>4, <1>5, <1>6, <1>7, <1>8, <1>9, <1>10 DEF CadStep

\* Created and imported rows satisfy it,
LEMMA InitHolds ==
  ASSUME Init
  PROVE  IInv
<1>1. Safe
  <2> USE DEF Safe, ProductionIsIssued, ResumedIsIssued, CancellationIsLogged, NeverShipped,
              ClosureIsRecorded, SentOrdersHaveClock, InProduction, Init, CreatedOrder
  <2>1. CASE \E o \in Origins \ {"IMPORT"}, q \in BOOLEAN, m \in Mountings :
               ord = CreatedOrder(o, q, m)
    BY <2>1, NoneIsNoStatus DEF OrderStatus
  <2>2. CASE \E q \in BOOLEAN : \E r \in ResolveImportedStatus(q) :
               \E sku, approved, archived \in BOOLEAN :
                 ord = ImportedOrder(r, q, sku, approved, archived)
    <3>0. PICK q \in BOOLEAN : \E r \in ResolveImportedStatus(q) :
                 \E sku, approved, archived \in BOOLEAN :
                   ord = ImportedOrder(r, q, sku, approved, archived)
      BY <2>2
    <3>1. PICK r \in ResolveImportedStatus(q), sku \in BOOLEAN, approved \in BOOLEAN,
               archived \in BOOLEAN : ord = ImportedOrder(r, q, sku, approved, archived)
      BY <3>0
    <3>2. r.status # "SHIPPED"
      BY DEF ResolveImportedStatus
    <3>3. ord.source = "IMPORT" /\ ord.status = r.status
      BY <3>1 DEF ImportedOrder
    <3> QED
      BY <3>2, <3>3, NoneIsNoStatus DEF OrderStatus
  <2> QED
    BY <2>1, <2>2 DEF InitialOrders
<1> QED
  BY <1>1, InitTyped DEF IInv, Safe

\* and every step keeps it: it is inductive.
LEMMA StepKeeps ==
  ASSUME IInv, [Next]_vars
  PROVE  IInv'
<1>1. TypeOK'
  BY StepTyped DEF IInv
<1>2. Safe'
  <2>1. CASE Next
    BY <2>1, StageStepSafe, ClosureStepSafe, RoutingStepSafe, CadStepSafe DEF Next
  <2>2. CASE UNCHANGED vars
    BY <2>2 DEF vars, IInv, Safe, ProductionIsIssued, ResumedIsIssued, CancellationIsLogged,
                NeverShipped, ClosureIsRecorded, SentOrdersHaveClock, InProduction
  <2> QED
    BY <2>1, <2>2
<1> QED
  BY <1>1, <1>2 DEF IInv, Safe

\* The strengthened invariant holds in every reachable state.
THEOREM Inductive == Spec => []IInv
BY InitHolds, StepKeeps, PTL DEF Spec

\* Whatever the catalog and however many designs, an order in production or with
\* its stone received has its SKU, and its VPO date while it is in production.
THEOREM ProductionSafe == Spec => []ProductionIsIssued
<1>1. IInv => ProductionIsIssued
  BY DEF IInv
<1> QED
  BY <1>1, Inductive, PTL

\* Without imported rows, whatever is shown to the customer has its clock running.
THEOREM ClockSafe ==
  ASSUME "IMPORT" \notin Origins
  PROVE  Spec => []SentOrdersHaveClock
<1>1. IInv => SentOrdersHaveClock
  BY DEF IInv, TypeOK, Order
<1> QED
  BY <1>1, Inductive, PTL

\* Without imported rows, a reactivation restores the status at cancellation.
THEOREM ReactivationSafe ==
  ASSUME "IMPORT" \notin Origins
  PROVE  Spec => ReactivationRestores
<1>1. IInv /\ [Next]_vars => [ReactivateOrder => ord'.status = before]_vars
  <2> SUFFICES ASSUME IInv, ReactivateOrder PROVE ord'.status = before
    OBVIOUS
  <2>1. ord.source # "IMPORT" /\ ord.status = "CANCELLED"
    BY DEF IInv, TypeOK, Order, ReactivateOrder
  <2>2. lastCancelFrom = before /\ lastCancelFrom # None
    BY <2>1 DEF IInv, CancellationIsLogged
  <2> QED
    BY <2>2 DEF ReactivateOrder, IInv, TypeOK, Order
<1> QED
  BY <1>1, Inductive, PTL DEF Spec, ReactivationRestores

-----------------------------------------------------------------------------
(* The closure of a project *)

\* No stage, routing or CAD handler takes an order out of the archive.
LEMMA ArchiveIsKept ==
  ASSUME TypeOK, StageStep \/ RoutingStep \/ CadStep
  PROVE  ord.isArchived => ord'.isArchived
<1> USE DEF TypeOK, Order
<1>1. CASE StageStep
  BY <1>1 DEF StageStep, StartCad, SaveQuote, WithAutoSend, Sent, IssueVpo, Issued, RevertToVpo,
              RevertedToVpo, RevertToCad, RevertedToCad, SendToRepair, MarkManufactured,
              Manufactured, CompleteOrder, Completed, RingBuilderComplete
<1>2. CASE RoutingStep
  BY <1>2 DEF RoutingStep, AssignSupplier, Assigned, EditSupplier, StartupCleanup,
              BackfillStuckCadApprovals, MarkStoneSent, CompleteManufacturing, Manufactured,
              CompleteRepair
<1>3. CASE CadStep
  <2>1. CASE \E f \in Files : SendForApproval(f) \/ Reject(f) \/ RequestRevision(f)
                             \/ DeleteFile(f) \/ PublicApprove(f) \/ PublicReject(f)
    BY <2>1 DEF SendForApproval, Reject, Cancelled, RequestRevision, RevisionRequested,
                DeleteFile, PublicApprove, PublicReject
  <2>2. CASE \E f \in Files, skuOk \in BOOLEAN : Approve(f, skuOk)
    BY <2>2 DEF Approve, ApprovalIssued, ApprovalFlagged
  <2>3. CASE \/ \E n \in Files : UploadBatch(n)
             \/ SendToCustomer \/ Reconcile
             \/ \E name \in DOMAIN SubStage : SetSubStage(name)
    BY <2>3 DEF UploadBatch, SendToCustomer, Sent, Reconcile, Resynced, SetSubStage, InSubStage
  <2> QED
    BY <1>3, <2>1, <2>2, <2>3 DEF CadStep
<1> QED
  BY <1>1, <1>2, <1>3

\* Only staff reopen what the customer closed.
THEOREM ClosureSafe == Spec => CustomerClosureHolds
<1>1. IInv /\ [Next]_vars =>
        [customerClosed /\ ~ord'.isArchived => ReactivateClosedProject \/ ReactivateOrder]_vars
  <2> SUFFICES ASSUME IInv, Next, customerClosed, ~ord'.isArchived
               PROVE  ReactivateClosedProject \/ ReactivateOrder
    OBVIOUS
  <2>1. ord.isArchived /\ ord.closureReason = "CUSTOMER"
    BY DEF IInv, ClosureIsRecorded
  <2>2. ClosureStep
    BY <2>1, ArchiveIsKept DEF Next, IInv
  <2>3. ~(Cancel \/ CloseProject \/ AutoArchive \/ ReactivateAutoArchived)
    BY <2>1 DEF Cancel, Cancelled, CloseProject, AutoArchive, ReactivateAutoArchived,
                IInv, TypeOK, Order
  <2> QED
    BY <2>2, <2>3 DEF ClosureStep
<1> QED
  BY <1>1, Inductive, PTL DEF Spec, CustomerClosureHolds

-----------------------------------------------------------------------------
(* OrderLifecycle implements OrderStages *)

\* A step of the abstract workflow, or none.
StageMove == [Stages!Next]_(Stages!stages)

\* The stage handlers are moves of the workflow.
LEMMA StageStepImplements ==
  ASSUME IInv, ord.source # "IMPORT", StageStep
  PROVE  StageMove
<1> USE DEF IInv, TypeOK, Order, StageMove, Stages!Next, Stages!stages
<1>1. ASSUME NEW priced \in BOOLEAN, StartCad(priced)
      PROVE  StageMove
  BY <1>1 DEF StartCad, WithAutoSend, Sent, Stages!Design
<1>2. CASE SaveQuote
  BY <1>2 DEF SaveQuote, WithAutoSend, Sent
<1>3. ASSUME NEW priced \in BOOLEAN, NEW codeKnown \in BOOLEAN, IssueVpo(priced, codeKnown)
      PROVE  StageMove
  BY <1>3 DEF IssueVpo, Issued, Stages!Issue, Stages!Number
<1>4. CASE RevertToVpo
  BY <1>4 DEF RevertToVpo, RevertedToVpo, ProductionIsIssued, InProduction, Stages!Issue
<1>5. CASE RevertToCad
  BY <1>5 DEF RevertToCad, RevertedToCad, Stages!Design
<1>6. CASE SendToRepair
  BY <1>6 DEF SendToRepair, Transition, AllowedTransitions, OrderStatus, Stages!Repair
<1>7. ASSUME NEW role \in Roles, MarkManufactured(role)
      PROVE  StageMove
  BY <1>7 DEF MarkManufactured, Manufactured, Transition, AllowedTransitions, OrderStatus,
         ProductionIsIssued, InProduction, Stages!Manufacture
<1>8. CASE CompleteOrder
  BY <1>8 DEF CompleteOrder, Completed, Transition, AllowedTransitions, OrderStatus, NeverShipped, Stages!Finish
<1>9. CASE RingBuilderComplete
  BY <1>9 DEF RingBuilderComplete, Completed, Stages!Finish
<1> HIDE DEF IInv, StageMove
<1> QED
  BY <1>1, <1>2, <1>3, <1>4, <1>5, <1>6, <1>7, <1>8, <1>9 DEF StageStep

\* Cancelling cancels, reactivating resumes, and closing leaves the stage alone.
LEMMA ClosureStepImplements ==
  ASSUME IInv, ord.source # "IMPORT", ClosureStep
  PROVE  StageMove
<1> USE DEF IInv, TypeOK, Order, StageMove, Stages!Next, Stages!stages
<1>1. CASE Cancel
  BY <1>1 DEF Cancel, Cancelled, LogCancellation, Stages!Cancel
<1>2. CASE ReactivateOrder
  BY <1>2 DEF ReactivateOrder, CancellationIsLogged, Stages!Resume
<1>3. CASE CloseProject \/ AutoArchive
  BY <1>3 DEF CloseProject, Closed, AutoArchive, AutoArchived
<1>4. CASE ReactivateClosedProject \/ ReactivateAutoArchived
  BY <1>4 DEF ReactivateClosedProject, ReactivateAutoArchived, Reopened
<1> HIDE DEF IInv, StageMove
<1> QED
  BY <1>1, <1>2, <1>3, <1>4 DEF ClosureStep

\* Routing leaves the stage alone, the workshop manufactures, the repair desk finishes.
LEMMA RoutingStepImplements ==
  ASSUME IInv, ord.source # "IMPORT", RoutingStep
  PROVE  StageMove
<1> USE DEF IInv, TypeOK, Order, StageMove, Stages!Next, Stages!stages
<1>1. CASE (\E f \in Factories, s \in SupplySources : AssignSupplier(f, s)) \/ EditSupplier
  BY <1>1 DEF AssignSupplier, Assigned, EditSupplier
<1>2. CASE StartupCleanup \/ BackfillStuckCadApprovals \/ MarkStoneSent
  BY <1>2 DEF StartupCleanup, BackfillStuckCadApprovals, MarkStoneSent
<1>3. ASSUME NEW role \in Roles, CompleteManufacturing(role)
      PROVE  StageMove
  BY <1>3 DEF CompleteManufacturing, Manufactured, ProductionIsIssued, InProduction, Stages!Manufacture
<1>4. CASE CompleteRepair
  BY <1>4 DEF CompleteRepair, Stages!Finish
<1> HIDE DEF IInv, StageMove
<1> QED
  BY <1>1, <1>2, <1>3, <1>4 DEF RoutingStep

\* Uploads and answers design, issue or cancel, or leave the stage alone.
LEMMA CadStepImplements ==
  ASSUME IInv, ord.source # "IMPORT", CadStep
  PROVE  StageMove
<1> USE DEF IInv, TypeOK, Order, StageMove, Stages!Next, Stages!stages
<1>1. CASE (\E n \in Files : UploadBatch(n)) \/ SendToCustomer \/ Reconcile
  BY <1>1 DEF UploadBatch, SendToCustomer, Sent, Reconcile, Resynced
<1>2. ASSUME NEW name \in DOMAIN SubStage, SetSubStage(name)
      PROVE  StageMove
  BY <1>2 DEF SetSubStage, InSubStage, Stages!Design
<1>3. ASSUME NEW f \in Files, SendForApproval(f)
      PROVE  StageMove
  BY <1>3 DEF SendForApproval, Stages!Design
<1>4. ASSUME NEW f \in Files, NEW skuOk \in BOOLEAN, Approve(f, skuOk)
      PROVE  StageMove
  BY <1>4 DEF Approve, ApprovalIssued, ApprovalFlagged, Stages!Issue
<1>5. ASSUME NEW f \in Files, Reject(f)
      PROVE  StageMove
  BY <1>5 DEF Reject, Cancelled, LogCancellation, Stages!Cancel
<1>6. ASSUME NEW f \in Files, RequestRevision(f)
      PROVE  StageMove
  BY <1>6 DEF RequestRevision, RevisionRequested, Stages!Design
<1>7. CASE \E f \in Files : DeleteFile(f) \/ PublicApprove(f) \/ PublicReject(f)
  BY <1>7 DEF DeleteFile, PublicApprove, PublicReject
<1> HIDE DEF IInv, StageMove
<1> QED
  BY <1>1, <1>2, <1>3, <1>4, <1>5, <1>6, <1>7 DEF CadStep

\* Without imported rows, the handlers keep the promises of OrderStages.
THEOREM Refinement ==
  ASSUME "IMPORT" \notin Origins
  PROVE  Spec => ImplementsStages
<1>1. Init => Stages!Init
  BY DEF Init, InitialOrders, CreatedOrder, Stages!Init
<1>2. IInv /\ [Next]_vars => [Stages!Next]_(Stages!stages)
  <2> SUFFICES ASSUME IInv, [Next]_vars PROVE StageMove
    BY DEF StageMove
  <2>1. ord.source # "IMPORT"
    BY DEF IInv, TypeOK, Order
  <2>2. CASE Next
    BY <2>1, <2>2, StageStepImplements, ClosureStepImplements, RoutingStepImplements,
       CadStepImplements DEF Next
  <2>3. CASE UNCHANGED vars
    BY <2>3 DEF vars, StageMove, Stages!stages
  <2> QED
    BY <2>2, <2>3
<1> QED
  BY <1>1, <1>2, Inductive, PTL DEF Spec, ImplementsStages, Stages!Spec

-----------------------------------------------------------------------------
(* Approvals and the design *)

\* None is not the sub-stage APPROVED.
LEMMA NoneIsNotApproved == None # "APPROVED"
BY RowAssumption

\* Each handler sets the sub-stage APPROVED with the approval, and clears the
\* approval with the sub-stage.
LEMMA StepKeepsApproval ==
  ASSUME TypeOK, ApprovedStageHasApproval,
         StageStep \/ ClosureStep \/ RoutingStep \/ CadStep
  PROVE  ApprovedStageHasApproval'
<1> USE NoneIsNotApproved DEF TypeOK, Order, ApprovedStageHasApproval
<1>0. ASSUME ord'.cadSubStatus = ord.cadSubStatus,
             ord'.customerEmailApproval = ord.customerEmailApproval
      PROVE  ApprovedStageHasApproval'
  BY <1>0
<1>a. ASSUME NEW r \in Order, WithAutoSend(r) \/ ord' = r,
             r.cadSubStatus = ord.cadSubStatus,
             r.customerEmailApproval = ord.customerEmailApproval
      PROVE  ApprovedStageHasApproval'
  BY <1>a, <1>0 DEF WithAutoSend, Sent
<1>1. CASE StageStep
  <2>1. ASSUME NEW priced \in BOOLEAN, StartCad(priced)
        PROVE  ApprovedStageHasApproval'
    <3>1. (ord.quotedCost \/ priced) \in BOOLEAN
      OBVIOUS
    <3>2. PICK q \in BOOLEAN :
            LET r == [ord EXCEPT !.status = "CAD_IN_PROGRESS", !.quotedCost = q]
            IN  WithAutoSend(r) \/ ord' = r
      BY <2>1, <3>1, Zenon DEF StartCad
    <3> DEFINE r == [ord EXCEPT !.status = "CAD_IN_PROGRESS", !.quotedCost = q]
    <3>3. /\ r \in Order /\ r.cadSubStatus = ord.cadSubStatus
          /\ r.customerEmailApproval = ord.customerEmailApproval
      BY DEF OrderStatus
    <3>4. WithAutoSend(r) \/ ord' = r
      BY <3>2
    <3> HIDE DEF r, Order
    <3> QED
      BY <3>3, <3>4, <1>a
  <2>2. CASE SaveQuote
    <3> DEFINE r == [ord EXCEPT !.quotedCost = TRUE]
    <3>1. /\ r \in Order /\ r.cadSubStatus = ord.cadSubStatus
          /\ r.customerEmailApproval = ord.customerEmailApproval
      OBVIOUS
    <3>2. WithAutoSend(r)
      BY <2>2 DEF SaveQuote
    <3> HIDE DEF r, Order
    <3> QED
      BY <3>1, <3>2, <1>a
  <2>3. ASSUME NEW priced \in BOOLEAN, NEW codeKnown \in BOOLEAN, IssueVpo(priced, codeKnown)
        PROVE  ApprovedStageHasApproval'
    BY <2>3 DEF IssueVpo, Issued
  <2>4. CASE RevertToVpo \/ RevertToCad
    BY <2>4 DEF RevertToVpo, RevertedToVpo, RevertToCad, RevertedToCad
  <2>5. CASE SendToRepair \/ \E role \in Roles : MarkManufactured(role)
    BY <2>5 DEF SendToRepair, MarkManufactured, Manufactured
  <2>6. CASE CompleteOrder \/ RingBuilderComplete
    BY <2>6 DEF CompleteOrder, RingBuilderComplete, Completed
  <2> QED
    BY <1>1, <2>1, <2>2, <2>3, <2>4, <2>5, <2>6 DEF StageStep
<1>2. CASE ClosureStep
  BY <1>2 DEF ClosureStep, Cancel, Cancelled, ReactivateOrder, CloseProject, Closed,
              ReactivateClosedProject, ReactivateAutoArchived, Reopened, AutoArchive, AutoArchived
<1>3. CASE RoutingStep
  <2>1. CASE (\E f \in Factories, s \in SupplySources : AssignSupplier(f, s)) \/ EditSupplier
    BY <2>1, <1>0 DEF AssignSupplier, EditSupplier, Assigned
  <2>2. CASE StartupCleanup \/ BackfillStuckCadApprovals \/ MarkStoneSent \/ CompleteRepair
    BY <2>2, <1>0 DEF StartupCleanup, BackfillStuckCadApprovals, MarkStoneSent, CompleteRepair
  <2>3. ASSUME NEW role \in Roles, CompleteManufacturing(role)
        PROVE  ApprovedStageHasApproval'
    BY <2>3, <1>0 DEF CompleteManufacturing, Manufactured
  <2> QED
    BY <1>3, <2>1, <2>2, <2>3 DEF RoutingStep
<1>4. CASE CadStep
  <2>1. ASSUME NEW n \in Files, UploadBatch(n)
        PROVE  ApprovedStageHasApproval'
    BY <2>1 DEF UploadBatch
  <2>2. CASE SendToCustomer
    BY <2>2, <1>0 DEF SendToCustomer, Sent
  <2>3. ASSUME NEW name \in DOMAIN SubStage, SetSubStage(name)
        PROVE  ApprovedStageHasApproval'
    <3>1. SubStage[name].cadSubStatus # "APPROVED"
      BY SubStageIsUndecided
    <3>2. ord' = InSubStage(ord, SubStage[name])
      BY <2>3 DEF SetSubStage
    <3> QED
      BY <3>1, <3>2 DEF InSubStage
  <2>4. CASE Reconcile
    <3>1. PICK target \in SubStageOf(file) : ord' = Resynced(ord, target)
      BY <2>4 DEF Reconcile
    <3>2. target \in ResyncTargets
      BY TargetsOfFiles
    <3>3. target.cadSubStatus # "APPROVED"
      BY <3>2 DEF ResyncTargets
    <3> QED
      BY <3>1, <3>3 DEF Resynced
  <2>5. ASSUME NEW f \in Files
        PROVE  /\ SendForApproval(f) => ApprovedStageHasApproval'
               /\ \A skuOk \in BOOLEAN : Approve(f, skuOk) => ApprovedStageHasApproval'
               /\ Reject(f) => ApprovedStageHasApproval'
               /\ RequestRevision(f) => ApprovedStageHasApproval'
               /\ DeleteFile(f) \/ PublicApprove(f) \/ PublicReject(f) => ApprovedStageHasApproval'
    BY DEF SendForApproval, Approve, ApprovalIssued, ApprovalFlagged, Reject, Cancelled,
           RequestRevision, RevisionRequested, DeleteFile, PublicApprove, PublicReject
  <2> QED
    BY <1>4, <2>1, <2>2, <2>3, <2>4, <2>5, Zenon DEF CadStep
<1> QED
  BY <1>1, <1>2, <1>3, <1>4

\* No sub-stage says APPROVED of a design its customer has not approved.
THEOREM ApprovalSafe == Spec => []ApprovedStageHasApproval
<1>1. Init => ApprovedStageHasApproval
  <2> SUFFICES ASSUME Init PROVE ApprovedStageHasApproval
    OBVIOUS
  <2>1. CASE \E o \in Origins \ {"IMPORT"}, q \in BOOLEAN, m \in Mountings :
               ord = CreatedOrder(o, q, m)
    BY <2>1, NoneIsNotApproved DEF CreatedOrder, ApprovedStageHasApproval
  <2>2. CASE \E q \in BOOLEAN : \E r \in ResolveImportedStatus(q) :
               \E sku, approved, archived \in BOOLEAN :
                 ord = ImportedOrder(r, q, sku, approved, archived)
    <3>0. PICK q \in BOOLEAN : \E r \in ResolveImportedStatus(q) :
                 \E sku, approved, archived \in BOOLEAN :
                   ord = ImportedOrder(r, q, sku, approved, archived)
      BY <2>2
    <3>1. PICK r \in ResolveImportedStatus(q) :
                 \E sku, approved, archived \in BOOLEAN :
                   ord = ImportedOrder(r, q, sku, approved, archived)
      BY <3>0
    <3>2. r.cadSubStatus # "APPROVED"
      BY NoneIsNotApproved DEF ResolveImportedStatus
    <3>3. ord.cadSubStatus = r.cadSubStatus
      BY <3>1 DEF ImportedOrder, CreatedOrder
    <3> QED
      BY <3>2, <3>3 DEF ApprovedStageHasApproval
  <2> QED
    BY <2>1, <2>2 DEF Init, InitialOrders
<1>2. TypeOK /\ ApprovedStageHasApproval /\ [Next]_vars => ApprovedStageHasApproval'
  BY StepKeepsApproval DEF Next, vars, ApprovedStageHasApproval
<1> QED
  BY <1>1, <1>2, TypeCorrect, PTL DEF Spec

\* What OnlyDecisionsReopenDesign forbids to every step but a design decision.
DesignReopened ==
  \/ ord.status \in InProduction \cup {"COMPLETED"} /\ ord'.status \in PreVpoStatuses
  \/ ord.customerEmailApproval /\ ~ord'.customerEmailApproval

\* A step that is no design decision reopens no design.
LEMMA StepKeepsDesign ==
  ASSUME TypeOK, StageStep \/ ClosureStep \/ RoutingStep \/ CadStep, ~DesignDecision
  PROVE  ~DesignReopened
<1> USE DEF TypeOK, Order, DesignReopened, InProduction, PreVpoStatuses
<1>0. ASSUME ord'.status = ord.status,
             ord.customerEmailApproval => ord'.customerEmailApproval
      PROVE  ~DesignReopened
  BY <1>0
<1>a. ASSUME NEW r \in Order, WithAutoSend(r) \/ ord' = r
      PROVE  ord'.status = r.status /\ ord'.customerEmailApproval = r.customerEmailApproval
  BY <1>a DEF WithAutoSend, Sent
<1>1. CASE StageStep
  <2>1. ASSUME NEW priced \in BOOLEAN, StartCad(priced)
        PROVE  ~DesignReopened
    <3>1. (ord.quotedCost \/ priced) \in BOOLEAN
      OBVIOUS
    <3>2. PICK q \in BOOLEAN :
            LET r == [ord EXCEPT !.status = "CAD_IN_PROGRESS", !.quotedCost = q]
            IN  WithAutoSend(r) \/ ord' = r
      BY <2>1, <3>1, Zenon DEF StartCad
    <3> DEFINE r == [ord EXCEPT !.status = "CAD_IN_PROGRESS", !.quotedCost = q]
    <3>3. r \in Order /\ r.customerEmailApproval = ord.customerEmailApproval
      BY DEF OrderStatus
    <3>4. WithAutoSend(r) \/ ord' = r
      BY <3>2
    <3>5. ord.status = "NEW"
      BY <2>1 DEF StartCad
    <3> HIDE DEF r, Order
    <3>6. ord'.customerEmailApproval = ord.customerEmailApproval
      BY <3>3, <3>4, <1>a
    <3> QED
      BY <3>5, <3>6
  <2>2. CASE SaveQuote
    <3> DEFINE r == [ord EXCEPT !.quotedCost = TRUE]
    <3>1. /\ r \in Order /\ r.status = ord.status
          /\ r.customerEmailApproval = ord.customerEmailApproval
      OBVIOUS
    <3>2. WithAutoSend(r)
      BY <2>2 DEF SaveQuote
    <3> HIDE DEF r, Order
    <3> QED
      BY <3>1, <3>2, <1>a, <1>0
  <2>3. ASSUME NEW priced \in BOOLEAN, NEW codeKnown \in BOOLEAN, IssueVpo(priced, codeKnown)
        PROVE  ~DesignReopened
    BY <2>3 DEF IssueVpo, Issued
  <2>4. CASE RevertToVpo
    BY <2>4 DEF RevertToVpo, RevertedToVpo
  <2>5. CASE SendToRepair \/ \E role \in Roles : MarkManufactured(role)
    BY <2>5 DEF SendToRepair, MarkManufactured, Manufactured
  <2>6. CASE CompleteOrder \/ RingBuilderComplete
    BY <2>6 DEF CompleteOrder, RingBuilderComplete, Completed
  <2> QED
    BY <1>1, <2>1, <2>2, <2>3, <2>4, <2>5, <2>6 DEF StageStep, DesignDecision
<1>2. CASE ClosureStep
  <2>1. CASE ReactivateOrder
    BY <2>1 DEF ReactivateOrder
  <2>2. CASE Cancel
    BY <2>2 DEF Cancel, Cancelled
  <2>3. CASE CloseProject \/ ReactivateClosedProject \/ ReactivateAutoArchived \/ AutoArchive
    BY <2>3, <1>0 DEF CloseProject, Closed, ReactivateClosedProject, ReactivateAutoArchived,
                      Reopened, AutoArchive, AutoArchived
  <2> QED
    BY <1>2, <2>1, <2>2, <2>3 DEF ClosureStep
<1>3. CASE RoutingStep
  <2>1. CASE (\E f \in Factories, s \in SupplySources : AssignSupplier(f, s)) \/ EditSupplier
    BY <2>1, <1>0 DEF AssignSupplier, EditSupplier, Assigned
  <2>2. CASE StartupCleanup \/ BackfillStuckCadApprovals \/ MarkStoneSent \/ CompleteRepair
    BY <2>2 DEF StartupCleanup, BackfillStuckCadApprovals, MarkStoneSent, CompleteRepair
  <2>3. ASSUME NEW role \in Roles, CompleteManufacturing(role)
        PROVE  ~DesignReopened
    BY <2>3 DEF CompleteManufacturing, Manufactured
  <2> QED
    BY <1>3, <2>1, <2>2, <2>3 DEF RoutingStep
<1>4. CASE CadStep
  <2>1. ASSUME NEW n \in Files, UploadBatch(n)
        PROVE  ~DesignReopened
    BY <2>1, <1>0 DEF UploadBatch
  <2>2. CASE SendToCustomer \/ Reconcile
    BY <2>2, <1>0 DEF SendToCustomer, Sent, Reconcile, Resynced
  <2>3. ASSUME NEW f \in Files
        PROVE  /\ SendForApproval(f) => ~DesignReopened
               /\ \A skuOk \in BOOLEAN : Approve(f, skuOk) => ~DesignReopened
               /\ Reject(f) => ~DesignReopened
               /\ DeleteFile(f) \/ PublicApprove(f) \/ PublicReject(f) => ~DesignReopened
    BY DEF SendForApproval, Approve, ApprovalIssued, ApprovalFlagged, Reject, Cancelled,
           DeleteFile, PublicApprove, PublicReject
  <2> QED
    BY <1>4, <2>1, <2>2, <2>3, Zenon DEF CadStep, DesignDecision
<1> QED
  BY <1>1, <1>2, <1>3, <1>4

\* Only a decision about the design takes an order back out of production, or
\* withdraws its customer's approval, however many designs it has.
THEOREM DesignSafe == Spec => OnlyDecisionsReopenDesign
<1>1. TypeOK /\ [Next]_vars => [DesignReopened => DesignDecision]_vars
  BY StepKeepsDesign DEF Next
<1> QED
  BY <1>1, TypeCorrect, PTL DEF Spec, OnlyDecisionsReopenDesign, DesignReopened

-----------------------------------------------------------------------------
(* A correction of the sub-stage, and what the resync finds afterwards *)

\* An order with a design has a newest one.
LEMMA LatestExists ==
  ASSUME NEW files \in [Files -> CadFileStatus], \E f \in Files : files[f] # "ABSENT"
  PROVE  Latest(files) \in Files /\ files[Latest(files)] # "ABSENT"
<1> DEFINE S == {f \in Files : files[f] # "ABSENT"}
           T == {MaxFiles - f : f \in S}
<1>1. Files \subseteq Nat /\ \A f \in Files : MaxFiles - f \in Nat
  BY RowAssumption DEF Files
<1>2. T \subseteq Nat /\ T # {}
  BY <1>1
<1>3. PICK m \in T : \A n \in T : ~(<<n, m>> \in OpToRel(<, Nat))
  BY <1>2, NatLessThanWellFounded, WFMin, Zenon
<1>4. \A n \in T : ~(n < m)
  BY <1>2, <1>3 DEF OpToRel
<1>5. PICK f \in S : m = MaxFiles - f
  OBVIOUS
<1>6. \A g \in Files : g > f => files[g] = "ABSENT"
  <2> SUFFICES ASSUME NEW g \in S, g > f PROVE FALSE
    OBVIOUS
  <2>1. MaxFiles - g \in T /\ MaxFiles - g < MaxFiles - f
    BY <1>1, RowAssumption
  <2> QED
    BY <1>4, <1>5, <2>1
<1> QED
  BY <1>5, <1>6 DEF Latest

\* The columns are what the newest file calls for, as far as it calls for any.
Synced(row, files) ==
  SubStageOf(files) \subseteq
    {[cadSubStatus |-> row.cadSubStatus, sentToCustomer |-> row.sentToCustomer]}

\* When one sub-stage is called for, the columns agree if they hold it.
LEMMA SyncedWith ==
  ASSUME NEW row, NEW files, NEW c, NEW s,
         SubStageOf(files) = {[cadSubStatus |-> c, sentToCustomer |-> s]}
  PROVE  Synced(row, files) <=> row.cadSubStatus = c /\ row.sentToCustomer = s
<1> DEFINE columns == [cadSubStatus |-> row.cadSubStatus, sentToCustomer |-> row.sentToCustomer]
           stage == [cadSubStatus |-> c, sentToCustomer |-> s]
<1>1. Synced(row, files) <=> stage = columns
  BY DEF Synced
<1>2. /\ columns.cadSubStatus = row.cadSubStatus /\ columns.sentToCustomer = row.sentToCustomer
      /\ stage.cadSubStatus = c /\ stage.sentToCustomer = s
  OBVIOUS
<1>3. stage = columns => row.cadSubStatus = c /\ row.sentToCustomer = s
  <2> HIDE DEF stage, columns
  <2> QED
    BY <1>2
<1> QED
  BY <1>1, <1>3

\* A correction agrees with the designs exactly when it says whether there are any.
LEMMA CorrectionSyncs ==
  ASSUME TypeOK, NEW name \in DOMAIN SubStage, SetSubStage(name)
  PROVE  Synced(ord', file') <=> (name = "PENDING_CAD" <=> \A f \in Files : file[f] = "ABSENT")
<1> DEFINE sub == SubStage[name]
<1>1. ord'.cadSubStatus = sub.cadSubStatus /\ ord'.sentToCustomer = sub.sentToCustomer
  <2>1. PICK dated : dated = IF ord.status = "VPO_ISSUED" THEN FALSE ELSE ord.vpoIssuedAt
    OBVIOUS
  <2> HIDE DEF sub
  <2>2. ord' = [ord EXCEPT !.status = "CAD_IN_PROGRESS", !.cadSubStatus = sub.cadSubStatus,
                           !.sentToCustomer = sub.sentToCustomer,
                           !.customerEmailApproval = FALSE,
                           !.awaitingApprovalSince = sub.sentToCustomer,
                           !.vpoIssuedAt = dated]
    BY <2>1 DEF SetSubStage, InSubStage, sub
  <2> QED
    BY <2>2 DEF TypeOK, Order
<1>2. file' = [f \in Files |-> IF Exists(f) THEN sub.fileStatus ELSE "ABSENT"]
  BY DEF SetSubStage
<1>3. sub.fileStatus \in CadFileStatus \ {"ABSENT", "APPROVED", "REJECTED"}
  BY DEF SubStage, CadFileStatus
<1>4. file' \in [Files -> CadFileStatus]
  BY <1>2, <1>3 DEF CadFileStatus
<1>5. None # "UPLOADED"
  BY RowAssumption
<1>6. CASE \A f \in Files : file[f] = "ABSENT"
  <2>1. \A f \in Files : file'[f] = "ABSENT"
    BY <1>2, <1>6 DEF Exists
  <2>2. SubStageOf(file') = {[cadSubStatus |-> None, sentToCustomer |-> FALSE]}
    BY <2>1 DEF SubStageOf
  <2>3. Synced(ord', file') <=> sub.cadSubStatus = None /\ sub.sentToCustomer = FALSE
    BY <1>1, <2>2, SyncedWith
  <2>4. sub.cadSubStatus = None <=> name = "PENDING_CAD"
    BY RowAssumption DEF SubStage
  <2>5. name = "PENDING_CAD" => sub.sentToCustomer = FALSE
    BY DEF SubStage
  <2> QED
    BY <1>6, <2>3, <2>4, <2>5
<1>7. CASE \E f \in Files : file[f] # "ABSENT"
  <2>1. \E f \in Files : file'[f] # "ABSENT"
    BY <1>2, <1>3, <1>7 DEF Exists
  <2>2. file'[Latest(file')] = sub.fileStatus
    BY <1>2, <1>4, <2>1, LatestExists
  <2>3. CASE name \in {"PENDING_CAD", "AWAITING_QUOTE"}
    <3>1. sub.fileStatus = "UPLOADED" /\ sub.sentToCustomer = FALSE
      BY <2>3 DEF SubStage
    <3>2. SubStageOf(file') = {[cadSubStatus |-> "UPLOADED", sentToCustomer |-> FALSE]}
      BY <2>1, <2>2, <3>1 DEF SubStageOf
    <3>3. Synced(ord', file') <=> sub.cadSubStatus = "UPLOADED"
      BY <1>1, <3>1, <3>2, SyncedWith
    <3> QED
      BY <1>5, <1>7, <2>3, <3>3 DEF SubStage
  <2>4. CASE name = "AWAITING_APPROVAL"
    <3>1. /\ sub.fileStatus = "SENT_FOR_APPROVAL" /\ sub.sentToCustomer = TRUE
          /\ sub.cadSubStatus = "UPLOADED"
      BY <2>4 DEF SubStage
    <3>2. SubStageOf(file') = {[cadSubStatus |-> "UPLOADED", sentToCustomer |-> TRUE]}
      BY <2>1, <2>2, <3>1 DEF SubStageOf
    <3>3. Synced(ord', file')
      BY <1>1, <3>1, <3>2, SyncedWith
    <3> QED
      BY <1>7, <2>4, <3>3
  <2>5. CASE name = "REVISION"
    <3>1. /\ sub.fileStatus = "REVISION_REQUESTED" /\ sub.sentToCustomer = FALSE
          /\ sub.cadSubStatus = "REVISION"
      BY <2>5 DEF SubStage
    <3>2. SubStageOf(file') = {[cadSubStatus |-> "REVISION", sentToCustomer |-> FALSE]}
      BY <2>1, <2>2, <3>1 DEF SubStageOf
    <3>3. Synced(ord', file')
      BY <1>1, <3>1, <3>2, SyncedWith
    <3> QED
      BY <1>7, <2>5, <3>3
  <2> QED
    BY <2>3, <2>4, <2>5 DEF SubStage
<1> QED
  BY <1>6, <1>7

\* The resync does what it is for.
LEMMA ReconcileSyncs ==
  ASSUME TypeOK, Reconcile
  PROVE  Synced(ord', file')
<1>1. PICK target \in SubStageOf(file) : ord' = Resynced(ord, target)
  BY DEF Reconcile
<1>2. ord'.cadSubStatus = target.cadSubStatus /\ ord'.sentToCustomer = target.sentToCustomer
  BY <1>1 DEF Resynced, TypeOK, Order
<1>3. SubStageOf(file) = {[cadSubStatus |-> target.cadSubStatus,
                           sentToCustomer |-> target.sentToCustomer]}
  BY <1>1 DEF SubStageOf
<1> QED
  BY <1>2, <1>3 DEF Synced, Reconcile

\* setSubStage leaves columns and files in agreement, as its comment says, except
\* that "pending CAD" cannot agree with an order that has a design, nor any other
\* sub-stage with one that has none.  The resync always leaves them in agreement.
THEOREM CorrectionsAgree ==
  Spec => [][/\ \A name \in DOMAIN SubStage :
                  SetSubStage(name) =>
                    (Synced(ord', file') <=>
                       (name = "PENDING_CAD" <=> \A f \in Files : file[f] = "ABSENT"))
             /\ Reconcile => Synced(ord', file')]_vars
<1>1. TypeOK =>
        [/\ \A name \in DOMAIN SubStage :
              SetSubStage(name) =>
                (Synced(ord', file') <=>
                   (name = "PENDING_CAD" <=> \A f \in Files : file[f] = "ABSENT"))
         /\ Reconcile => Synced(ord', file')]_vars
  BY CorrectionSyncs, ReconcileSyncs
<1> QED
  BY <1>1, TypeCorrect, PTL

-----------------------------------------------------------------------------
(* A completed order *)

\* What takes an order out of COMPLETED although the entity has no transition for
\* it: cancelling it, and reviews of a design, which look at no status.
ReviewOrCancel ==
  \/ Cancel
  \/ \E f \in Files : (\E skuOk \in BOOLEAN : Approve(f, skuOk)) \/ Reject(f) \/ RequestRevision(f)

\* Every other step leaves a completed order completed.
LEMMA StepKeepsCompleted ==
  ASSUME TypeOK, StageStep \/ ClosureStep \/ RoutingStep \/ CadStep, ~ReviewOrCancel,
         ord.status = "COMPLETED"
  PROVE  ord'.status = "COMPLETED"
<1> USE DEF TypeOK, Order
<1>1. CASE StageStep
  <2>1. ASSUME NEW to \in OrderStatus, Transition(to)
        PROVE  FALSE
    BY <2>1 DEF Transition, AllowedTransitions
  <2>2. CASE SaveQuote
    <3> DEFINE r == [ord EXCEPT !.quotedCost = TRUE]
    <3>1. r \in Order /\ r.status = ord.status
      OBVIOUS
    <3>2. WithAutoSend(r)
      BY <2>2 DEF SaveQuote
    <3> HIDE DEF r
    <3> QED
      BY <3>1, <3>2 DEF WithAutoSend, Sent
  <2>3. CASE RingBuilderComplete
    BY <2>3 DEF RingBuilderComplete, Completed
  <2>4. CASE \/ \E priced \in BOOLEAN : StartCad(priced)
             \/ \E priced, codeKnown \in BOOLEAN : IssueVpo(priced, codeKnown)
             \/ RevertToVpo \/ RevertToCad \/ SendToRepair
             \/ \E role \in Roles : MarkManufactured(role)
             \/ CompleteOrder
    BY <2>1, <2>4
    DEF StartCad, IssueVpo, RevertToVpo, RevertToCad, SendToRepair, MarkManufactured,
        CompleteOrder, OrderStatus
  <2> QED
    BY <1>1, <2>2, <2>3, <2>4 DEF StageStep
<1>2. CASE ClosureStep
  BY <1>2
  DEF ClosureStep, ReviewOrCancel, ReactivateOrder, CloseProject, Closed, ReactivateClosedProject,
      ReactivateAutoArchived, Reopened, AutoArchive, AutoArchived
<1>3. CASE RoutingStep
  <2>1. CASE EditSupplier \/ StartupCleanup \/ BackfillStuckCadApprovals
    BY <2>1 DEF EditSupplier, StartupCleanup, BackfillStuckCadApprovals
  <2>2. CASE ~(EditSupplier \/ StartupCleanup \/ BackfillStuckCadApprovals)
    BY <1>3, <2>2
    DEF RoutingStep, AssignSupplier, MarkStoneSent, CompleteManufacturing, CompleteRepair
  <2> QED
    BY <2>1, <2>2
<1>4. CASE CadStep
  <2>1. ASSUME NEW n \in Files, UploadBatch(n)
        PROVE  ord'.status = "COMPLETED"
    BY <2>1 DEF UploadBatch, PreVpoStatuses
  <2>2. CASE SendToCustomer \/ Reconcile
    BY <2>2 DEF SendToCustomer, Sent, Reconcile
  <2>3. ASSUME NEW name \in DOMAIN SubStage, SetSubStage(name)
        PROVE  ord'.status = "COMPLETED"
    BY <2>3 DEF SetSubStage
  <2>4. ASSUME NEW f \in Files,
               SendForApproval(f) \/ DeleteFile(f) \/ PublicApprove(f) \/ PublicReject(f)
        PROVE  ord'.status = "COMPLETED"
    BY <2>4 DEF SendForApproval, DeleteFile, PublicApprove, PublicReject, PreVpoStatuses
  <2> QED
    BY <1>4, <2>1, <2>2, <2>3, <2>4, Zenon DEF CadStep, ReviewOrCancel
<1> QED
  BY <1>1, <1>2, <1>3, <1>4

\* A completed order stays completed, as the entity says, whatever is uploaded, sent,
\* quoted, routed, archived or reopened: only a cancellation, and an approval, a
\* rejection or a revision request on one of its designs, take it out.
THEOREM CompletedIsLeft ==
  Spec => [][ord.status = "COMPLETED" /\ ord'.status # "COMPLETED" => ReviewOrCancel]_vars
<1>1. TypeOK /\ [Next]_vars
        => [ord.status = "COMPLETED" /\ ord'.status # "COMPLETED" => ReviewOrCancel]_vars
  BY StepKeepsCompleted DEF Next
<1> QED
  BY <1>1, TypeCorrect, PTL DEF Spec

-----------------------------------------------------------------------------
(* The event log: recording it forbids no step of the workflow and adds none *)

\* Each step that is logged is a step of OrderLifecycle.
LEMMA LoggedIsStep ==
  ASSUME LoggedMove
  PROVE  StageStep \/ ClosureStep \/ RoutingStep \/ CadStep
<1>1. ASSUME NEW priced \in BOOLEAN, StartCad(priced) \/ IssueVpo(priced, TRUE)
      PROVE  StageStep
  <2>1. CASE StartCad(priced)
    BY <2>1 DEF StageStep
  <2>2. CASE IssueVpo(priced, TRUE)
    <3>1. TRUE \in BOOLEAN
      OBVIOUS
    <3> QED
      BY <2>2, <3>1, Zenon DEF StageStep
  <2> QED
    BY <1>1, <2>1, <2>2
<1>2. CASE RevertToVpo \/ RevertToCad \/ CompleteOrder \/ RingBuilderComplete
  BY <1>2 DEF StageStep
<1>3. ASSUME NEW role \in Roles, MarkManufactured(role) \/ CompleteManufacturing(role)
      PROVE  StageStep \/ RoutingStep
  BY <1>3 DEF StageStep, RoutingStep
<1>4. CASE Cancel \/ ReactivateOrder
  BY <1>4 DEF ClosureStep
<1>5. ASSUME NEW name \in DOMAIN SubStage, SetSubStage(name)
      PROVE  CadStep
  BY <1>5 DEF CadStep
<1>6. ASSUME NEW f \in Files, NEW skuOk \in BOOLEAN, Approve(f, skuOk)
      PROVE  CadStep
  BY <1>6, Zenon DEF CadStep
<1>7. ASSUME NEW f \in Files, Reject(f) \/ RequestRevision(f)
      PROVE  CadStep
  BY <1>7 DEF CadStep
<1>8. TRUE \in BOOLEAN /\ FALSE \in BOOLEAN
  OBVIOUS
<1> QED
  BY <1>1, <1>2, <1>3, <1>4, <1>5, <1>6, <1>7, <1>8, Zenon DEF LoggedMove

\* So is each step that is not.
LEMMA UnloggedIsStep ==
  ASSUME Unlogged
  PROVE  StageStep \/ ClosureStep \/ RoutingStep \/ CadStep
<1>1. ASSUME NEW priced \in BOOLEAN, IssueVpo(priced, FALSE)
      PROVE  StageStep
  <2>1. FALSE \in BOOLEAN
    OBVIOUS
  <2> QED
    BY <1>1, <2>1, Zenon DEF StageStep
<1>2. CASE SaveQuote \/ SendToRepair
  BY <1>2 DEF StageStep
<1>3. CASE CloseProject \/ ReactivateClosedProject \/ ReactivateAutoArchived \/ AutoArchive
  BY <1>3 DEF ClosureStep
<1>4. CASE (\E f \in Factories, s \in SupplySources : AssignSupplier(f, s)) \/ EditSupplier
  BY <1>4, Zenon DEF RoutingStep
<1>5. CASE CompleteRepair \/ StartupCleanup \/ BackfillStuckCadApprovals \/ MarkStoneSent
  BY <1>5 DEF RoutingStep
<1>6. ASSUME NEW n \in Files, UploadBatch(n)
      PROVE  CadStep
  BY <1>6 DEF CadStep
<1>7. CASE SendToCustomer \/ Reconcile
  BY <1>7 DEF CadStep
<1>8. ASSUME NEW f \in Files, DesignStep(f)
      PROVE  CadStep
  <2>1. CASE Approve(f, FALSE)
    <3>1. FALSE \in BOOLEAN
      OBVIOUS
    <3> QED
      BY <2>1, <3>1, Zenon DEF CadStep
  <2>2. CASE SendForApproval(f) \/ DeleteFile(f) \/ PublicApprove(f) \/ PublicReject(f)
    BY <2>2, Zenon DEF CadStep
  <2> QED
    BY <1>8, <2>1, <2>2 DEF DesignStep
<1> QED
  BY <1>1, <1>2, <1>3, <1>4, <1>5, <1>6, <1>7, <1>8, Zenon DEF Unlogged

\* What is proved of OrderLifecycle holds of the workflow with its log.
THEOREM LogKeepsLifecycle == LogSpec => Spec
<1>1. LogInit => Init
  BY DEF LogInit
<1>2. [LogNext]_logVars => [Next]_vars
  <2>1. CASE LogNext
    BY <2>1, LoggedIsStep, UnloggedIsStep DEF LogNext, Next
  <2>2. CASE UNCHANGED logVars
    BY <2>2 DEF logVars
  <2> QED
    BY <2>1, <2>2
<1> QED
  BY <1>1, <1>2, PTL DEF LogSpec, Spec

-----------------------------------------------------------------------------
(* The log tells the status *)

\* The moves of one step that nobody logs: two of them in a row make the fourth of
\* UnloggedMoves.
SilentMoves ==
  {<<"NEW", "CAD_IN_PROGRESS">>, <<"MANUFACTURED", "REPAIR">>, <<"REPAIR", "COMPLETED">>}

\* A handler that writes no event leaves the status alone, or makes one of them.
LEMMA UnloggedIsSilent ==
  ASSUME TypeOK, Unlogged
  PROVE  ord'.status = ord.status \/ <<ord.status, ord'.status>> \in SilentMoves
<1> DEFINE Silent == ord'.status = ord.status \/ <<ord.status, ord'.status>> \in SilentMoves
<1> SUFFICES Silent
  OBVIOUS
<1> USE DEF TypeOK, Order, SilentMoves
<1>a. ASSUME NEW r \in Order, WithAutoSend(r)
      PROVE  ord'.status = r.status
  BY <1>a DEF WithAutoSend, Sent
<1>1. CASE SaveQuote
  <2>1. [ord EXCEPT !.quotedCost = TRUE] \in Order
    OBVIOUS
  <2>2. WithAutoSend([ord EXCEPT !.quotedCost = TRUE])
    BY <1>1 DEF SaveQuote
  <2>3. [ord EXCEPT !.quotedCost = TRUE].status = ord.status
    OBVIOUS
  <2> HIDE DEF Order
  <2> QED
    BY <2>1, <2>2, <2>3, <1>a
<1>2. ASSUME NEW priced \in BOOLEAN, IssueVpo(priced, FALSE)
      PROVE  Silent
  BY <1>2 DEF IssueVpo
<1>3. CASE SendToRepair
  BY <1>3 DEF SendToRepair, Transition, AllowedTransitions, OrderStatus
<1>4. CASE CompleteRepair
  BY <1>4 DEF CompleteRepair
<1>5. CASE CloseProject \/ ReactivateClosedProject \/ ReactivateAutoArchived \/ AutoArchive
  BY <1>5 DEF CloseProject, ReactivateClosedProject, ReactivateAutoArchived, AutoArchive,
                    Closed, Reopened, AutoArchived
<1>6. CASE (\E f \in Factories, s \in SupplySources : AssignSupplier(f, s)) \/ EditSupplier
  BY <1>6 DEF AssignSupplier, EditSupplier, Assigned
<1>7. CASE StartupCleanup \/ BackfillStuckCadApprovals \/ MarkStoneSent
  BY <1>7 DEF StartupCleanup, BackfillStuckCadApprovals, MarkStoneSent
<1>8. ASSUME NEW n \in Files, UploadBatch(n)
      PROVE  Silent
  BY <1>8 DEF UploadBatch
<1>9. CASE SendToCustomer \/ Reconcile
  BY <1>9 DEF SendToCustomer, Sent, Reconcile, Resynced
<1>10. ASSUME NEW f \in Files, DesignStep(f)
       PROVE  Silent
  <2>1. CASE SendForApproval(f)
    BY <2>1 DEF SendForApproval, PreVpoStatuses
  <2>2. CASE ~ord.kiraSkuNumber /\ Approve(f, FALSE)
    BY <2>2 DEF Approve, ApprovalFlagged
  <2>3. CASE DeleteFile(f) \/ PublicApprove(f) \/ PublicReject(f)
    BY <2>3 DEF DeleteFile, PublicApprove, PublicReject
  <2> QED
    BY <1>10, <2>1, <2>2, <2>3 DEF DesignStep
<1> HIDE DEF TypeOK, Order, SilentMoves, Silent
<1> QED
  BY <1>1, <1>2, <1>3, <1>4, <1>5, <1>6, <1>7, <1>8, <1>9, <1>10, Zenon DEF Unlogged

\* Whoever moves the order, its newest logged status is the one it has, or is one
\* unlogged move behind.
THEOREM LogTells == LogSpec => []LogTellsStatus
<1>1. LogInit => LogTellsStatus
  BY DEF LogInit, LogTellsStatus
<1>2. TypeOK /\ LogTellsStatus /\ [LogNext]_logVars => LogTellsStatus'
  <2> SUFFICES ASSUME TypeOK, LogTellsStatus, [LogNext]_logVars PROVE LogTellsStatus'
    OBVIOUS
  <2>1. CASE LoggedMove /\ logged' = ord'.status
    BY <2>1 DEF LogTellsStatus
  <2>2. CASE Unlogged /\ UNCHANGED logged
    BY <2>2, UnloggedIsSilent DEF LogTellsStatus, UnloggedMoves, SilentMoves
  <2>3. CASE UNCHANGED logVars
    BY <2>3 DEF logVars, vars, LogTellsStatus
  <2> QED
    BY <2>1, <2>2, <2>3 DEF LogNext
<1> QED
  BY <1>1, <1>2, LogKeepsLifecycle, TypeCorrect, PTL DEF LogSpec

\* Every other move is logged when it is made: that a design was first sent, and
\* that the repair desk took an order in or finished it, is all the log misses.
THEOREM MovesAreLogged ==
  LogSpec => [][ord'.status # ord.status =>
                  logged' = ord'.status \/ <<ord.status, ord'.status>> \in SilentMoves]_logVars
<1>1. TypeOK /\ [LogNext]_logVars
        => [ord'.status # ord.status =>
              logged' = ord'.status \/ <<ord.status, ord'.status>> \in SilentMoves]_logVars
  BY UnloggedIsSilent DEF LogNext
<1> QED
  BY <1>1, LogKeepsLifecycle, TypeCorrect, PTL DEF LogSpec

-----------------------------------------------------------------------------
(* The pages: their buttons call the handlers, and one of them calls two *)

HandlerStep == StageStep \/ ClosureStep \/ RoutingStep \/ CadStep

\* What the pages ask for: any handler, two of them only when their buttons are shown.
PageStep ==
  \/ StageStep \/ CadStep
  \/ \E f \in Factories, s \in SupplySources : AssignSupplier(f, s)
  \/ EditSupplier
  \/ StartupCleanup \/ MarkStoneSent
  \/ \E role \in Roles : Released /\ CompleteManufacturing(role)
  \/ Cancel \/ ReactivateOrder \/ CloseProject \/ ReactivateClosedProject \/ AutoArchive
  \/ ord.status # "CANCELLED" /\ ReactivateAutoArchived

\* What the pages ask for is a step of a handler.
LEMMA PageStepIsStep ==
  ASSUME PageStep
  PROVE  HandlerStep
<1>1. CASE (\E f \in Factories, s \in SupplySources : AssignSupplier(f, s)) \/ EditSupplier
  BY <1>1, Zenon DEF HandlerStep, RoutingStep
<1>2. ASSUME NEW role \in Roles, CompleteManufacturing(role)
      PROVE  RoutingStep
  BY <1>2, Zenon DEF RoutingStep
<1>3. CASE StartupCleanup \/ MarkStoneSent
  BY <1>3 DEF HandlerStep, RoutingStep
<1>4. CASE \/ Cancel \/ ReactivateOrder \/ CloseProject \/ ReactivateClosedProject
           \/ AutoArchive \/ ReactivateAutoArchived
  BY <1>4 DEF HandlerStep, ClosureStep
<1> QED
  BY <1>1, <1>2, <1>3, <1>4, Zenon DEF PageStep, HandlerStep

\* The status endpoint, whoever calls it.
LEMMA UpdateIsStep ==
  ASSUME NEW role \in StaffRoles, NEW to \in OrderStatus, NEW priced \in BOOLEAN,
         UpdateStatus(role, to, priced)
  PROVE  PageStep
<1>1. ASSUME NEW codeKnown \in BOOLEAN, IssueVpo(priced, codeKnown)
      PROVE  PageStep
  BY <1>1, Zenon DEF PageStep, StageStep
<1>2. CASE StartCad(FALSE)
  <2>1. FALSE \in BOOLEAN
    OBVIOUS
  <2> QED
    BY <1>2, <2>1, Zenon DEF PageStep, StageStep
<1>3. CASE RevertToCad \/ RevertToVpo \/ SendToRepair \/ CompleteOrder \/ RingBuilderComplete
  BY <1>3 DEF PageStep, StageStep
<1>4. CASE MarkManufactured(IF role = "FACTORY_MANAGER" THEN "FACTORY" ELSE "STAFF")
  <2>1. (IF role = "FACTORY_MANAGER" THEN "FACTORY" ELSE "STAFF") \in Roles
    BY DEF Roles
  <2> QED
    BY <1>4, <2>1, Zenon DEF PageStep, StageStep
<1>5. CASE Cancel
  BY <1>5 DEF PageStep
<1> QED
  BY <1>1, <1>2, <1>3, <1>4, <1>5, Zenon DEF UpdateStatus

\* An answer to a design, whoever gives it.
LEMMA ReviewIsStep ==
  ASSUME NEW role, NEW f \in Files, Review(role, f)
  PROVE  PageStep
<1>1. ASSUME NEW skuOk \in BOOLEAN, Approve(f, skuOk)
      PROVE  PageStep
  BY <1>1, Zenon DEF PageStep, CadStep
<1>2. CASE Reject(f) \/ RequestRevision(f)
  BY <1>2, Zenon DEF PageStep, CadStep
<1> QED
  BY <1>1, <1>2, Zenon DEF Review

\* A button of the order page calls one handler, or it saves a price.
LEMMA OrderPageIsStep ==
  ASSUME NEW role \in StaffRoles, OrderPage(role)
  PROVE  PageStep \/ SaveQuotedPrice
<1>1. ASSUME NEW to \in OrderStatus, UpdateStatus(role, to, TRUE)
      PROVE  PageStep
  <2>1. TRUE \in BOOLEAN
    OBVIOUS
  <2> QED
    BY <1>1, <2>1, UpdateIsStep
<1>2. ASSUME NEW f \in Files, Review(role, f)
      PROVE  PageStep
  BY <1>2, ReviewIsStep
<1>3. ASSUME NEW f \in Files, UploadBatch(f) \/ DeleteFile(f)
      PROVE  PageStep
  BY <1>3, Zenon DEF PageStep, CadStep
<1>4. CASE (\E f \in Factories, s \in SupplySources : AssignSupplier(f, s)) \/ EditSupplier
  BY <1>4, Zenon DEF PageStep
<1>5. ASSUME NEW name \in DOMAIN SubStage, SetSubStage(name)
      PROVE  PageStep
  BY <1>5, Zenon DEF PageStep, CadStep
<1>6. CASE ReactivateOrder \/ ReactivateClosedProject
  BY <1>6 DEF PageStep
<1> QED
  BY <1>1, <1>2, <1>3, <1>4, <1>5, <1>6, Zenon DEF OrderPage

\* So does a button of the orders list.
LEMMA OrdersListIsStep ==
  ASSUME NEW role \in StaffRoles, OrdersList(role)
  PROVE  PageStep
<1>1. NudgeStatuses(role) \subseteq OrderStatus
  BY DEF NudgeStatuses, OrderStatus
<1>2. ASSUME NEW to \in OrderStatus, UpdateStatus(role, to, FALSE)
      PROVE  PageStep
  <2>1. FALSE \in BOOLEAN
    OBVIOUS
  <2> QED
    BY <1>2, <2>1, UpdateIsStep
<1>3. CASE Cancel
  BY <1>3 DEF PageStep
<1>4. ASSUME NEW factory \in Factories, NEW source \in SupplySources,
             AssignSupplier(factory, source)
      PROVE  PageStep
  BY <1>4, Zenon DEF PageStep
<1> QED
  BY <1>1, <1>2, <1>3, <1>4, Zenon DEF OrdersList

\* And of the other desks, the customer's page, the tracking page and the server.
LEMMA OtherPagesAreSteps ==
  ASSUME \/ \E role \in StaffRoles : Desks(role)
         \/ CustomerPage \/ TrackingPage \/ Background
  PROVE  PageStep
<1>1. ASSUME NEW role \in StaffRoles, Desks(role)
      PROVE  PageStep
  <2>1. ASSUME NEW n \in Files, UploadBatch(n)
        PROVE  PageStep
    BY <2>1, Zenon DEF PageStep, CadStep
  <2>2. CASE MarkStoneSent
    BY <2>2 DEF PageStep
  <2>3. CASE FinishShown(role) /\ CompleteManufacturing(IF role = "FACTORY_MANAGER" THEN "FACTORY" ELSE "STAFF")
    <3>1. (IF role = "FACTORY_MANAGER" THEN "FACTORY" ELSE "STAFF") \in Roles
      BY DEF Roles
    <3>2. Released
      BY <2>3 DEF FinishShown
    <3> QED
      BY <2>3, <3>1, <3>2, Zenon DEF PageStep
  <2>4. CASE Reconcile
    BY <2>4 DEF PageStep, CadStep
  <2> QED
    BY <1>1, <2>1, <2>2, <2>3, <2>4, Zenon DEF Desks
<1>2. CASE CustomerPage
  <2>1. CASE CloseProject \/ (SelfReopenShown /\ ReactivateAutoArchived)
    BY <2>1 DEF PageStep, SelfReopenShown, ClosedProject
  <2> QED
    BY <1>2, <2>1, ReviewIsStep, Zenon DEF CustomerPage
<1>3. CASE TrackingPage
  BY <1>3, Zenon DEF TrackingPage, PageStep, CadStep
<1>4. CASE Background
  BY <1>4 DEF Background, PageStep
<1> QED
  BY <1>1, <1>2, <1>3, <1>4

\* What a page does is a step of the workflow, but for the price and the sending
\* that the order page asks for at once.
LEMMA DeskStepIsStep ==
  ASSUME DeskNext
  PROVE  (PageStep \/ SaveQuotedPrice) /\ Observe
BY OrderPageIsStep, OrdersListIsStep, OtherPagesAreSteps DEF DeskNext

\* A saved price changes the price and, when the designs are sent with it, the two
\* columns of sending.
LEMMA QuotedRow ==
  ASSUME TypeOK, SaveQuotedPrice
  PROVE  /\ \E sent, since \in BOOLEAN :
              /\ ord' = [ord EXCEPT !.quotedCost = TRUE, !.sentToCustomer = sent,
                                    !.awaitingApprovalSince = since]
              /\ sent => (since \/ (ord.sentToCustomer /\ since = ord.awaitingApprovalSince))
         /\ file' \in [Files -> CadFileStatus]
         /\ UNCHANGED lastCancelFrom
<1> DEFINE quoted == [ord EXCEPT !.quotedCost = TRUE]
<1>1. \/ ord' = Sent(quoted) /\ file' = Bumped(file, "UPLOADED", "SENT_FOR_APPROVAL")
      \/ ord' = quoted /\ UNCHANGED file
  BY Zenon DEF SaveQuotedPrice, WithAutoSend
<1>2. ord' = Sent(quoted) =>
        ord' = [ord EXCEPT !.quotedCost = TRUE, !.sentToCustomer = TRUE,
                           !.awaitingApprovalSince = TRUE]
  BY DEF Sent, TypeOK, Order
<1>3. ord' = quoted =>
        ord' = [ord EXCEPT !.quotedCost = TRUE, !.sentToCustomer = ord.sentToCustomer,
                           !.awaitingApprovalSince = ord.awaitingApprovalSince]
  BY DEF TypeOK, Order
<1>4. ord.sentToCustomer \in BOOLEAN /\ ord.awaitingApprovalSince \in BOOLEAN
  BY DEF TypeOK, Order
<1>5. file' \in [Files -> CadFileStatus]
  BY <1>1, BumpedFiles DEF TypeOK, CadFileStatus
<1>6. UNCHANGED lastCancelFrom
  BY DEF SaveQuotedPrice
<1> HIDE DEF quoted
<1>7. CASE ord' = Sent(quoted)
  <2>1. \E sent, since \in BOOLEAN :
          /\ ord' = [ord EXCEPT !.quotedCost = TRUE, !.sentToCustomer = sent,
                                !.awaitingApprovalSince = since]
          /\ sent => (since \/ (ord.sentToCustomer /\ since = ord.awaitingApprovalSince))
    <3> WITNESS TRUE \in BOOLEAN, TRUE \in BOOLEAN
    <3> QED
      BY <1>2, <1>7
  <2> QED
    BY <1>5, <1>6, <2>1
<1>8. CASE ord' = quoted
  BY <1>3, <1>4, <1>5, <1>6, <1>8, Zenon
<1> QED
  BY <1>1, <1>7, <1>8

\* A saved price keeps the invariant.
LEMMA QuotedKeeps ==
  ASSUME IInv, SaveQuotedPrice, Observe
  PROVE  IInv'
<1>1. PICK sent, since \in BOOLEAN :
        /\ ord' = [ord EXCEPT !.quotedCost = TRUE, !.sentToCustomer = sent,
                              !.awaitingApprovalSince = since]
        /\ sent => (since \/ (ord.sentToCustomer /\ since = ord.awaitingApprovalSince))
  BY QuotedRow DEF IInv
<1>2. file' \in [Files -> CadFileStatus] /\ UNCHANGED lastCancelFrom
  BY QuotedRow DEF IInv
<1>3. TypeOK'
  <2>1. HandledOK'
    BY <1>1, <1>2 DEF IInv, TypeOK, HandledOK, Order
  <2> QED
    BY <2>1, ObservedTyped DEF IInv
<1>4. Safe'
  BY <1>1, <1>2
  DEF IInv, TypeOK, Order, Observe, Safe, ProductionIsIssued, ResumedIsIssued,
      CancellationIsLogged, NeverShipped, ClosureIsRecorded, SentOrdersHaveClock, InProduction
<1> QED
  BY <1>3, <1>4 DEF IInv, Safe

\* Every step of the pages keeps the invariant.
LEMMA DeskStepKeeps ==
  ASSUME IInv, [DeskNext]_vars
  PROVE  IInv'
BY DeskStepIsStep, PageStepIsStep, QuotedKeeps, StepKeeps DEF HandlerStep, Next

\* Whatever is pressed on which page, what is proved to be inductive stays true:
\* orders in production are issued, cancellations are logged, closures recorded.
THEOREM DesksInductive == DeskSpec => []IInv
BY InitHolds, DeskStepKeeps, PTL DEF DeskSpec

\* Without imported rows, the workflow as the pages drive it keeps the promises of
\* OrderStages, although a saved price is two steps of the handlers in one.
THEOREM DeskRefinement ==
  ASSUME "IMPORT" \notin Origins
  PROVE  DeskSpec => ImplementsStages
<1>1. Init => Stages!Init
  BY DEF Init, InitialOrders, CreatedOrder, Stages!Init
<1>2. IInv /\ [DeskNext]_vars => [Stages!Next]_(Stages!stages)
  <2> SUFFICES ASSUME IInv, [DeskNext]_vars PROVE StageMove
    BY DEF StageMove
  <2>1. ord.source # "IMPORT"
    BY DEF IInv, TypeOK, Order
  <2>2. CASE HandlerStep
    BY <2>1, <2>2, StageStepImplements, ClosureStepImplements, RoutingStepImplements,
       CadStepImplements DEF HandlerStep
  <2>3. CASE SaveQuotedPrice
    BY <2>3, QuotedRow DEF IInv, TypeOK, Order, StageMove, Stages!stages
  <2>4. CASE UNCHANGED vars
    BY <2>4 DEF vars, StageMove, Stages!stages
  <2> QED
    BY <2>2, <2>3, <2>4, DeskStepIsStep, PageStepIsStep
<1> QED
  BY <1>1, <1>2, DesksInductive, PTL DEF DeskSpec, ImplementsStages, Stages!Spec

\* The buttons of a factory manager, a stone manager and an authorizer cover every
\* order in production between them.
LEMMA WorkIsShared ==
  ASSUME TypeOK
  PROVE  ProductionIsSomeonesWork
<1> SUFFICES ASSUME ord.status \in InProduction,
                    ~(ord.mountingOnly /\ ord.assignedFactory # None)
             PROVE  \E role \in StaffRoles \ {"ADMIN"} : MovesOn(role)
  BY DEF ProductionIsSomeonesWork
<1>1. {"AUTHORIZER", "FACTORY_MANAGER", "STONE_MANAGER"} \subseteq StaffRoles \ {"ADMIN"}
  BY DEF StaffRoles
<1>2. CASE ord.status = "VPO_ISSUED" /\ ~Released
  <2>1. AssignShown("AUTHORIZER")
    BY <1>2 DEF AssignShown, Office, Released, NeedsStoneSupplier
  <2> QED
    BY <1>1, <2>1 DEF MovesOn
<1>3. CASE ord.status = "VPO_ISSUED" /\ Released /\ ~ord.stoneReceived
  <2>1. StoneSentShown("STONE_MANAGER")
    BY <1>3 DEF StoneSentShown, Queues, Released
  <2> QED
    BY <1>1, <2>1 DEF MovesOn
<1>4. CASE ord.status = "VPO_ISSUED" /\ Released /\ ord.stoneReceived
  <2>1. FinishShown("FACTORY_MANAGER")
    BY <1>4 DEF FinishShown, Queues, Released
  <2> QED
    BY <1>1, <2>1 DEF MovesOn
<1>5. CASE ord.status \in {"MANUFACTURED", "REPAIR"}
  <2>1. MoveShown("AUTHORIZER", "COMPLETED")
    BY <1>5 DEF MoveShown, Opens, MovableStatuses, StatusTransitions, StagePermissions
  <2> QED
    BY <1>1, <2>1 DEF MovesOn
<1> QED
  BY <1>2, <1>3, <1>4, <1>5 DEF InProduction

\* For any catalog and however the order got there: an order in production has a
\* button of somebody else than an Admin that takes it on.
THEOREM WorkSafe == DeskSpec => []ProductionIsSomeonesWork
<1>1. IInv => ProductionIsSomeonesWork
  BY WorkIsShared DEF IInv
<1> QED
  BY <1>1, DesksInductive, PTL

\* A step of the workflow's that manufactures an order is one of the two that do.
LEMMA OnlyTwoManufacture ==
  ASSUME TypeOK, StageStep \/ CadStep, ord.status = "VPO_ISSUED", ord'.status = "MANUFACTURED"
  PROVE  \E role \in Roles : MarkManufactured(role)
<1> USE DEF TypeOK, Order
<1>1. CASE StageStep
  BY <1>1 DEF StageStep, StartCad, SaveQuote, WithAutoSend, Sent, IssueVpo, Issued, RevertToVpo,
              RevertedToVpo, RevertToCad, RevertedToCad, SendToRepair, CompleteOrder, Completed,
              RingBuilderComplete
<1>2. CASE CadStep
  <2>1. CASE \E f \in Files : SendForApproval(f) \/ Reject(f) \/ RequestRevision(f)
                             \/ DeleteFile(f) \/ PublicApprove(f) \/ PublicReject(f)
    BY <2>1 DEF SendForApproval, Reject, Cancelled, RequestRevision, RevisionRequested,
                DeleteFile, PublicApprove, PublicReject
  <2>2. CASE \E f \in Files, skuOk \in BOOLEAN : Approve(f, skuOk)
    BY <2>2 DEF Approve, ApprovalIssued, ApprovalFlagged
  <2>3. CASE \/ \E n \in Files : UploadBatch(n)
             \/ SendToCustomer \/ Reconcile
             \/ \E name \in DOMAIN SubStage : SetSubStage(name)
    BY <2>3 DEF UploadBatch, SendToCustomer, Sent, Reconcile, Resynced, SetSubStage, InSubStage
  <2> QED
    BY <1>2, <2>1, <2>2, <2>3 DEF CadStep
<1> QED
  BY <1>1, <1>2

\* Whoever finishes the order, its supplier and its factory were assigned: what
\* completeManufacturing leaves out, the desk that calls it looks at.
THEOREM SupplierSafe == DeskSpec => ManufacturedHasSupplier
<1> DEFINE Supplied == /\ ord.assignedFactory # None
                       /\ NeedsStoneSupplier(ord) => ord.supplySource # None
<1>1. IInv /\ [DeskNext]_vars =>
        [ord.status = "VPO_ISSUED" /\ ord'.status = "MANUFACTURED" => Supplied]_vars
  <2> SUFFICES ASSUME TypeOK, DeskNext, ord.status = "VPO_ISSUED", ord'.status = "MANUFACTURED"
               PROVE  Supplied
    BY DEF IInv
  <2>1. CASE StageStep \/ CadStep
    BY <2>1, OnlyTwoManufacture DEF MarkManufactured
  <2>2. CASE Released
    BY <2>2 DEF Released
  <2>3. ~SaveQuotedPrice
    BY QuotedRow DEF TypeOK, Order
  <2>4. ~((\E f \in Factories, s \in SupplySources : AssignSupplier(f, s)) \/ EditSupplier)
    BY DEF AssignSupplier, Assigned, EditSupplier, TypeOK, Order
  <2>5. ~(StartupCleanup \/ MarkStoneSent)
    BY DEF StartupCleanup, MarkStoneSent, TypeOK, Order
  <2>6. ~(Cancel \/ CloseProject \/ AutoArchive)
    BY DEF Cancel, Cancelled, CloseProject, Closed, AutoArchive, AutoArchived, TypeOK, Order
  <2>7. ~(ReactivateOrder \/ ReactivateClosedProject \/ ReactivateAutoArchived)
    BY DEF ReactivateOrder, ReactivateClosedProject, ReactivateAutoArchived, Reopened, TypeOK, Order
  <2>8. PageStep
    BY <2>3, DeskStepIsStep
  <2> HIDE DEF Supplied
  <2>9. StageStep \/ CadStep \/ Released
    BY <2>4, <2>5, <2>6, <2>7, <2>8, Zenon DEF PageStep
  <2> QED
    BY <2>1, <2>2, <2>9
<1> QED
  BY <1>1, DesksInductive, PTL DEF DeskSpec, ManufacturedHasSupplier

\* A customer's own reactivation never reaches a cancelled order, although the
\* handler would let it: no button, nor any other step, does what it does there.
THEOREM NarrowSafe == DeskSpec => SelfReactivationIsNarrow
<1>1. IInv /\ [DeskNext]_vars => [ReactivateAutoArchived => ord.status # "CANCELLED"]_vars
  <2> SUFFICES ASSUME IInv, DeskNext, ReactivateAutoArchived, ord.status = "CANCELLED"
               PROVE  FALSE
    OBVIOUS
  <2>0. TypeOK /\ NeverShipped
    BY DEF IInv
  <2>1. ord.isArchived /\ ~ord'.isArchived /\ ord'.status = "CANCELLED"
    BY <2>0 DEF ReactivateAutoArchived, Reopened, TypeOK, Order
  <2>2. ~SaveQuotedPrice
    BY <2>0, <2>1, QuotedRow DEF TypeOK, Order
  <2>3. ~(StageStep \/ RoutingStep \/ CadStep)
    BY <2>0, <2>1, ArchiveIsKept
  <2>4. ~(Cancel \/ CloseProject \/ ReactivateClosedProject \/ AutoArchive)
    BY <2>1 DEF Cancel, CloseProject, ReactivateClosedProject, AutoArchive
  <2>5. ~ReactivateOrder
    BY <2>0, <2>1 DEF ReactivateOrder, NeverShipped, TypeOK, Order
  <2>6. PageStep
    BY <2>2, DeskStepIsStep
  <2>7. ~(StartupCleanup \/ MarkStoneSent)
    BY <2>3 DEF RoutingStep
  <2>8. ~((\E f \in Factories, s \in SupplySources : AssignSupplier(f, s)) \/ EditSupplier)
    BY <2>3, Zenon DEF RoutingStep
  <2>9. ~\E role \in Roles : CompleteManufacturing(role)
    BY <2>3, Zenon DEF RoutingStep
  <2> QED
    BY <2>3, <2>4, <2>5, <2>6, <2>7, <2>8, <2>9, Zenon DEF PageStep
<1> QED
  BY <1>1, DesksInductive, PTL DEF DeskSpec, SelfReactivationIsNarrow

-----------------------------------------------------------------------------
(* A button that is shown can be pressed *)

\* What a step makes of all that handlers write.
Becomes(row, files, log) == ord' = row /\ file' = files /\ lastCancelFrom' = log

\* What "Move to Stage" makes of the order, of its designs and of the log.
MovedTo(to) ==
  CASE to = "CAD_IN_PROGRESS" -> IF ord.status = "NEW" THEN [ord EXCEPT !.status = "CAD_IN_PROGRESS"]
                                 ELSE RevertedToCad(ord)
    [] to = "VPO_ISSUED"      -> IF ord.status = "MANUFACTURED" THEN RevertedToVpo(ord) ELSE Issued(ord)
    [] to = "MANUFACTURED"    -> Manufactured(ord)
    [] to = "REPAIR"          -> [ord EXCEPT !.status = "REPAIR"]
    [] to = "COMPLETED"       -> Completed(ord)
    [] to = "CANCELLED"       -> Cancelled(ord)

FilesMovedTo(to) ==
  IF to = "VPO_ISSUED" /\ ord.status = "CAD_IN_PROGRESS"
  THEN Bumped(file, "SENT_FOR_APPROVAL", "APPROVED") ELSE file

LogMovedTo(to) == IF to = "CANCELLED" THEN ord.status ELSE lastCancelFrom

\* Where an order may be moved from, by the stage the page offers and by who is asked.
LEMMA MovesAreKnown ==
  ASSUME ord \in Order, NEW role \in StaffRoles, NEW to, MoveShown(role, to)
  PROVE  \/ to = "CAD_IN_PROGRESS" /\ ord.status = "NEW"
         \/ to = "CAD_IN_PROGRESS" /\ ord.status = "VPO_ISSUED" /\ role = "ADMIN"
         \/ to = "VPO_ISSUED" /\ ord.status = "CAD_IN_PROGRESS"
         \/ to = "VPO_ISSUED" /\ ord.status = "MANUFACTURED" /\ role = "ADMIN"
         \/ to = "MANUFACTURED" /\ ord.status = "VPO_ISSUED"
              /\ (role = "FACTORY_MANAGER" => ord.stoneReceived)
         \/ to = "REPAIR" /\ ord.status = "MANUFACTURED"
         \/ to = "COMPLETED" /\ ord.status \in {"MANUFACTURED", "REPAIR"}
         \/ to = "COMPLETED" /\ ord.source = "RING_BUILDER" /\ role = "ADMIN"
         \/ to = "CANCELLED" /\ ord.status # "CANCELLED"
<1>1. /\ ord.status \in OrderStatus
      /\ to \in MovableStatuses(role)
      /\ role = "FACTORY_MANAGER" /\ ord.status = "VPO_ISSUED" => ord.stoneReceived
  BY DEF MoveShown, Order
<1>2. CASE role = "ADMIN"
  <2>1. to \in StatusTransitions[ord.status] \/ (to = "COMPLETED" /\ ord.source = "RING_BUILDER")
    BY <1>1, <1>2 DEF MovableStatuses
  <2> QED
    BY <1>1, <1>2, <2>1 DEF StatusTransitions, OrderStatus
<1>3. CASE role # "ADMIN"
  <2>1. /\ to \in StatusTransitions[ord.status] /\ to \in StagePermissions[role]
        /\ ~(ord.status = "VPO_ISSUED" /\ to = "CAD_IN_PROGRESS")
    BY <1>1, <1>3 DEF MovableStatuses
  <2>2. to # "VPO_ISSUED"
    BY <1>3, <2>1 DEF StagePermissions, StaffRoles
  <2> QED
    BY <1>1, <2>1, <2>2 DEF StatusTransitions, OrderStatus
<1> QED
  BY <1>2, <1>3

\* updateStatus does what the page offers, to whoever it offers it.
LEMMA MovesAreTaken ==
  ASSUME ord \in Order, NEW role \in StaffRoles, NEW to, MoveShown(role, to),
         to = "MANUFACTURED" =>
           ord.assignedFactory # None /\ (NeedsStoneSupplier(ord) => ord.supplySource # None),
         Becomes(MovedTo(to), FilesMovedTo(to), LogMovedTo(to))
  PROVE  UpdateStatus(role, to, TRUE)
<1>1. /\ ord' = MovedTo(to)
      /\ file' = FilesMovedTo(to)
      /\ lastCancelFrom' = LogMovedTo(to)
  BY DEF Becomes
<1>2. CASE to = "CAD_IN_PROGRESS" /\ ord.status = "NEW"
  <2>1. ord' = [ord EXCEPT !.status = "CAD_IN_PROGRESS"] /\ UNCHANGED <<file, lastCancelFrom>>
    BY <1>1, <1>2 DEF MovedTo, FilesMovedTo, LogMovedTo
  <2>2. [ord EXCEPT !.status = "CAD_IN_PROGRESS", !.quotedCost = @ \/ FALSE]
          = [ord EXCEPT !.status = "CAD_IN_PROGRESS"]
    BY DEF Order
  <2>3. StartCad(FALSE)
    BY <1>2, <2>1, <2>2 DEF StartCad, Transition, AllowedTransitions
  <2> QED
    BY <1>2, <2>3 DEF UpdateStatus
<1>3. CASE to = "CAD_IN_PROGRESS" /\ ord.status = "VPO_ISSUED" /\ role = "ADMIN"
  <2>1. RevertToCad
    BY <1>1, <1>3
    DEF MovedTo, FilesMovedTo, LogMovedTo, RevertToCad, Transition, AllowedTransitions
  <2> QED
    BY <1>3, <2>1 DEF UpdateStatus
<1>4. CASE to = "VPO_ISSUED" /\ ord.status = "CAD_IN_PROGRESS"
  <2>1. IssueVpo(TRUE, TRUE)
    BY <1>1, <1>4
    DEF MovedTo, FilesMovedTo, LogMovedTo, IssueVpo, Transition, AllowedTransitions
  <2> QED
    BY <1>4, <2>1 DEF UpdateStatus
<1>5. CASE to = "VPO_ISSUED" /\ ord.status = "MANUFACTURED" /\ role = "ADMIN"
  <2>1. RevertToVpo
    BY <1>1, <1>5
    DEF MovedTo, FilesMovedTo, LogMovedTo, RevertToVpo, Transition, AllowedTransitions
  <2> QED
    BY <1>5, <2>1 DEF UpdateStatus
<1>6. CASE to = "MANUFACTURED" /\ ord.status = "VPO_ISSUED"
             /\ (role = "FACTORY_MANAGER" => ord.stoneReceived)
  <2>1. MarkManufactured(IF role = "FACTORY_MANAGER" THEN "FACTORY" ELSE "STAFF")
    BY <1>1, <1>6
    DEF MovedTo, FilesMovedTo, LogMovedTo, MarkManufactured, Transition, AllowedTransitions
  <2> QED
    BY <1>6, <2>1 DEF UpdateStatus
<1>7. CASE to = "REPAIR" /\ ord.status = "MANUFACTURED"
  <2>1. SendToRepair
    BY <1>1, <1>7
    DEF MovedTo, FilesMovedTo, LogMovedTo, SendToRepair, Transition, AllowedTransitions
  <2> QED
    BY <1>7, <2>1 DEF UpdateStatus
<1>8. CASE to = "COMPLETED" /\ ord.status \in {"MANUFACTURED", "REPAIR"}
  <2>1. CompleteOrder
    BY <1>1, <1>8
    DEF MovedTo, FilesMovedTo, LogMovedTo, CompleteOrder, Transition, AllowedTransitions
  <2> QED
    BY <1>8, <2>1 DEF UpdateStatus
<1>9. CASE to = "COMPLETED" /\ ord.source = "RING_BUILDER" /\ role = "ADMIN"
  <2>1. RingBuilderComplete
    BY <1>1, <1>9 DEF MovedTo, FilesMovedTo, LogMovedTo, RingBuilderComplete
  <2> QED
    BY <1>9, <2>1 DEF UpdateStatus
<1>10. CASE to = "CANCELLED" /\ ord.status # "CANCELLED"
  <2>1. Cancel
    BY <1>1, <1>10 DEF MovedTo, FilesMovedTo, LogMovedTo, Cancel, LogCancellation
  <2> QED
    BY <1>10, <2>1 DEF UpdateStatus
<1> QED
  BY <1>2, <1>3, <1>4, <1>5, <1>6, <1>7, <1>8, <1>9, <1>10, MovesAreKnown

\* The review buttons of the design viewer, all three of them.
LEMMA ReviewsAreTaken ==
  ASSUME NEW role \in StaffRoles, NEW f \in Files, ReviewShown(role, f), role # "CAD_DESIGNER"
  PROVE  /\ Becomes(ApprovalIssued(ord), [file EXCEPT ![f] = "APPROVED"], lastCancelFrom)
              => Review(role, f)
         /\ Becomes(Cancelled(ord), [file EXCEPT ![f] = "REJECTED"],
                    IF ord.status = "CANCELLED" THEN lastCancelFrom ELSE ord.status)
              => Review(role, f)
         /\ Becomes(RevisionRequested(ord), [file EXCEPT ![f] = "REVISION_REQUESTED"], lastCancelFrom)
              => Review(role, f)
<1>1. Exists(f) /\ role \in {"ADMIN", "AUTHORIZER", "SALES_REP"}
  BY DEF ReviewShown, Exists
<1>2. /\ Approve(f, TRUE) => Review(role, f)
      /\ Reject(f) => Review(role, f)
      /\ RequestRevision(f) => Review(role, f)
  BY <1>1 DEF Review
<1> QED
  BY <1>1, <1>2 DEF Becomes, Approve, Reject, RequestRevision, LogCancellation

\* No handler refuses what its button offers: whenever one of the buttons is
\* shown, the change it asks for is a step of the handler behind it, for any
\* number of files, factories and suppliers.  Exempt are the three cases that
\* OffersAreAccepted exempts.
THEOREM OffersAreTaken ==
  ASSUME TypeOK, NEW role \in StaffRoles
  PROVE
    /\ \A to \in OrderStatus :
         /\ MoveShown(role, to)
         /\ to = "MANUFACTURED" =>
              ord.assignedFactory # None /\ (NeedsStoneSupplier(ord) => ord.supplySource # None)
         /\ Becomes(MovedTo(to), FilesMovedTo(to), LogMovedTo(to))
         => UpdateStatus(role, to, TRUE)
    /\ \A f \in Files : ReviewShown(role, f) /\ role # "CAD_DESIGNER" =>
         /\ Becomes(ApprovalIssued(ord), [file EXCEPT ![f] = "APPROVED"], lastCancelFrom)
              => Review(role, f)
         /\ Becomes(Cancelled(ord), [file EXCEPT ![f] = "REJECTED"],
                    IF ord.status = "CANCELLED" THEN lastCancelFrom ELSE ord.status)
              => Review(role, f)
         /\ Becomes(RevisionRequested(ord), [file EXCEPT ![f] = "REVISION_REQUESTED"], lastCancelFrom)
              => Review(role, f)
    /\ \A factory \in Factories, source \in SupplySources :
         /\ AssignShown(role)
         /\ Becomes(Assigned(ord, factory, source), file, lastCancelFrom)
         => AssignSupplier(factory, source)
    /\ /\ StoneSentShown(role) \/ StoneReceivedShown(role)
       /\ Becomes([ord EXCEPT !.stoneReceived = TRUE], file, lastCancelFrom)
       => MarkStoneSent
    /\ FinishShown(role) /\ Becomes(Manufactured(ord), file, lastCancelFrom) =>
         CompleteManufacturing(IF role = "FACTORY_MANAGER" THEN "FACTORY" ELSE "STAFF")
    /\ SelfReopenShown /\ Becomes(Reopened(ord), file, lastCancelFrom) => ReactivateAutoArchived
<1>1. ASSUME NEW to \in OrderStatus, MoveShown(role, to),
             to = "MANUFACTURED" =>
               ord.assignedFactory # None /\ (NeedsStoneSupplier(ord) => ord.supplySource # None),
             Becomes(MovedTo(to), FilesMovedTo(to), LogMovedTo(to))
      PROVE  UpdateStatus(role, to, TRUE)
  BY <1>1, MovesAreTaken DEF TypeOK
<1>2. ASSUME NEW factory \in Factories, NEW source \in SupplySources, AssignShown(role),
             Becomes(Assigned(ord, factory, source), file, lastCancelFrom)
      PROVE  AssignSupplier(factory, source)
  BY <1>2 DEF AssignShown, AssignSupplier, Becomes
<1>3. ASSUME StoneSentShown(role) \/ StoneReceivedShown(role),
             Becomes([ord EXCEPT !.stoneReceived = TRUE], file, lastCancelFrom)
      PROVE  MarkStoneSent
  BY <1>3 DEF StoneSentShown, StoneReceivedShown, Queues, MarkStoneSent, Becomes
<1>4. ASSUME FinishShown(role), Becomes(Manufactured(ord), file, lastCancelFrom)
      PROVE  CompleteManufacturing(IF role = "FACTORY_MANAGER" THEN "FACTORY" ELSE "STAFF")
  BY <1>4 DEF FinishShown, Queues, Released, CompleteManufacturing, Becomes
<1>5. ASSUME SelfReopenShown, Becomes(Reopened(ord), file, lastCancelFrom)
      PROVE  ReactivateAutoArchived
  BY <1>5 DEF SelfReopenShown, ClosedProject, ReactivateAutoArchived, Becomes
<1> QED
  BY <1>1, <1>2, <1>3, <1>4, <1>5, ReviewsAreTaken

-----------------------------------------------------------------------------
(* The clocks: people and jobs take steps of the workflow, or none *)

\* The people of ApprovalStall who call a handler of the workflow.
Handling ==
  Send \/ Quote \/ CorrectSubStage \/ Design \/ Produce \/ Respond \/ Close \/ Reopen

\* Answering a survey and asking for a reminder leave the order alone.
LEMMA PeopleHandle ==
  ASSUME People
  PROVE  Handling \/ UNCHANGED handled
<1>1. ASSUME NEW n \in Nudges, CheckNudge(n)
      PROVE  UNCHANGED handled
  BY <1>1 DEF CheckNudge
<1>2. ASSUME NEW n \in Nudges, NEW accepted \in BOOLEAN, FinishNudge(n, accepted)
      PROVE  UNCHANGED handled
  BY <1>2 DEF FinishNudge
<1>3. CASE AnswerSurvey
  BY <1>3 DEF AnswerSurvey, handled
<1> QED
  BY <1>1, <1>2, <1>3, Zenon DEF People, Handling

\* What they do to the design, and to the order in production, is a step of the
\* stages, of CAD or of the routing.
LEMMA DesignHandlers ==
  ASSUME Send \/ Quote \/ CorrectSubStage \/ Design \/ Produce \/ Respond
  PROVE  StageStep \/ CadStep \/ RoutingStep
<1>1. CASE Send
  BY <1>1, Zenon DEF Send, CadStep
<1>2. CASE Quote \/ Produce
  BY <1>2, Zenon DEF Quote, Produce
<1>3. CASE CorrectSubStage
  BY <1>3, Zenon DEF CorrectSubStage, CadStep
<1>4. CASE Design
  BY <1>4, Zenon DEF Design, CadStep
<1>5. CASE Respond
  BY <1>5, Zenon DEF Respond, CadStep
<1> QED
  BY <1>1, <1>2, <1>3, <1>4, <1>5

\* Closing and reopening are steps of the closure.
LEMMA ClosureHandlers ==
  ASSUME Close \/ Reopen
  PROVE  \/ CloseProject \/ Cancel \/ ReactivateOrder
         \/ ReactivateClosedProject \/ ReactivateAutoArchived
BY Zenon DEF Close, Reopen

\* A morning archives the project or leaves its rows alone.
LEMMA MorningHandles ==
  ASSUME MorningWith({})
  PROVE  (ArchiveDue /\ AutoArchive) \/ UNCHANGED handled
<1> PICK ran \in SUBSET Jobs : Morning(ran)
  BY DEF MorningWith
<1> QED
  BY DEF Morning

\* The history variables do not move while the rows do not.
LEMMA StillObserved ==
  ASSUME TypeOK, ClosureIsRecorded, UNCHANGED handled, Observe
  PROVE  UNCHANGED vars
<1>1. UNCHANGED <<ord, file, lastCancelFrom>>
  BY DEF handled
<1>2. before' = before
  BY <1>1 DEF Observe
<1>3. customerClosed' = customerClosed
  BY <1>1 DEF Observe, ClosureIsRecorded, TypeOK
<1> QED
  BY <1>1, <1>2, <1>3 DEF vars

\* A step of the people or of a morning is one of the workflow, or none.
LEMMA StallStepIsStep ==
  ASSUME IInv, [StallNext]_stallVars
  PROVE  [Next]_vars
<1>1. TypeOK /\ ClosureIsRecorded
  BY DEF IInv
<1>2. CASE People /\ Observe
  <2>1. CASE Handling
    <3>1. StageStep \/ CadStep \/ RoutingStep \/ ClosureStep
      BY <2>1, DesignHandlers, ClosureHandlers DEF Handling, ClosureStep
    <3> QED
      BY <1>2, <3>1 DEF Next
  <2> QED
    BY <1>1, <1>2, <2>1, PeopleHandle, StillObserved
<1>3. CASE MorningWith({})
  <2>1. Observe
    BY <1>3 DEF MorningWith
  <2>2. CASE AutoArchive
    BY <2>1, <2>2 DEF Next, ClosureStep
  <2> QED
    BY <1>1, <1>3, <2>1, <2>2, MorningHandles, StillObserved
<1>4. CASE UNCHANGED stallVars
  BY <1>4 DEF stallVars
<1> QED
  BY <1>2, <1>3, <1>4 DEF StallNext

\* The inductive invariant of the workflow holds whenever the clocks run.
THEOREM StallInductive == StallSpec => []IInv
<1>1. StallInit => Init
  BY DEF StallInit
<1>2. IInv /\ [StallNext]_stallVars => IInv'
  BY StallStepIsStep, StepKeeps
<1> QED
  BY <1>1, <1>2, InitHolds, PTL DEF StallSpec

\* Days, surveys, reminders and the archive at ten take no liberty with the order:
\* what happens to it is a behaviour of the workflow of OrderLifecycle.
THEOREM StallRefinement == StallSpec => Spec
<1>1. StallInit => Init
  BY DEF StallInit
<1>2. IInv /\ [StallNext]_stallVars => [Next]_vars
  BY StallStepIsStep
<1> QED
  BY <1>1, <1>2, StallInductive, PTL DEF StallSpec, Spec

\* No step of a person's makes a clock older.
LEMMA PeopleKeepAge ==
  ASSUME People
  PROVE  awaitAge' = 0 \/ awaitAge' = awaitAge
<1> USE DEF ClockStarted, ClockKept
<1>1. CASE Send \/ Quote \/ CorrectSubStage \/ Design \/ Produce \/ Respond
  BY <1>1 DEF Send, Quote, CorrectSubStage, Design, Produce, Respond
<1>2. CASE Close \/ Reopen
  BY <1>2 DEF Close, Reopen, ReopenedClock
<1>3. CASE AnswerSurvey
  BY <1>3 DEF AnswerSurvey
<1>4. ASSUME NEW n \in Nudges, CheckNudge(n)
      PROVE  awaitAge' = awaitAge
  BY <1>4 DEF CheckNudge
<1>5. ASSUME NEW n \in Nudges, NEW accepted \in BOOLEAN, FinishNudge(n, accepted)
      PROVE  awaitAge' = 0 \/ awaitAge' = awaitAge
  BY <1>5 DEF FinishNudge, ClockAfterReminder
<1> QED
  BY <1>1, <1>2, <1>3, <1>4, <1>5 DEF People

\* A cancelled order that is reactivated changes its status: the log never names
\* CANCELLED as the status to return to.
LEMMA ReactivationMoves ==
  ASSUME IInv, ReactivateOrder
  PROVE  ord'.status # ord.status
<1>1. ord \in Order /\ lastCancelFrom # "CANCELLED"
  BY DEF IInv, TypeOK, NeverShipped
<1>2. ord.status = "CANCELLED"
  BY DEF ReactivateOrder
<1>3. ord'.status = IF lastCancelFrom = None THEN "NEW" ELSE lastCancelFrom
  BY <1>1 DEF ReactivateOrder, Order
<1> QED
  BY <1>1, <1>2, <1>3

\* Whoever reopens what the job archived starts the clock over.
LEMMA ReopeningStartsClock ==
  ASSUME IInv, People, Reopening
  PROVE  awaitAge' = 0
<1>1. /\ ord.isArchived /\ ord.closureReason = "AUTO"
      /\ ~ord'.isArchived /\ ord'.status = ord.status
  BY DEF Reopening
<1>2. TypeOK
  BY DEF IInv
<1>3. ~(Send \/ Quote \/ CorrectSubStage \/ Design \/ Produce \/ Respond)
  <2>1. ~(StageStep \/ RoutingStep \/ CadStep)
    BY <1>1, <1>2, ArchiveIsKept
  <2> QED
    BY <2>1, DesignHandlers
<1>4. ~Close
  <2>1. ~CloseProject
    BY <1>1 DEF CloseProject
  <2>2. ~Cancel
    BY <1>1, <1>2 DEF Cancel, Cancelled, TypeOK, Order
  <2>3. ~ReactivateOrder
    BY <1>1, ReactivationMoves
  <2> QED
    BY <2>1, <2>2, <2>3 DEF Close
<1>5. ~UNCHANGED handled
  BY <1>1 DEF handled
<1>6. Reopen
  BY <1>3, <1>4, <1>5, PeopleHandle DEF Handling
<1> QED
  BY <1>1, <1>6 DEF Reopen, ReopenedClock, ClockStarted

\* What makes ReopenedHasItsPeriod inductive: no clock is older than the last
\* reopening of the project, whatever was done to it since.
ClockIsYounger == awaitAge <= reprieve

\* Every step keeps it.
LEMMA ClockStaysYounger ==
  ASSUME IInv, StallTypeOK, ClockIsYounger, [StallNext]_stallVars
  PROVE  ClockIsYounger'
<1>0. awaitAge \in Ages /\ reprieve \in Ages
  BY DEF StallTypeOK
<1>1. CASE People /\ reprieve' = IF Reopening THEN 0 ELSE reprieve
  <2>1. CASE Reopening
    BY <1>1, <2>1, ReopeningStartsClock DEF ClockIsYounger
  <2>2. CASE ~Reopening
    BY <1>0, <1>1, <2>2, PeopleKeepAge, StallAssumption DEF ClockIsYounger, Ages
  <2> QED
    BY <2>1, <2>2
<1>2. CASE MorningWith({})
  <2>1. reprieve' = Now(reprieve)
    BY <1>2 DEF MorningWith
  <2>2. awaitAge' = 0 \/ awaitAge' = Now(awaitAge)
    BY <1>2 DEF MorningWith, Morning
  <2>3. 0 <= Now(reprieve) /\ Now(awaitAge) <= Now(reprieve)
    BY <1>0, StallAssumption DEF Now, Ages, ClockIsYounger
  <2> QED
    BY <2>1, <2>2, <2>3 DEF ClockIsYounger
<1>3. CASE UNCHANGED stallVars
  BY <1>3 DEF stallVars, ClockIsYounger
<1> QED
  BY <1>1, <1>2, <1>3 DEF StallNext

\* The clocks, dates and requests keep their types, and no clock outgrows MaxAge.
LEMMA StallStepTyped ==
  ASSUME IInv, StallTypeOK, [StallNext]_stallVars
  PROVE  StallTypeOK'
<1>0. TypeOK'
  BY StallStepIsStep, StepKeeps DEF IInv
<1>1. CASE UNCHANGED stallVars
  BY <1>0, <1>1 DEF stallVars, StallTypeOK
<1>2. CASE People /\ reprieve' = IF Reopening THEN 0 ELSE reprieve
  <2> USE DEF StallTypeOK, Ages, Handles, NotMailed, MailedAfresh, MailedAgain, NoStall, Stall,
              ClockStarted, ClockKept
  <2>0. 0 \in Ages /\ reprieve' \in Ages
    BY <1>2, StallAssumption
  <2>1. CASE Send
    BY <1>0, <2>0, <2>1 DEF Send
  <2>2. CASE Quote
    <3>1. /\ day' = day /\ nudge' = nudge
          /\ (ClockStarted /\ MailedAgain) \/ (ClockKept /\ NotMailed)
      BY <2>2 DEF Quote
    <3> QED
      BY <1>0, <2>0, <3>1
  <2>3. CASE CorrectSubStage
    BY <1>0, <2>0, <2>3 DEF CorrectSubStage
  <2>4. CASE Design \/ Produce \/ Respond \/ Close
    BY <1>0, <2>0, <2>4 DEF Design, Produce, Respond, Close
  <2>5. CASE Reopen
    BY <1>0, <2>0, <2>5 DEF Reopen, ReopenedClock
  <2>6. CASE AnswerSurvey
    BY <1>0, <2>0, <2>6 DEF AnswerSurvey
  <2>7. ASSUME NEW n \in Nudges, CheckNudge(n)
        PROVE  StallTypeOK'
    BY <1>0, <2>0, <2>7 DEF CheckNudge
  <2>8. ASSUME NEW n \in Nudges, NEW accepted \in BOOLEAN, FinishNudge(n, accepted)
        PROVE  StallTypeOK'
    <3>1. nudge' \in [Nudges -> {"IDLE", "MAILING"}] /\ day' = day
      BY <2>8 DEF FinishNudge
    <3>2. awaitAge' \in Ages
      BY <2>0, <2>8 DEF FinishNudge, ClockAfterReminder
    <3>3. MailedAfresh \/ NotMailed
      BY <2>8 DEF FinishNudge
    <3>4. CASE MailedAfresh
      BY <1>0, <2>0, <3>1, <3>2, <3>4
    <3>5. CASE NotMailed
      BY <1>0, <2>0, <3>1, <3>2, <3>5
    <3> QED
      BY <3>3, <3>4, <3>5
  <2> HIDE DEF StallTypeOK
  <2> QED
    BY <1>2, <2>1, <2>2, <2>3, <2>4, <2>5, <2>6, <2>7, <2>8 DEF People
<1>3. CASE MorningWith({})
  <2>1. PICK ran \in SUBSET Jobs : Morning(ran)
    BY <1>3 DEF MorningWith
  <2>2. day' \in 0..Week-1
    BY <2>1, StallAssumption DEF Morning, StallTypeOK
  <2>3. \A age \in Ages : Now(age) \in Ages
    BY StallAssumption DEF Now, Ages
  <2>5. emailAge' \in Ages \cup {None} /\ awaitAge' \in Ages
    BY <2>1, <2>3, StallAssumption DEF Morning, StallTypeOK, Now, Ages
  <2>6. stall' \in Stall
    <3>1. \A s \in Stall : Surveyed(s) \in Stall
      BY DEF Surveyed, Stall
    <3>2. \A s \in Stall : Reminded(s) \in Stall
      BY DEF Reminded, Stall
    <3> QED
      BY <2>1, <3>1, <3>2 DEF Morning, StallTypeOK
  <2>7. nudge' \in [Nudges -> {"IDLE", "MAILING"}] 
    BY <2>1 DEF Morning, StallTypeOK
  <2>8. reprieve' \in Ages
    BY <1>3, <2>3 DEF MorningWith, StallTypeOK
  <2> QED
    BY <1>0, <2>2, <2>5, <2>6, <2>7, <2>8 DEF StallTypeOK
<1> QED
  BY <1>1, <1>2, <1>3 DEF StallNext

\* Type correctness of the clocks, for weeks, business days and periods of any length.
THEOREM StallTypeCorrect == StallSpec => []StallTypeOK
<1>1. StallInit => StallTypeOK
  <2> SUFFICES ASSUME StallInit PROVE StallTypeOK
    OBVIOUS
  <2>1. TypeOK
    BY InitTyped DEF StallInit
  <2>2. 0 \in 0..Week-1 /\ 0 \in Ages /\ MaxAge \in Ages
    BY StallAssumption DEF Ages
  <2> QED
    BY <2>1, <2>2 DEF StallInit, StallTypeOK, Stall, NoStall
<1> QED
  BY <1>1, StallStepTyped, StallInductive, PTL DEF StallSpec

\* A project that was archived automatically and reopened, by staff or by its
\* customer, is not swept up again before a whole period is over: for periods of
\* any length, and whatever is done to it in between, cancelling and reactivating
\* it included.
THEOREM ReopenedSafe == StallSpec => ReopenedHasItsPeriod
<1>1. StallInit => ClockIsYounger
  BY StallAssumption DEF StallInit, ClockIsYounger
<1>2. IInv /\ StallTypeOK /\ ClockIsYounger /\ [StallNext]_stallVars => ClockIsYounger'
  BY ClockStaysYounger
<1>3. StallTypeOK /\ ClockIsYounger
        => [ord'.isArchived # ord.isArchived /\ MorningWith({})
              => reprieve >= ArchiveAfter]_stallVars
  <2> SUFFICES ASSUME StallTypeOK, ClockIsYounger,
                      ord'.isArchived # ord.isArchived, MorningWith({})
               PROVE  reprieve >= ArchiveAfter
    OBVIOUS
  <2>1. ArchiveDue
    BY MorningHandles DEF handled
  <2> QED
    BY <2>1, StallAssumption DEF ArchiveDue, ClockIsYounger, StallTypeOK, Ages
<1> QED
  BY <1>1, <1>2, <1>3, StallInductive, StallTypeCorrect, PTL DEF StallSpec, ReopenedHasItsPeriod

-----------------------------------------------------------------------------
(* What a waiting project's clock does *)

\* A person's step either keeps the archive clock or starts it over at once.
LEMMA PeopleKeepClock ==
  ASSUME StallTypeOK, People, ord.awaitingApprovalSince
  PROVE  StartedOver \/ awaitAge' >= awaitAge
<1> DEFINE Goal == StartedOver \/ awaitAge' >= awaitAge
<1> SUFFICES Goal
  OBVIOUS
<1> USE DEF StallTypeOK, Ages
<1>1. ASSUME Handles, ClockStarted \/ ClockKept
      PROVE  Goal
  <2>1. UNCHANGED nudge
    BY <1>1 DEF Handles
  <2>2. awaitAge' = 0 \/ awaitAge' = awaitAge
    BY <1>1 DEF ClockStarted, ClockKept
  <2> QED
    BY <2>1, <2>2, StallAssumption DEF StartedOver
<1>2. ASSUME UNCHANGED awaitAge
      PROVE  Goal
  BY <1>2, StallAssumption
<1> HIDE DEF Goal
<1>3. CASE Send \/ Quote \/ CorrectSubStage
  BY <1>1, <1>3 DEF Send, Quote, CorrectSubStage
<1>4. CASE Design \/ Produce \/ Respond
  BY <1>1, <1>4 DEF Design, Produce, Respond
<1>5. CASE Close \/ Reopen
  BY <1>1, <1>5 DEF Close, Reopen, ReopenedClock
<1>6. CASE AnswerSurvey
  BY <1>2, <1>6 DEF AnswerSurvey
<1>7. ASSUME NEW n \in Nudges, CheckNudge(n)
      PROVE  Goal
  BY <1>2, <1>7 DEF CheckNudge
<1>8. ASSUME NEW n \in Nudges, NEW accepted \in BOOLEAN, FinishNudge(n, accepted)
      PROVE  Goal
  <2>1. ord' = ord
    BY <1>8 DEF FinishNudge, handled
  <2>2. ClockKept
    BY <1>8 DEF FinishNudge, ClockAfterReminder
  <2> QED
    BY <1>2, <2>1, <2>2 DEF ClockKept
<1> QED
  BY <1>3, <1>4, <1>5, <1>6, <1>7, <1>8 DEF People

\* A morning on which the archive job ran counts one day more, or it was the last.
LEMMA MorningCounts ==
  ASSUME StallTypeOK, Waiting, ord.awaitingApprovalSince, MorningWith({"ARCHIVE"})
  PROVE  \/ ord'.isArchived
         \/ awaitAge < ArchiveAfter /\ awaitAge' = awaitAge + 1
<1> PICK ran \in SUBSET Jobs : "ARCHIVE" \in ran /\ Morning(ran)
  BY DEF MorningWith
<1>1. awaitAge \in 0..MaxAge
  BY DEF StallTypeOK, Ages
<1>2. CASE awaitAge >= ArchiveAfter
  <2>1. AutoArchive
    BY <1>2 DEF Morning, ArchiveDue, Waiting
  <2> QED
    BY <2>1 DEF AutoArchive, AutoArchived, StallTypeOK, TypeOK, Order
<1>3. CASE awaitAge < ArchiveAfter
  BY <1>1, <1>3, StallAssumption DEF Morning, Now
<1> QED
  BY <1>1, <1>2, <1>3, StallAssumption

\* A morning without the job only makes the clock older.
LEMMA MorningAges ==
  ASSUME StallTypeOK, ord.awaitingApprovalSince, MorningWith({})
  PROVE  awaitAge' >= awaitAge
<1> PICK ran \in SUBSET Jobs : Morning(ran)
  BY DEF MorningWith
<1> QED
  BY StallAssumption DEF Morning, Now, StallTypeOK, Ages

\* The archive never gets further away from a project that waits for its customer:
\* no survey, reminder, upload or answered survey turns its clock back, only a step
\* that starts it over.  Every morning on which the job runs brings it one day
\* closer, and the morning after ArchiveAfter days archives it.  (What is left to
\* fairness is that such mornings come.)
THEOREM ArchiveComesCloser ==
  StallSpec =>
    /\ [][Waiting /\ ord.source # "IMPORT"
            => StartedOver \/ awaitAge' >= awaitAge]_stallVars
    /\ [][Waiting /\ ord.source # "IMPORT" /\ MorningWith({"ARCHIVE"})
            => \/ ord'.isArchived
               \/ awaitAge < ArchiveAfter /\ awaitAge' = awaitAge + 1]_stallVars
<1> DEFINE Clocked == Waiting /\ ord.source # "IMPORT"
<1>1. IInv /\ Clocked => ord.awaitingApprovalSince
  BY DEF IInv, SentOrdersHaveClock, Waiting, AwaitingApproval
<1>2. IInv /\ StallTypeOK /\ [StallNext]_stallVars
        => [Waiting /\ ord.source # "IMPORT"
              => StartedOver \/ awaitAge' >= awaitAge]_stallVars
  BY <1>1, PeopleKeepClock, MorningAges DEF StallNext
<1>3. IInv /\ StallTypeOK
        => [Waiting /\ ord.source # "IMPORT" /\ MorningWith({"ARCHIVE"})
              => \/ ord'.isArchived
                 \/ awaitAge < ArchiveAfter /\ awaitAge' = awaitAge + 1]_stallVars
  BY <1>1, MorningCounts
<1> QED
  BY <1>2, <1>3, StallInductive, StallTypeCorrect, PTL DEF StallSpec

-----------------------------------------------------------------------------
(* Who mails without starting the survey over *)

\* A fresh email starts the survey over, whoever sends it: but for a price that
\* sends the designs of an order that had sent none.
THEOREM QuotesMailAgain ==
  StallSpec =>
    [][emailAge' = 0 /\ emailAge # 0
         => \/ stall' = NoStall
            \/ Quote /\ ~ord.sentToCustomer /\ ord'.sentToCustomer]_stallVars
<1>1. ASSUME StallTypeOK, People, emailAge' = 0, emailAge # 0
      PROVE  stall' = NoStall \/ (Quote /\ ~ord.sentToCustomer /\ ord'.sentToCustomer)
  <2> DEFINE Goal == stall' = NoStall \/ (Quote /\ ~ord.sentToCustomer /\ ord'.sentToCustomer)
  <2>1. ASSUME NotMailed PROVE FALSE
    BY <1>1, <2>1 DEF NotMailed
  <2>2. ASSUME UNCHANGED emailAge PROVE FALSE
    BY <1>1, <2>2
  <2>3. CASE Send
    BY <2>3 DEF Send, MailedAfresh
  <2>4. CASE Quote
    BY <2>1, <2>4 DEF Quote
  <2>5. CASE CorrectSubStage \/ Design \/ Produce \/ Respond
    BY <2>1, <2>5 DEF CorrectSubStage, Design, Produce, Respond
  <2>6. CASE Close \/ Reopen
    BY <2>1, <2>6 DEF Close, Reopen
  <2>7. CASE AnswerSurvey
    BY <2>2, <2>7 DEF AnswerSurvey
  <2>8. ASSUME NEW n \in Nudges, CheckNudge(n)
        PROVE  Goal
    BY <2>2, <2>8 DEF CheckNudge
  <2>9. ASSUME NEW n \in Nudges, NEW accepted \in BOOLEAN, FinishNudge(n, accepted)
        PROVE  Goal
    BY <2>1, <2>9 DEF FinishNudge, MailedAfresh
  <2> QED
    BY <1>1, <2>3, <2>4, <2>5, <2>6, <2>7, <2>8, <2>9 DEF People
<1>2. ASSUME StallTypeOK, MorningWith({}), emailAge' = 0, emailAge # 0
      PROVE  FALSE
  <2> PICK ran \in SUBSET Jobs : Morning(ran)
    BY <1>2 DEF MorningWith
  <2> QED
    BY <1>2, StallAssumption DEF Morning, Now, StallTypeOK, Ages
<1>3. StallTypeOK /\ [StallNext]_stallVars
        => [emailAge' = 0 /\ emailAge # 0
              => \/ stall' = NoStall
                 \/ Quote /\ ~ord.sentToCustomer /\ ord'.sentToCustomer]_stallVars
  BY <1>1, <1>2 DEF StallNext
<1> QED
  BY <1>3, StallTypeCorrect, PTL DEF StallSpec
=============================================================================
