--------------------------- MODULE OrderRowProofs ---------------------------
(***************************************************************************)
(* What each handler's effect on a row preserves: its types and, below,    *)
(* the two relations between columns that every writer keeps.              *)
(***************************************************************************)
EXTENDS OrderRow, TLAPS

-----------------------------------------------------------------------------
(* What the handlers write is again a row *)

\* A new row of any origin and price is well typed.
LEMMA CreatedIsOrder ==
  ASSUME NEW o \in Origins, NEW q \in BOOLEAN, NEW m \in BOOLEAN
  PROVE  CreatedOrder(o, q, m) \in Order
BY RowAssumption DEF CreatedOrder, Order, OrderStatus, CadSubStatus, ClosureReasons

\* So is an imported one.
LEMMA ImportedIsOrder ==
  ASSUME "IMPORT" \in Origins, NEW q \in BOOLEAN, NEW r \in ResolveImportedStatus(q),
         NEW sku \in BOOLEAN, NEW a \in BOOLEAN, NEW x \in BOOLEAN
  PROVE  ImportedOrder(r, q, sku, a, x) \in Order
<1>1. CreatedOrder("IMPORT", q, FALSE) \in Order
  BY CreatedIsOrder
<1>2. /\ r.status \in OrderStatus /\ r.cadSubStatus \in CadSubStatus
      /\ r.sentToCustomer \in BOOLEAN
  <2>1. CASE r = [status |-> "CAD_IN_PROGRESS", cadSubStatus |-> "UPLOADED", sentToCustomer |-> q]
    BY <2>1 DEF OrderStatus, CadSubStatus
  <2>2. CASE \E s \in {"NEW", "VPO_ISSUED", "MANUFACTURED", "CANCELLED"} :
               r = [status |-> s, cadSubStatus |-> None, sentToCustomer |-> FALSE]
    BY <2>2 DEF OrderStatus, CadSubStatus
  <2> QED
    BY <2>1, <2>2 DEF ResolveImportedStatus
<1> QED
  BY <1>1, <1>2 DEF ImportedOrder, Order

\* The sub-stages an Admin can choose have well-typed columns.
LEMMA SubStageColumns ==
  ASSUME NEW name \in DOMAIN SubStage
  PROVE  /\ SubStage[name].cadSubStatus \in CadSubStatus
         /\ SubStage[name].sentToCustomer \in BOOLEAN
         /\ SubStage[name].fileStatus \in CadFileStatus \ {"ABSENT"}
<1>1. CASE name = "PENDING_CAD"
  BY <1>1 DEF SubStage, CadSubStatus, CadFileStatus
<1>2. CASE name = "AWAITING_QUOTE"
  BY <1>2 DEF SubStage, CadSubStatus, CadFileStatus
<1>3. CASE name = "AWAITING_APPROVAL"
  BY <1>3 DEF SubStage, CadSubStatus, CadFileStatus
<1>4. CASE name = "REVISION"
  BY <1>4 DEF SubStage, CadSubStatus, CadFileStatus
<1> QED
  BY <1>1, <1>2, <1>3, <1>4 DEF SubStage

\* Each effect that a handler has on its row keeps the row well typed.
LEMMA EffectsAreOrders ==
  ASSUME NEW r \in Order
  PROVE  /\ Cancelled(r) \in Order /\ RevertedToVpo(r) \in Order
         /\ RevertedToCad(r) \in Order /\ Issued(r) \in Order
         /\ Manufactured(r) \in Order /\ Completed(r) \in Order
         /\ Sent(r) \in Order /\ Closed(r) \in Order /\ AutoArchived(r) \in Order
         /\ Reopened(r) \in Order /\ ApprovalFlagged(r) \in Order
         /\ ApprovalIssued(r) \in Order /\ RevisionRequested(r) \in Order
         /\ \A name \in DOMAIN SubStage : InSubStage(r, SubStage[name]) \in Order
<1>1. /\ Cancelled(r) \in Order /\ RevertedToVpo(r) \in Order
      /\ RevertedToCad(r) \in Order /\ Issued(r) \in Order
  BY DEF Cancelled, RevertedToVpo, RevertedToCad, Issued, Order, OrderStatus, CadSubStatus
<1>2. /\ Manufactured(r) \in Order /\ Completed(r) \in Order /\ Sent(r) \in Order
      /\ Closed(r) \in Order /\ AutoArchived(r) \in Order
  BY DEF Manufactured, Completed, Sent, Closed, AutoArchived,
         Order, OrderStatus, ClosureReasons
<1>5. Reopened(r) \in Order
  BY DEF Reopened, Order
<1>3. /\ ApprovalFlagged(r) \in Order /\ ApprovalIssued(r) \in Order
      /\ RevisionRequested(r) \in Order
  BY DEF ApprovalFlagged, ApprovalIssued, RevisionRequested, Order, OrderStatus, CadSubStatus
<1>4. ASSUME NEW name \in DOMAIN SubStage
      PROVE  InSubStage(r, SubStage[name]) \in Order
  <2>1. PICK c \in CadSubStatus, sent \in BOOLEAN :
          SubStage[name].cadSubStatus = c /\ SubStage[name].sentToCustomer = sent
    BY SubStageColumns
  <2>2. /\ "CAD_IN_PROGRESS" \in OrderStatus /\ r \in Order
        /\ (IF r.status = "VPO_ISSUED" THEN FALSE ELSE r.vpoIssuedAt) \in BOOLEAN
    BY DEF OrderStatus, Order
  <2>3. CASE sent = TRUE
    BY <2>1, <2>2, <2>3 DEF InSubStage, Order
  <2>4. CASE sent = FALSE
    BY <2>1, <2>2, <2>4 DEF InSubStage, Order
  <2> QED
    BY <2>3, <2>4
<1> QED
  BY <1>1, <1>2, <1>3, <1>4, <1>5

\* Moving all files of one status to another keeps them well typed.
LEMMA BumpedFiles ==
  ASSUME NEW files \in [Files -> CadFileStatus], NEW from, NEW to \in CadFileStatus
  PROVE  Bumped(files, from, to) \in [Files -> CadFileStatus]
BY DEF Bumped

\* What the resync can read off the files is a pair of well-typed columns.
LEMMA SubStagesOfFiles ==
  ASSUME NEW files, NEW target \in SubStageOf(files)
  PROVE  \E c \in CadSubStatus, sent \in BOOLEAN :
           target = [cadSubStatus |-> c, sentToCustomer |-> sent]
BY DEF SubStageOf, CadSubStatus


-----------------------------------------------------------------------------
(* Columns that go together *)

\* A row that is shown to the customer has its clock, and one in the stage
\* APPROVED has the customer's approval.
Consistent(r) ==
  /\ r.sentToCustomer => r.awaitingApprovalSince
  /\ r.cadSubStatus = "APPROVED" => r.customerEmailApproval

GoodRow(r) == r \in Order /\ Consistent(r)

\* An Admin cannot choose the stage APPROVED.
LEMMA SubStageIsUndecided ==
  ASSUME NEW name \in DOMAIN SubStage
  PROVE  SubStage[name].cadSubStatus # "APPROVED"
<1>1. CASE name = "PENDING_CAD"
  BY <1>1, RowAssumption DEF SubStage
<1>2. CASE name = "AWAITING_QUOTE"
  BY <1>2 DEF SubStage
<1>3. CASE name = "AWAITING_APPROVAL"
  BY <1>3 DEF SubStage
<1>4. CASE name = "REVISION"
  BY <1>4 DEF SubStage
<1> QED
  BY <1>1, <1>2, <1>3, <1>4 DEF SubStage

\* Each effect keeps the two relations, whatever row it is given.
LEMMA EffectsAreGood ==
  ASSUME NEW r, GoodRow(r)
  PROVE  /\ GoodRow(Cancelled(r)) /\ GoodRow(RevertedToVpo(r)) /\ GoodRow(RevertedToCad(r))
         /\ GoodRow(Manufactured(r)) /\ GoodRow(Completed(r)) /\ GoodRow(Sent(r))
         /\ GoodRow(Closed(r)) /\ GoodRow(AutoArchived(r)) /\ GoodRow(Reopened(r))
         /\ GoodRow(ApprovalFlagged(r)) /\ GoodRow(RevisionRequested(r))
         /\ \A name \in DOMAIN SubStage : GoodRow(InSubStage(r, SubStage[name]))
<1> USE DEF GoodRow
<1>1. /\ Consistent(Cancelled(r)) /\ Consistent(RevertedToVpo(r))
      /\ Consistent(RevertedToCad(r)) /\ Consistent(Manufactured(r))
      /\ Consistent(Completed(r)) /\ Consistent(Sent(r))
  BY RowAssumption
  DEF Consistent, Cancelled, RevertedToVpo, RevertedToCad, Manufactured, Completed, Sent,
         Order, CadSubStatus
<1>2. /\ Consistent(Closed(r)) /\ Consistent(AutoArchived(r))
      /\ Consistent(ApprovalFlagged(r)) /\ Consistent(RevisionRequested(r))
  BY DEF Consistent, Closed, AutoArchived, ApprovalFlagged, RevisionRequested, Order
<1>3. Consistent(Reopened(r))
  BY DEF Consistent, Reopened, Order
<1>4. ASSUME NEW name \in DOMAIN SubStage
      PROVE  Consistent(InSubStage(r, SubStage[name]))
  <2>1. PICK c \in CadSubStatus \ {"APPROVED"}, sent \in BOOLEAN :
          SubStage[name].cadSubStatus = c /\ SubStage[name].sentToCustomer = sent
    BY SubStageIsUndecided, SubStageColumns
  <2>2. /\ r \in Order
        /\ (IF r.status = "VPO_ISSUED" THEN FALSE ELSE r.vpoIssuedAt) \in BOOLEAN
    BY DEF Order
  <2>3. CASE sent = TRUE
    BY <2>1, <2>2, <2>3 DEF Consistent, InSubStage, Order
  <2>4. CASE sent = FALSE
    BY <2>1, <2>2, <2>4 DEF Consistent, InSubStage, Order
  <2> QED
    BY <2>3, <2>4
<1> QED
  BY <1>1, <1>2, <1>3, <1>4, EffectsAreOrders

\* So does the resync, for whatever target it read off some earlier files.
ResyncTargets == [cadSubStatus : CadSubStatus \ {"APPROVED"}, sentToCustomer : BOOLEAN]

\* What the files call for is one of the targets of a resync.
LEMMA TargetsOfFiles ==
  ASSUME NEW files
  PROVE  SubStageOf(files) \subseteq ResyncTargets
<1> DEFINE stage(c, s) == [cadSubStatus |-> c, sentToCustomer |-> s]
<1>1. /\ None \in CadSubStatus \ {"APPROVED"} /\ "REVISION" \in CadSubStatus \ {"APPROVED"}
      /\ "UPLOADED" \in CadSubStatus \ {"APPROVED"}
  BY RowAssumption DEF CadSubStatus
<1>2. ASSUME NEW c \in CadSubStatus \ {"APPROVED"}, NEW s \in BOOLEAN
      PROVE  stage(c, s) \in ResyncTargets
  BY DEF ResyncTargets
<1>3. ASSUME NEW target \in SubStageOf(files)
      PROVE  \/ target = stage(None, FALSE) \/ target = stage("REVISION", FALSE)
             \/ target = stage("UPLOADED", TRUE) \/ target = stage("UPLOADED", FALSE)
  BY <1>3 DEF SubStageOf
<1> HIDE DEF stage
<1> QED
  BY <1>1, <1>2, <1>3

\* The resync keeps a good row good.
LEMMA ResyncedIsGood ==
  ASSUME NEW r, GoodRow(r), NEW target \in ResyncTargets
  PROVE  GoodRow(Resynced(r, target))
<1>1. PICK c \in CadSubStatus \ {"APPROVED"}, sent \in BOOLEAN :
        target.cadSubStatus = c /\ target.sentToCustomer = sent
  BY DEF ResyncTargets
<1>2. Resynced(r, target) \in Order
  BY <1>1 DEF GoodRow, Resynced, Order
<1> QED
  BY <1>1, <1>2 DEF GoodRow, Consistent, Resynced, Order
=============================================================================
