-------------------------- MODULE MCOrderRequests --------------------------
EXTENDS OrderRequests, TLC

\* Which request is which does not matter.
RequestSymmetry == Permutations(Requests)

\* All handlers except four that read and save one row, as those kept do; they would
\* only multiply the states by columns no other handler looks at.
SerialHandlers ==
  AllHandlers \ {"EditSupplier", "MarkStoneSent", "CompleteManufacturing", "UpdateQuoteOptions"}

\* The handlers that write what the customer is shown and has approved.
ApprovalHandlers ==
  {"StartCad", "SaveQuote", "UploadBatch", "SendToCustomer", "SetSubStage", "RequestRevision",
   "Approve", "RevertToCad", "Reconcile"}

\* The customer closes a project while staff approve its design for her.
ClosureHandlers ==
  {"StartCad", "SaveQuote", "UploadBatch", "SendToCustomer", "Approve", "CloseProject",
   "MarkStoneSent", "CompleteManufacturing"}
=============================================================================
