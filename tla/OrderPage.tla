------------------------------ MODULE OrderPage ------------------------------
(***************************************************************************)
(* One browser tab on the order detail page, pages/orders/[id].tsx.  The   *)
(* page is one component for every order: following a notification, or the *)
(* Back button, from one order to another changes the route parameter and  *)
(* keeps all state.  So the page may hold requests of an order it has left *)
(* when it opens the next one.                                             *)
(*                                                                         *)
(* The data is reduced to whose it is: which order the row on screen, and  *)
(* the design files on screen, belong to.  What the requests do to the     *)
(* order is in OrderLifecycle and OrderRequests.                           *)
(***************************************************************************)
EXTENDS Naturals, Sequences, FiniteSets

CONSTANTS
  Orders,
  None,
  MaxOpened,    \* bound: how often the tab opens an order
  MaxPending,   \* bound: handlers that wait for an answer at a time
  MaxDesigns    \* bound: designs that one review is about

ASSUME PageAssumption ==
  /\ None \notin Orders
  /\ MaxOpened \in Nat \ {0} /\ MaxPending \in Nat /\ MaxDesigns \in Nat

VARIABLES
  id,         \* the order of the route
  order,      \* whose row is on screen
  cads,       \* whose design files are on screen
  loading,    \* the page shows "Loading" in place of the order
  fetches,    \* the loads that still wait: [of, part]
  task,       \* what each handler of the page still has to ask the server for
  stuck,      \* handlers whose busy flag nothing will clear any more
  opened,     \* how often an order was opened
  disturbed   \* history: since the last opening, its order did not load, or an
              \* answer about another order came in

vars == <<id, order, cads, loading, fetches, task, stuck, opened, disturbed>>

\* Handlers that share a busy flag are one.  The last three have no try/finally
\* around their requests; Review has neither that nor a flag on its first button,
\* but is taken to be clicked again only when its requests are through.
Handlers == {"SaveField", "CorrectStage", "Upload", "Review",
             "MoveStage", "SaveQuotedPrice", "SaveAndReload"}

Unguarded == {"MoveStage", "SaveQuotedPrice", "SaveAndReload"}

\* What a handler asks for: a write whose answer is the new row, a write that
\* must succeed for the handler to go on, one whose answer it does not look at,
\* the row, the files.
Requests == [what : {"ROW", "WRITE", "SEND", "READ_ORDER", "READ_CADS"}, of : Orders]

Parts == {"ORDER", "CADS"}

TypeOK ==
  /\ id \in Orders
  /\ order \in Orders \cup {None} /\ cads \in Orders \cup {None}
  /\ loading \in BOOLEAN
  /\ fetches \subseteq [of : Orders, part : Parts]
  /\ task \in [Handlers -> Seq(Requests)]
  /\ stuck \subseteq Handlers
  /\ opened \in 0..MaxOpened
  /\ disturbed \in BOOLEAN

-----------------------------------------------------------------------------
(* Opening an order *)

Loads(o) == {[of |-> o, part |-> p] : p \in Parts}

Init ==
  /\ id \in Orders
  /\ order = None /\ cads = None
  /\ loading = TRUE /\ fetches = Loads(id)
  /\ task = [h \in Handlers |-> <<>>] /\ stuck = {}
  /\ opened = 1
  /\ disturbed = FALSE

\* Bug: the loads of the order that is left go on.
Abandoned(old) == old

\* controller.abort(): the answers of the order that is left are not looked at.
StillWanted(old) == {}

\* The row on screen is not cleared; the files are.
Open(o) ==
  /\ opened < MaxOpened
  /\ o # id
  /\ id' = o
  /\ cads' = None
  /\ loading' = TRUE
  /\ fetches' = StillWanted(fetches) \cup Loads(o)
  /\ opened' = opened + 1
  /\ disturbed' = FALSE
  /\ UNCHANGED <<order, task, stuck>>

\* Bug: the page settles only when both parts have come.
SettledIfLoaded(l, ok) == IF ok /\ fetches \ {l} = {} THEN FALSE ELSE loading

\* Promise.all(...).finally: it settles when both parts have come or failed.
Settled(l, ok) == IF \E f \in fetches \ {l} : f.of = l.of THEN loading ELSE FALSE

RowLoaded(l, ok) == IF ok THEN l.of ELSE order

OrderLoaded(l, ok) ==
  /\ l \in fetches /\ l.part = "ORDER"
  /\ order' = RowLoaded(l, ok)
  /\ disturbed' = (disturbed \/ ~ok)
  /\ loading' = Settled(l, ok)
  /\ fetches' = fetches \ {l}
  /\ UNCHANGED <<id, cads, task, stuck, opened>>

CadsLoaded(l, ok) ==
  /\ l \in fetches /\ l.part = "CADS"
  /\ cads' = IF ok THEN l.of ELSE cads
  /\ loading' = Settled(l, ok)
  /\ fetches' = fetches \ {l}
  /\ UNCHANGED <<id, order, task, stuck, opened, disturbed>>

-----------------------------------------------------------------------------
(* Its handlers.  A click needs the order on screen and the handler's flag down. *)

Busy(h) == task[h] # <<>> \/ h \in stuck

Click(h, requests) ==
  /\ ~loading /\ order # None
  /\ ~Busy(h)
  /\ Cardinality({g \in Handlers : task[g] # <<>>}) < MaxPending
  /\ task' = [task EXCEPT ![h] = requests]
  /\ UNCHANGED <<id, order, cads, loading, fetches, stuck, opened, disturbed>>

Ask(what, o) == [what |-> what, of |-> o]

\* moveStatus, reactivateOrder, reactivateClosedProject
MoveStage == Click("MoveStage", <<Ask("ROW", order)>>)

\* The price, then the designs if the row on screen was not sent to the customer.
SaveQuotedPrice(unsent) ==
  Click("SaveQuotedPrice",
        <<Ask("WRITE", order)>>
          \o (IF unsent THEN <<Ask("SEND", order)>> ELSE <<>>)
          \o <<Ask("READ_ORDER", order)>>)

\* saveCustomerPo, sendCadToCustomer
SaveAndReload == Click("SaveAndReload", <<Ask("WRITE", order), Ask("READ_ORDER", order)>>)

\* The fields saved one by one.
SaveField == Click("SaveField", <<Ask("ROW", order)>>)

CorrectStage == Click("CorrectStage", <<Ask("ROW", order), Ask("READ_CADS", order)>>)

UploadFiles ==
  Click("Upload", <<Ask("WRITE", order), Ask("READ_CADS", order), Ask("READ_ORDER", order)>>)

\* handleCadAction: one request for each of the designs on screen that await an
\* answer, then the order of the route.
ReviewDesigns(n) ==
  /\ cads # None
  /\ Click("Review",
           [i \in 1..n |-> Ask("SEND", cads)]
             \o <<Ask("READ_CADS", id), Ask("READ_ORDER", id)>>)

-----------------------------------------------------------------------------
(* The answers *)

\* The row and the files of whichever order the request was about are shown.
Answered(h) ==
  /\ task[h] # <<>>
  /\ LET r == Head(task[h])
         shown == r.what \in {"ROW", "READ_ORDER", "READ_CADS"}
     IN  /\ order' = IF r.what \in {"ROW", "READ_ORDER"} THEN r.of ELSE order
         /\ cads' = IF r.what = "READ_CADS" THEN r.of ELSE cads
         /\ disturbed' = (disturbed \/ (shown /\ r.of # id))
  /\ task' = [task EXCEPT ![h] = Tail(@)]
  /\ UNCHANGED <<id, loading, fetches, stuck, opened>>

\* An error status: the handler stops if it looks at the answer.
Refused(h) ==
  /\ task[h] # <<>>
  /\ task' = [task EXCEPT ![h] = IF Head(@).what \in {"ROW", "WRITE"} THEN <<>> ELSE Tail(@)]
  /\ UNCHANGED <<id, order, cads, loading, fetches, stuck, opened, disturbed>>

\* Bug: no finally anywhere.
StuckWithout(h) == stuck \cup (IF h \in {"SaveField", "CorrectStage", "Upload"} THEN {h} ELSE {})

\* The flag of a handler without finally stays up.
StuckAfter(h) == stuck \cup ({h} \cap Unguarded)

\* No answer: the request throws, out of the handler.
Lost(h) ==
  /\ task[h] # <<>>
  /\ task' = [task EXCEPT ![h] = <<>>]
  /\ stuck' = StuckAfter(h)
  /\ UNCHANGED <<id, order, cads, loading, fetches, opened, disturbed>>

-----------------------------------------------------------------------------

Responds(h) == Answered(h) \/ Refused(h) \/ Lost(h)

Loaded(l) == \E ok \in BOOLEAN : OrderLoaded(l, ok) \/ CadsLoaded(l, ok)

Next ==
  \/ \E o \in Orders : Open(o)
  \/ \E l \in [of : Orders, part : Parts] : Loaded(l)
  \/ MoveStage
  \/ \E unsent \in BOOLEAN : SaveQuotedPrice(unsent)
  \/ SaveAndReload \/ SaveField \/ CorrectStage \/ UploadFiles
  \/ \E n \in 1..MaxDesigns : ReviewDesigns(n)
  \/ \E h \in Handlers : Responds(h)

\* A request is answered, or fails, some time.
Fairness ==
  /\ \A l \in [of : Orders, part : Parts] : WF_vars(Loaded(l))
  /\ \A h \in Handlers : WF_vars(Responds(h))

Spec == Init /\ [][Next]_vars /\ Fairness

-----------------------------------------------------------------------------

\* The page shows the row of one order and the files of another, or an order
\* that is not the one of the route.
Mixed == ~loading /\ order # None /\ (order # id \/ cads \notin {None, id})

\* However its loads overlap when the tab goes from order to order, they alone
\* never mix two orders: that takes an order that does not load, or the answer
\* to a handler that was still waiting when its order was left.
OnlyLateAnswersMix == Mixed => disturbed

\* The page always gets past "Loading", whichever of its loads fail or are aborted.
LoadingEnds == loading ~> ~loading

\* The buttons of the handlers that use try/finally come back whatever happens to
\* their requests, the second and third included.
ButtonsComeBack == \A h \in Handlers \ Unguarded : Busy(h) ~> ~Busy(h)
=============================================================================
