---------------------------- MODULE OrderListPage ----------------------------
(***************************************************************************)
(* One browser tab on the orders list, pages/orders/index.tsx: its status  *)
(* tab and stone sub-filter, its pages, the orders ticked for a bulk       *)
(* action, and the requests that wait for an answer.  No request is        *)
(* aborted or numbered, so answers come in any order; and a handler keeps  *)
(* the filter and the page of the rendering it was clicked in.             *)
(*                                                                         *)
(* What an answer lists is any set of orders: others work on them at the   *)
(* same time.  What a bulk action does to an order is in OrderLifecycle.   *)
(***************************************************************************)
EXTENDS Naturals, Sequences, FiniteSets, SequencesExt

CONSTANTS
  Orders,
  None,
  Tabs,      \* the status tabs that are chosen; "" is the tab All
  MaxPage,   \* bound: the last page there is
  MaxLoads   \* bound: loads of the list that wait at a time

ASSUME ListAssumption ==
  /\ "VPO_ISSUED" \in Tabs
  /\ MaxPage \in Nat /\ MaxLoads \in Nat /\ MaxLoads >= 2

VARIABLES
  role,       \* who is looking
  filter,     \* the status tab and the stone sub-filter
  page,
  loads,      \* the loads that wait, oldest first: the view each asked for
  loading,    \* the page shows a skeleton in place of the rows
  failed,     \* loadError: the page shows it in place of the rows
  rows,       \* the orders that were answered last
  shown,      \* the view they are of
  more,       \* there were more of them than fit on a page
  selectMode,
  selected,   \* the ticked orders
  bulk,       \* the view in which the bulk action that waits was clicked
  saving,     \* the same, of the new order that waits
  newest,     \* history: the load asked for last still waits
  disturbed   \* history: since the page last loaded its own view, a load for
              \* another view was asked for, or an older answer came after a newer

view == <<filter, page>>
requests == <<loads, loading, failed, newest>>
answers == <<rows, shown, more>>
vars == <<role, filter, page, requests, answers, selectMode, selected, bulk, saving, disturbed>>

Roles == {"OFFICE", "FACTORY_MANAGER"}

\* A status tab and a stone sub-filter; the sub-filters belong to the tab VPO_ISSUED.
StoneReceived == <<"VPO_ISSUED", "stone_received">>

Filters == {<<t, "">> : t \in Tabs} \cup {StoneReceived}

Views == Filters \X (0..MaxPage)

TypeOK ==
  /\ role \in Roles
  /\ filter \in Filters /\ page \in 0..MaxPage
  /\ loads \in Seq(Views) /\ Len(loads) <= MaxLoads
  /\ loading \in BOOLEAN /\ failed \in BOOLEAN
  /\ rows \subseteq Orders /\ selected \subseteq Orders
  /\ shown \in Views \cup {None} /\ more \in BOOLEAN
  /\ selectMode \in BOOLEAN
  /\ bulk \in Views \cup {None} /\ saving \in Views \cup {None}
  /\ newest \in BOOLEAN /\ disturbed \in BOOLEAN

\* What was remembered of the last visit: the page may not exist any more, and a
\* link's ?status= replaces the tab and not the page.
Init ==
  /\ role \in Roles
  /\ filter \in Filters /\ page \in 0..MaxPage
  /\ loads = <<view>> /\ loading = TRUE /\ failed = FALSE
  /\ rows = {} /\ shown = None /\ more = FALSE
  /\ selectMode = FALSE /\ selected = {}
  /\ bulk = None /\ saving = None
  /\ newest = TRUE /\ disturbed = FALSE

-----------------------------------------------------------------------------
(* load *)

\* The loads vs are asked for, in this order; the last is for `now` or is not.
Asking(vs, now) ==
  /\ Len(loads) + Len(vs) <= MaxLoads
  /\ loads' = loads \o vs
  /\ loading' = TRUE /\ failed' = FALSE /\ newest' = TRUE
  /\ disturbed' = (Last(vs) # now)

\* Bug: what was ticked stays ticked while other rows load.
SelectionKept == selected

SelectionAtLoad == {}

Load(vs, now) == Asking(vs, now) /\ selected' = SelectionAtLoad

Answered(i) ==
  /\ loads' = RemoveAt(loads, i)
  /\ newest' = (newest /\ i # Len(loads))
  /\ disturbed' = (disturbed \/ ~newest)
  /\ UNCHANGED <<role, filter, page, selectMode, selected, bulk, saving>>

\* An error that a newer load has cleared may be put back by an older one, and a
\* good answer does not clear it.
Loaded(i) ==
  /\ rows' \in SUBSET Orders /\ shown' = loads[i] /\ more' \in BOOLEAN
  /\ loading' = FALSE
  /\ UNCHANGED failed
  /\ Answered(i)

\* Bug: a failure leaves the skeleton.
LoadingAfterFailure == loading

AfterFailure == FALSE

\* An error status, or no answer.
LoadFailed(i) ==
  /\ rows' = {} /\ shown' = loads[i] /\ more' = FALSE
  /\ failed' = TRUE
  /\ loading' = AfterFailure
  /\ Answered(i)

-----------------------------------------------------------------------------
(* Tabs, sub-filters and pages *)

\* Bug: the list is not loaded again when only the sub-filter changes.
ReloadedTabs(f) ==
  IF f[1] = filter[1] THEN <<>> ELSE <<<<f, 0>>>> \o (IF page = 0 THEN <<>> ELSE <<<<f, 0>>>>)

\* The effect on the filters loads the first page, and so does the effect on the
\* page when it was another.
Reloaded(f) == <<<<f, 0>>>> \o (IF page = 0 THEN <<>> ELSE <<<<f, 0>>>>)

\* The filters are set to f, after the loads a handler has asked for itself.
SetFilter(f, asked) ==
  LET vs == asked \o (IF f = filter THEN <<>> ELSE Reloaded(f))
      now == IF f = filter THEN view ELSE <<f, 0>>
  IN  /\ filter' = f
      /\ page' = now[2]
      /\ IF vs = <<>> THEN UNCHANGED <<requests, selected, disturbed>> ELSE Load(vs, now)

\* A status tab, a saved preset, or a link to ?status=.
ChooseFilter(f) ==
  /\ f # filter
  /\ SetFilter(f, <<>>)
  /\ UNCHANGED <<role, answers, selectMode, bulk, saving>>

Listing == ~loading /\ ~failed

Pages == 0..MaxPage

\* The page numbers are only there when the rows do not fit on one.
TurnPage(p) ==
  /\ Listing /\ rows # {} /\ more
  /\ p # page
  /\ page' = p
  /\ Load(<<<<filter, p>>>>, <<filter, p>>)
  /\ UNCHANGED <<role, filter, answers, selectMode, bulk, saving>>

Retry ==
  /\ ~loading /\ failed
  /\ Load(<<view>>, view)
  /\ UNCHANGED <<role, filter, page, answers, selectMode, bulk, saving>>

-----------------------------------------------------------------------------
(* Bulk actions *)

\* A Factory Manager selects among the orders whose stone has come.
EnterSelectMode ==
  /\ ~selectMode
  /\ selectMode' = TRUE
  /\ IF role = "FACTORY_MANAGER" /\ filter # StoneReceived
     THEN SetFilter(StoneReceived, <<>>)
     ELSE selected' = {} /\ UNCHANGED <<filter, page, requests, disturbed>>
  /\ UNCHANGED <<role, answers, bulk, saving>>

Unfiltered == <<filter[1], "">>

\* exitSelectMode, then the loads its caller asks for.
LeaveSelectMode(asked) ==
  /\ selectMode' = FALSE
  /\ IF asked = <<>> /\ Unfiltered = filter
     THEN selected' = {} /\ UNCHANGED <<filter, page, requests, disturbed>>
     ELSE SetFilter(Unfiltered, asked)

Dismiss ==
  /\ selectMode
  /\ LeaveSelectMode(<<>>)
  /\ UNCHANGED <<role, answers, bulk, saving>>

Tick(o) ==
  /\ Listing /\ selectMode /\ o \in rows
  /\ selected' = IF o \in selected THEN selected \ {o} ELSE selected \cup {o}
  /\ UNCHANGED <<role, filter, page, requests, answers, selectMode, bulk, saving, disturbed>>

\* Cancel, delete, reassign, move, mark as manufactured: one flag, and the bar that
\* offers them is there while anything is ticked.
BulkAction ==
  /\ selectMode /\ selected # {}
  /\ bulk = None
  /\ bulk' = view
  /\ UNCHANGED <<role, filter, page, requests, answers, selectMode, selected, saving, disturbed>>

\* At least one order went through: the list is loaded as it was at the click.
BulkDone ==
  /\ bulk # None
  /\ LeaveSelectMode(<<bulk>>)
  /\ bulk' = None
  /\ UNCHANGED <<role, answers, saving>>

\* Refused, or failed for every order, or no answer.
BulkFailed ==
  /\ bulk # None
  /\ bulk' = None
  /\ UNCHANGED <<role, filter, page, requests, answers, selectMode, selected, saving, disturbed>>

\* createOrder; its form hides the page, and can be closed while it is saved.
CreateOrder ==
  /\ saving = None
  /\ saving' = <<filter, 0>>
  /\ UNCHANGED <<role, filter, page, requests, answers, selectMode, selected, bulk, disturbed>>

\* load() is for the first page, whichever page is on screen.
OrderCreated ==
  /\ saving # None
  /\ Load(<<saving>>, view)
  /\ saving' = None
  /\ UNCHANGED <<role, filter, page, answers, selectMode, bulk>>

CreationFailed ==
  /\ saving # None
  /\ saving' = None
  /\ UNCHANGED <<role, filter, page, requests, answers, selectMode, selected, bulk, disturbed>>

-----------------------------------------------------------------------------

Answers == \E i \in 1..MaxLoads : i <= Len(loads) /\ (Loaded(i) \/ LoadFailed(i))

BulkAnswers == BulkDone \/ BulkFailed

Next ==
  \/ Answers \/ BulkAnswers \/ OrderCreated \/ CreationFailed
  \/ \E f \in Filters : ChooseFilter(f)
  \/ \E p \in Pages : TurnPage(p)
  \/ Retry
  \/ EnterSelectMode \/ Dismiss
  \/ \E o \in Orders : Tick(o)
  \/ BulkAction \/ CreateOrder

\* A request is answered, or fails, some time.
Spec == Init /\ [][Next]_vars /\ WF_vars(Answers) /\ WF_vars(BulkAnswers)

-----------------------------------------------------------------------------
(* What holds *)

\* With no load on its way the rows are those of the tab and the page on screen,
\* whatever was clicked while others were loading: except after an answer that was
\* overtaken, or the load of a handler that was clicked in another view.
RowsFollowView == ~loading /\ loads = <<>> /\ ~disturbed => shown = view

OffScreen == Listing /\ ~(selected \subseteq rows)

\* The bulk bar offers to cancel or delete orders that are not on screen only if
\* rows were replaced while the page was not loading: by a second answer.
OnlySecondAnswersHideTicks ==
  [][OffScreen' => OffScreen \/ (~loading /\ Len(loads') < Len(loads))]_vars

\* However many loads overlap and whichever fail, the rows or an error come back.
LoadingEnds == loading ~> ~loading

-----------------------------------------------------------------------------
(* What the comments say and the page does not keep *)

\* load: a list that does not match its tab never stays on screen unsaid.
MismatchIsSaid == ~loading /\ loads = <<>> /\ ~failed => shown = view

\* With nothing to show on a page that is not the first there are no page numbers,
\* and choosing the same tab again does nothing.
EmptyPageHasAWayBack == Listing /\ loads = <<>> /\ rows = {} /\ page > 0 => more
=============================================================================
