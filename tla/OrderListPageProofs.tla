------------------------- MODULE OrderListPageProofs -------------------------
(***************************************************************************)
(* Proofs about OrderListPage, for any set of orders and tabs, any number  *)
(* of pages and any number of loads that wait.                             *)
(***************************************************************************)
EXTENDS OrderListPage, SequenceTheorems, TLAPS

-----------------------------------------------------------------------------
(* Sequences of loads *)

\* What is left when one load is answered.
LEMMA RemoveAtProperties ==
  ASSUME NEW S, NEW s \in Seq(S), NEW i \in 1..Len(s)
  PROVE  /\ RemoveAt(s, i) \in Seq(S)
         /\ Len(RemoveAt(s, i)) = Len(s) - 1
         /\ i # Len(s) => RemoveAt(s, i)[Len(s) - 1] = s[Len(s)]
<1> DEFINE a == SubSeq(s, 1, i - 1)
           b == SubSeq(s, i + 1, Len(s))
<1>0. Len(s) \in Nat
  BY LenProperties
<1>1. a \in Seq(S) /\ Len(a) = i - 1
  <2>1. \A j \in 1..i - 1 : s[j] \in S
    BY <1>0, ElementOfSeq
  <2> QED
    BY <1>0, <2>1, SubSeqProperties
<1>2. b \in Seq(S) /\ Len(b) = Len(s) - i /\ (i # Len(s) => b[Len(s) - i] = s[Len(s)])
  <2>1. \A j \in i + 1..Len(s) : s[j] \in S
    BY <1>0, ElementOfSeq
  <2> QED
    BY <1>0, <2>1, SubSeqProperties
<1>5. RemoveAt(s, i) = a \o b
  BY DEF RemoveAt
<1> HIDE DEF a, b
<1>3. a \o b \in Seq(S) /\ Len(a \o b) = Len(s) - 1
  <2>1. a \o b \in Seq(S) /\ Len(a \o b) = Len(a) + Len(b)
    BY <1>1, <1>2, ConcatProperties
  <2> QED
    BY <1>0, <1>1, <1>2, <2>1
<1>4. ASSUME i # Len(s)
      PROVE  (a \o b)[Len(s) - 1] = s[Len(s)]
  <2>1. Len(s) - 1 \in 1..Len(a) + Len(b) /\ Len(s) - 1 > Len(a)
    BY <1>0, <1>1, <1>2, <1>4
  <2>2. (a \o b)[Len(s) - 1] = b[Len(s) - 1 - Len(a)]
    BY <1>1, <1>2, <2>1, ConcatProperties
  <2>3. Len(s) - 1 - Len(a) = Len(s) - i
    BY <1>0, <1>1
  <2> QED
    BY <1>2, <1>4, <2>2, <2>3
<1> QED
  BY <1>3, <1>4, <1>5

\* What is there when more loads are asked for.
LEMMA AppendedLoads ==
  ASSUME NEW S, NEW s \in Seq(S), NEW t \in Seq(S), t # <<>>
  PROVE  /\ s \o t \in Seq(S)
         /\ s \o t # <<>>
         /\ Len(s \o t) = Len(s) + Len(t)
         /\ (s \o t)[Len(s \o t)] = Last(t)
         /\ Last(t) \in S
<1>1. Len(s) \in Nat /\ Len(t) \in Nat \ {0}
  BY LenProperties, EmptySeq
<1>2. s \o t \in Seq(S) /\ Len(s \o t) = Len(s) + Len(t)
  BY ConcatProperties
<1>3. (s \o t)[Len(s \o t)] = t[Len(t)]
  <2>1. Len(s) + Len(t) \in 1..Len(s) + Len(t) /\ Len(s) + Len(t) > Len(s)
    BY <1>1
  <2>2. (s \o t)[Len(s) + Len(t)] = t[Len(s) + Len(t) - Len(s)]
    BY <2>1, ConcatProperties
  <2> QED
    BY <1>1, <1>2, <2>2
<1>4. t[Len(t)] \in S
  BY <1>1, ElementOfSeq
<1>5. s \o t # <<>>
  BY <1>1, <1>2, EmptySeq
<1> QED
  BY <1>2, <1>3, <1>4, <1>5 DEF Last

-----------------------------------------------------------------------------
(* The strengthening *)

\* With the newest load on its way, that load is for the view on screen; after it was
\* answered the rows are of that view.
NewestFollowsView ==
  ~disturbed => IF newest THEN loads # <<>> /\ Last(loads) = view ELSE shown = view

\* Nothing is ticked while the page shows its skeleton.
NothingTicked == loading => selected = {}

IInv == TypeOK /\ NewestFollowsView /\ NothingTicked

\* Orders that are not on screen become ticked by a second answer only.
TicksStep == OffScreen' => OffScreen \/ (~loading /\ Len(loads') < Len(loads))

-----------------------------------------------------------------------------
(* What the helpers do *)

\* The view, the filters of the buttons and their first pages are views and filters.
LEMMA ViewType ==
  ASSUME TypeOK
  PROVE  /\ view \in Views /\ StoneReceived \in Filters
         /\ Unfiltered \in Filters
         /\ \A f \in Filters : <<f, 0>> \in Views
<1>1. StoneReceived \in Filters
  BY DEF Filters
<1>2. Unfiltered \in Filters
  <2>1. filter \in Filters
    BY DEF TypeOK
  <2>2. CASE \E t \in Tabs : filter = <<t, "">>
    <3>1. PICK t \in Tabs : filter = <<t, "">>
      BY <2>2
    <3>2. Unfiltered = <<t, "">>
      BY <3>1 DEF Unfiltered
    <3> QED
      BY <3>2 DEF Filters
  <2>3. CASE filter = StoneReceived
    BY <2>3, ListAssumption DEF Filters, StoneReceived, Unfiltered
  <2> QED
    BY <2>1, <2>2, <2>3 DEF Filters
<1>3. 0 \in 0..MaxPage
  BY ListAssumption
<1> QED
  BY <1>1, <1>2, <1>3 DEF TypeOK, Views, view

\* One load is a list of loads.
LEMMA OneLoad ==
  ASSUME NEW v \in Views
  PROVE  <<v>> \in Seq(Views) /\ <<v>> # <<>> /\ Last(<<v>>) = v
BY DEF Last

\* Loads are asked for, for the view that the step leads to.
LEMMA LoadKeeps ==
  ASSUME TypeOK, NEW vs \in Seq(Views), vs # <<>>, Load(vs, view'), UNCHANGED shown
  PROVE  /\ loads' \in Seq(Views) /\ Len(loads') <= MaxLoads
         /\ loading' = TRUE /\ failed' = FALSE /\ newest' = TRUE
         /\ disturbed' \in BOOLEAN /\ selected' = {}
         /\ NewestFollowsView' /\ NothingTicked'
<1>1. loads \in Seq(Views) /\ loads' = loads \o vs /\ Len(loads) + Len(vs) <= MaxLoads
      /\ loading' = TRUE /\ failed' = FALSE /\ newest' = TRUE
      /\ disturbed' = (Last(vs) # view') /\ selected' = {}
  BY DEF TypeOK, Load, Asking, SelectionAtLoad
<1>2. loads' \in Seq(Views) /\ Len(loads') <= MaxLoads /\ loads' # <<>> /\ Last(loads') = Last(vs)
  BY <1>1, AppendedLoads DEF Last
<1> QED
  BY <1>1, <1>2 DEF NewestFollowsView, NothingTicked

\* A reload adds to the loads that were asked for.
LEMMA ReloadedLoads ==
  ASSUME TypeOK, NEW f \in Filters, NEW asked \in Seq(Views)
  PROVE  asked \o Reloaded(f) \in Seq(Views) /\ asked \o Reloaded(f) # <<>>
<1> DEFINE v == <<f, 0>>
<1>1. v \in Views
  BY ViewType
<1> HIDE DEF v
<1>2. <<v>> \in Seq(Views) /\ <<>> \in Seq(Views) /\ <<v>> # <<>>
  BY <1>1
<1>3. <<v>> \o <<>> \in Seq(Views) /\ <<v>> \o <<>> # <<>>
      /\ <<v>> \o <<v>> \in Seq(Views) /\ <<v>> \o <<v>> # <<>>
  BY <1>2
<1>4. Reloaded(f) = <<v>> \o (IF page = 0 THEN <<>> ELSE <<v>>)
  BY DEF Reloaded, v
<1>5. Reloaded(f) \in Seq(Views) /\ Reloaded(f) # <<>>
  BY <1>3, <1>4
<1> QED
  BY <1>5, AppendedLoads

\* The filters are set: either nothing happens, or the view they lead to is loaded.
LEMMA SetFilterLoads ==
  ASSUME TypeOK, NEW f \in Filters, NEW asked \in Seq(Views), SetFilter(f, asked)
  PROVE  /\ view' \in Views /\ filter' \in Filters /\ page' \in 0..MaxPage
         /\ \/ \E vs \in Seq(Views) : vs # <<>> /\ Load(vs, view')
            \/ UNCHANGED <<view, requests, selected, disturbed>>
<1>1. view \in Views /\ <<f, 0>> \in Views /\ view[2] = page
  BY ViewType DEF view
<1>2. CASE f = filter
  <2>1. filter' = filter /\ page' = page /\ view' = view
    BY <1>1, <1>2 DEF SetFilter, view
  <2>2. asked \o <<>> = asked
    BY ConcatEmptySeq
  <2>3. CASE asked = <<>>
    BY <1>1, <1>2, <2>1, <2>2, <2>3 DEF SetFilter, TypeOK
  <2>4. CASE asked # <<>>
    BY <1>1, <1>2, <2>1, <2>2, <2>4 DEF SetFilter, TypeOK
  <2> QED
    BY <2>3, <2>4
<1>3. CASE f # filter
  <2>1. asked \o Reloaded(f) \in Seq(Views) /\ asked \o Reloaded(f) # <<>>
    BY ReloadedLoads
  <2>2. filter' = f /\ page' = 0 /\ view' = <<f, 0>>
    BY <1>3 DEF SetFilter, view
  <2>3. Load(asked \o Reloaded(f), <<f, 0>>)
    BY <1>3, <2>1 DEF SetFilter
  <2>4. 0 \in 0..MaxPage
    BY ListAssumption
  <2> QED
    BY <1>1, <2>1, <2>2, <2>3, <2>4
<1> QED
  BY <1>2, <1>3

-----------------------------------------------------------------------------
(* One step *)

\* A step that loads, or leaves alone, what the invariant relates.
LEMMA QuietStep ==
  ASSUME IInv,
         role' = role, filter' \in Filters, page' \in 0..MaxPage,
         UNCHANGED answers,
         selectMode' \in BOOLEAN, bulk' \in Views \cup {None}, saving' \in Views \cup {None},
         \/ \E vs \in Seq(Views) : vs # <<>> /\ Load(vs, view')
         \/ UNCHANGED <<view, requests, disturbed>>
            /\ (selected' = selected \/ selected' = {} \/ (~loading /\ selected' \subseteq selected \cup rows))
  PROVE  IInv' /\ TicksStep
<1>1. CASE \E vs \in Seq(Views) : vs # <<>> /\ Load(vs, view')
  <2>1. PICK vs \in Seq(Views) : vs # <<>> /\ Load(vs, view')
    BY <1>1
  <2>2. shown' = shown
    BY DEF answers
  <2>3. /\ loads' \in Seq(Views) /\ Len(loads') <= MaxLoads
        /\ loading' = TRUE /\ failed' = FALSE /\ newest' = TRUE
        /\ disturbed' \in BOOLEAN /\ selected' = {}
        /\ NewestFollowsView' /\ NothingTicked'
    BY <2>1, <2>2, LoadKeeps DEF IInv
  <2>4. IInv'
    BY <2>3 DEF IInv, TypeOK, answers
  <2> QED
    BY <2>3, <2>4 DEF TicksStep, OffScreen, Listing
<1>2. CASE UNCHANGED <<view, requests, disturbed>>
            /\ (selected' = selected \/ selected' = {} \/ (~loading /\ selected' \subseteq selected \cup rows))
  <2>1. IInv'
    BY <1>2 DEF IInv, TypeOK, answers, requests, NewestFollowsView, NothingTicked
  <2>2. UNCHANGED <<loading, failed, rows>> /\ selected' \subseteq selected \cup rows
    BY <1>2 DEF answers, requests
  <2> QED
    BY <2>1, <2>2 DEF TicksStep, OffScreen, Listing
<1> QED
  BY <1>1, <1>2

\* Leaving the select mode asks for loads, or lets the ticks be or clears them.
LEMMA LeaveSelectModeLoads ==
  ASSUME TypeOK, NEW asked \in Seq(Views), LeaveSelectMode(asked)
  PROVE  /\ view' \in Views /\ filter' \in Filters /\ page' \in 0..MaxPage
         /\ selectMode' = FALSE
         /\ \/ \E vs \in Seq(Views) : vs # <<>> /\ Load(vs, view')
            \/ UNCHANGED <<view, requests, disturbed>> /\ (selected' = selected \/ selected' = {})
<1>1. view \in Views /\ Unfiltered \in Filters
  BY ViewType
<1>2. CASE asked = <<>> /\ Unfiltered = filter
  BY <1>1, <1>2 DEF LeaveSelectMode, TypeOK, view
<1>3. CASE ~(asked = <<>> /\ Unfiltered = filter)
  <2>1. SetFilter(Unfiltered, asked) /\ selectMode' = FALSE
    BY <1>3 DEF LeaveSelectMode
  <2> QED
    BY <1>1, <2>1, SetFilterLoads
<1> QED
  BY <1>2, <1>3

\* An answer shows the rows of the view that its load asked for.
LEMMA AnswerKeeps ==
  ASSUME IInv, NEW i \in 1..MaxLoads, i <= Len(loads), Loaded(i) \/ LoadFailed(i)
  PROVE  IInv' /\ TicksStep
<1>1. i \in 1..Len(loads) /\ loads \in Seq(Views) /\ Len(loads) \in Nat /\ Len(loads) <= MaxLoads
  BY ListAssumption, LenProperties DEF IInv, TypeOK
<1>2. /\ loads' = RemoveAt(loads, i) /\ shown' = loads[i] /\ loading' = FALSE
      /\ newest' = (newest /\ i # Len(loads)) /\ disturbed' = (disturbed \/ ~newest)
      /\ UNCHANGED <<role, filter, page, selectMode, selected, bulk, saving>>
  BY DEF Loaded, LoadFailed, Answered, AfterFailure
<1>3. rows' \subseteq Orders /\ more' \in BOOLEAN /\ failed' \in BOOLEAN
  BY DEF Loaded, LoadFailed, IInv, TypeOK
<1>4. /\ loads' \in Seq(Views) /\ Len(loads') = Len(loads) - 1
      /\ i # Len(loads) => loads'[Len(loads) - 1] = loads[Len(loads)]
  BY <1>1, <1>2, RemoveAtProperties
<1>5. loads[i] \in Views
  BY <1>1, ElementOfSeq
<1>6. newest' \in BOOLEAN /\ disturbed' \in BOOLEAN
  BY <1>2
<1>7. MaxLoads \in Nat
  BY ListAssumption
<1>8. TypeOK'
  <2>1. Len(loads') <= MaxLoads
    BY <1>1, <1>4, <1>7
  <2> QED
    BY <1>2, <1>3, <1>4, <1>5, <1>6, <2>1 DEF IInv, TypeOK
<1>9. NewestFollowsView'
  <2> SUFFICES ASSUME ~disturbed'
               PROVE  IF newest' THEN loads' # <<>> /\ Last(loads') = view' ELSE shown' = view'
    BY DEF NewestFollowsView
  <2>1. newest /\ Last(loads) = view /\ view' = view
    BY <1>2 DEF IInv, NewestFollowsView, view
  <2>2. CASE i = Len(loads)
    BY <1>2, <2>1, <2>2 DEF Last
  <2>3. CASE i # Len(loads)
    <3>1. Len(loads') # 0
      BY <1>1, <1>4, <2>3
    <3>2. loads' # <<>>
      BY <1>4, <3>1, EmptySeq
    <3> QED
      BY <1>2, <1>4, <2>1, <2>3, <3>2 DEF Last
  <2> QED
    BY <2>2, <2>3
<1>10. NothingTicked'
  BY <1>2 DEF NothingTicked
<1>11. TicksStep
  <2>1. CASE loading
    <3>1. selected' = {}
      BY <1>2, <2>1 DEF IInv, NothingTicked
    <3> QED
      BY <3>1 DEF TicksStep, OffScreen
  <2>2. CASE ~loading
    BY <1>1, <1>4, <2>2 DEF TicksStep
  <2> QED
    BY <2>1, <2>2
<1> QED
  BY <1>8, <1>9, <1>10, <1>11 DEF IInv

\* Every step keeps the invariant, and ticks as it should.
LEMMA StepKeeps ==
  ASSUME IInv, [Next]_vars
  PROVE  IInv' /\ TicksStep
<1>0. /\ TypeOK /\ view \in Views /\ StoneReceived \in Filters /\ Unfiltered \in Filters
      /\ \A f \in Filters : <<f, 0>> \in Views
      /\ filter \in Filters /\ page \in 0..MaxPage /\ view = <<filter, page>>
      /\ selectMode \in BOOLEAN /\ bulk \in Views \cup {None} /\ saving \in Views \cup {None}
  BY ViewType DEF IInv, TypeOK, view
<1>1. CASE UNCHANGED vars
  <2>1. UNCHANGED <<view, requests, disturbed, answers, role, filter, page, selectMode, selected, bulk, saving>>
    BY <1>1 DEF vars, view
  <2> QED
    BY <1>0, <2>1, QuietStep
<1>2. CASE Answers
  BY <1>2, AnswerKeeps DEF Answers
<1>3. CASE BulkDone
  <2>1. <<bulk>> \in Seq(Views)
    BY <1>0, <1>3, OneLoad DEF BulkDone
  <2>2. LeaveSelectMode(<<bulk>>) /\ bulk' = None /\ UNCHANGED <<role, answers, saving>>
    BY <1>3 DEF BulkDone
  <2> QED
    BY <1>0, <2>1, <2>2, LeaveSelectModeLoads, QuietStep
<1>4. CASE BulkFailed \/ CreationFailed
  BY <1>0, <1>4, QuietStep DEF BulkFailed, CreationFailed, view
<1>5. CASE OrderCreated
  <2>1. <<saving>> \in Seq(Views) /\ <<saving>> # <<>>
    BY <1>0, <1>5, OneLoad DEF OrderCreated
  <2>2. view' = view /\ Load(<<saving>>, view')
    BY <1>5 DEF OrderCreated, view
  <2> QED
    BY <1>0, <1>5, <2>1, <2>2, QuietStep DEF OrderCreated
<1>6. ASSUME NEW f \in Filters, ChooseFilter(f)
      PROVE  IInv' /\ TicksStep
  <2>1. <<>> \in Seq(Views)
    BY EmptySeq
  <2>2. SetFilter(f, <<>>) /\ UNCHANGED <<role, answers, selectMode, bulk, saving>>
    BY <1>6 DEF ChooseFilter
  <2> QED
    BY <1>0, <2>1, <2>2, SetFilterLoads, QuietStep
<1>7. ASSUME NEW p \in Pages, TurnPage(p)
      PROVE  IInv' /\ TicksStep
  <2>1. view' = <<filter, p>> /\ view' \in Views /\ page' = p /\ p \in 0..MaxPage
    BY <1>0, <1>7 DEF TurnPage, view, Pages, Views
  <2>2. <<view'>> \in Seq(Views) /\ <<view'>> # <<>> /\ Load(<<view'>>, view')
    BY <1>7, <2>1, OneLoad DEF TurnPage
  <2> QED
    BY <1>0, <1>7, <2>1, <2>2, QuietStep DEF TurnPage
<1>8. CASE Retry
  <2>1. view' = view
    BY <1>8 DEF Retry, view
  <2>2. <<view>> \in Seq(Views) /\ <<view>> # <<>> /\ Load(<<view>>, view')
    BY <1>0, <1>8, <2>1, OneLoad DEF Retry
  <2> QED
    BY <1>0, <1>8, <2>1, <2>2, QuietStep DEF Retry
<1>9. CASE EnterSelectMode
  <2>1. <<>> \in Seq(Views)
    BY EmptySeq
  <2>2. CASE SetFilter(StoneReceived, <<>>)
    BY <1>0, <1>9, <2>1, <2>2, SetFilterLoads, QuietStep DEF EnterSelectMode
  <2>3. CASE selected' = {} /\ UNCHANGED <<filter, page, requests, disturbed>>
    BY <1>0, <1>9, <2>3, QuietStep DEF EnterSelectMode, view
  <2> QED
    BY <1>9, <2>2, <2>3 DEF EnterSelectMode
<1>10. CASE Dismiss
  <2>1. <<>> \in Seq(Views)
    BY EmptySeq
  <2>2. LeaveSelectMode(<<>>) /\ UNCHANGED <<role, answers, bulk, saving>>
    BY <1>10 DEF Dismiss
  <2> QED
    BY <1>0, <2>1, <2>2, LeaveSelectModeLoads, QuietStep
<1>11. ASSUME NEW o \in Orders, Tick(o)
       PROVE  IInv' /\ TicksStep
  <2>1. ~loading /\ selected' \subseteq selected \cup rows
    BY <1>11 DEF Tick, Listing
  <2> QED
    BY <1>0, <1>11, <2>1, QuietStep DEF Tick, view
<1>12. CASE BulkAction
  BY <1>0, <1>12, QuietStep DEF BulkAction, view
<1>13. CASE CreateOrder
  BY <1>0, <1>13, QuietStep DEF CreateOrder, view
<1> QED
  BY <1>1, <1>2, <1>3, <1>4, <1>5, <1>6, <1>7, <1>8, <1>9, <1>10, <1>11, <1>12, <1>13
  DEF Next, BulkAnswers

\* It holds when the page opens.
LEMMA InitHolds ==
  ASSUME Init
  PROVE  IInv
<1>1. view \in Views /\ <<view>> \in Seq(Views) /\ <<view>> # <<>> /\ Last(<<view>>) = view
  <2>1. view \in Views
    BY DEF Init, Views, view
  <2> QED
    BY <2>1, OneLoad
<1>2. Len(<<view>>) <= MaxLoads
  BY ListAssumption
<1> QED
  BY <1>1, <1>2 DEF Init, IInv, TypeOK, NewestFollowsView, NothingTicked

-----------------------------------------------------------------------------
(* The theorems *)

\* The invariant holds in every state.
THEOREM Inductive == Spec => []IInv
<1>1. Init => IInv
  BY InitHolds
<1>2. IInv /\ [Next]_vars => IInv'
  BY StepKeeps
<1> QED
  BY <1>1, <1>2, PTL DEF Spec

\* With no load on its way, the rows are those of the tab and the page on screen:
\* for any number of loads that overlap.
THEOREM RowsSafe == Spec => []RowsFollowView
<1>1. IInv => RowsFollowView
  BY DEF IInv, NewestFollowsView, RowsFollowView
<1> QED
  BY <1>1, Inductive, PTL

\* Orders that are not on screen are ticked only after a second answer.
THEOREM TicksSafe == Spec => OnlySecondAnswersHideTicks
<1>1. IInv /\ [Next]_vars => [TicksStep]_vars
  BY StepKeeps
<1> QED
  BY <1>1, Inductive, PTL DEF Spec, OnlySecondAnswersHideTicks, TicksStep

=============================================================================
