--------------------------- MODULE OrderPageProofs ---------------------------
(***************************************************************************)
(* Proofs about OrderPage, for any set of orders and any bounds.           *)
(***************************************************************************)
EXTENDS OrderPage, SequenceTheorems, TLAPS

-----------------------------------------------------------------------------
(* The strengthening *)

\* The loads that wait are those of the order on the route, and the page says that it
\* loads as long as there are any.
LoadsAreWanted ==
  /\ fetches \subseteq Loads(id)
  /\ fetches # {} => loading

\* Undisturbed, the row on screen is that of the route or is on its way, and so are
\* the files.
UndisturbedFollowsRoute ==
  ~disturbed =>
    /\ order = id \/ [of |-> id, part |-> "ORDER"] \in fetches
    /\ cads \in {None, id}

IInv == TypeOK /\ LoadsAreWanted /\ UndisturbedFollowsRoute

-----------------------------------------------------------------------------
(* Opening and loading *)

\* What the page of an order loads.
LEMMA LoadsOf ==
  ASSUME NEW o \in Orders
  PROVE  /\ Loads(o) = {[of |-> o, part |-> "ORDER"], [of |-> o, part |-> "CADS"]}
         /\ Loads(o) \subseteq [of : Orders, part : Parts]
BY DEF Loads, Parts

\* The invariant holds before an order is opened,
LEMMA InitHolds ==
  ASSUME Init
  PROVE  IInv
<1>1. id \in Orders
  BY DEF Init
<1>2. [h \in Handlers |-> <<>>] \in [Handlers -> Seq(Requests)]
  BY EmptySeq
<1>3. 1 \in 0..MaxOpened
  BY PageAssumption
<1> QED
  BY <1>1, <1>2, <1>3, LoadsOf, PageAssumption
  DEF Init, IInv, TypeOK, LoadsAreWanted, UndisturbedFollowsRoute

\* when one is opened,
LEMMA OpenKeeps ==
  ASSUME IInv, NEW o \in Orders, Open(o)
  PROVE  IInv'
<1>1. fetches' = Loads(o) /\ id' = o /\ cads' = None /\ loading' = TRUE /\ disturbed' = FALSE
      /\ opened' = opened + 1 /\ UNCHANGED <<order, task, stuck>>
  BY DEF Open, StillWanted
<1>2. opened' \in 0..MaxOpened
  BY PageAssumption DEF Open, IInv, TypeOK
<1> QED
  BY <1>1, <1>2, LoadsOf DEF IInv, TypeOK, LoadsAreWanted, UndisturbedFollowsRoute

\* when something that was loaded arrives or fails to,
LEMMA LoadedKeeps ==
  ASSUME IInv, NEW l \in [of : Orders, part : Parts], NEW ok \in BOOLEAN,
         OrderLoaded(l, ok) \/ CadsLoaded(l, ok)
  PROVE  IInv'
<1>1. /\ l \in fetches /\ fetches \subseteq Loads(id) /\ id \in Orders /\ l.of = id
      /\ fetches' = fetches \ {l} /\ loading' = Settled(l, ok)
      /\ UNCHANGED <<id, task, stuck, opened>>
  BY LoadsOf DEF OrderLoaded, CadsLoaded, IInv, TypeOK, LoadsAreWanted
<1>2. LoadsAreWanted' /\ loading' \in BOOLEAN
  <2>1. loading = TRUE
    BY <1>1 DEF IInv, LoadsAreWanted
  <2>2. fetches' \subseteq Loads(id')
    BY <1>1
  <2>3. \A f \in fetches' : f.of = l.of
    BY <1>1, LoadsOf
  <2>4. fetches' # {} => loading' = loading
    BY <1>1, <2>3 DEF Settled
  <2>5. loading' \in BOOLEAN
    BY <1>1, <2>1 DEF Settled
  <2> QED
    BY <2>1, <2>2, <2>4, <2>5 DEF LoadsAreWanted
<1>3. CASE OrderLoaded(l, ok)
  <2>1. /\ order' = RowLoaded(l, ok) /\ disturbed' = (disturbed \/ ~ok) /\ UNCHANGED cads
        /\ l.part = "ORDER"
    BY <1>3 DEF OrderLoaded
  <2>2. disturbed' \in BOOLEAN /\ order' \in Orders \cup {None}
    BY <1>1, <2>1 DEF IInv, TypeOK, RowLoaded
  <2>3. UndisturbedFollowsRoute'
    BY <1>1, <2>1 DEF IInv, UndisturbedFollowsRoute, RowLoaded
  <2> QED
    BY <1>1, <1>2, <2>1, <2>2, <2>3 DEF IInv, TypeOK
<1>4. CASE CadsLoaded(l, ok)
  <2>1. /\ cads' = (IF ok THEN l.of ELSE cads) /\ UNCHANGED <<order, disturbed>>
        /\ l.part = "CADS"
    BY <1>4 DEF CadsLoaded
  <2>2. cads' \in Orders \cup {None}
    BY <1>1, <2>1 DEF IInv, TypeOK
  <2>3. UndisturbedFollowsRoute'
    BY <1>1, <2>1 DEF IInv, UndisturbedFollowsRoute
  <2> QED
    BY <1>1, <1>2, <2>1, <2>2, <2>3 DEF IInv, TypeOK
<1> QED
  BY <1>3, <1>4

-----------------------------------------------------------------------------
(* Handlers *)

\* when a button is pressed,
LEMMA ClickKeeps ==
  ASSUME IInv, NEW h \in Handlers, NEW requests \in Seq(Requests), Click(h, requests)
  PROVE  IInv'
<1>1. task' \in [Handlers -> Seq(Requests)]
  BY DEF Click, IInv, TypeOK
<1> QED
  BY <1>1 DEF Click, IInv, TypeOK, LoadsAreWanted, UndisturbedFollowsRoute

\* What the page asks about an order is a request.
LEMMA Asked ==
  ASSUME NEW o \in Orders
  PROVE  \A what \in {"ROW", "WRITE", "SEND", "READ_ORDER", "READ_CADS"} : Ask(what, o) \in Requests
BY DEF Ask, Requests

\* whichever of the buttons it is,
LEMMA HandlerClicked ==
  ASSUME IInv,
         \/ MoveStage \/ SaveAndReload \/ SaveField \/ CorrectStage \/ UploadFiles
         \/ \E unsent \in BOOLEAN : SaveQuotedPrice(unsent)
         \/ \E n \in 1..MaxDesigns : ReviewDesigns(n)
  PROVE  IInv'
<1>0. id \in Orders /\ order \in Orders \cup {None} /\ cads \in Orders \cup {None}
  BY DEF IInv, TypeOK
<1>1. CASE MoveStage \/ SaveField
  <2>1. order \in Orders
    BY <1>0, <1>1 DEF MoveStage, SaveField, Click
  <2>2. <<Ask("ROW", order)>> \in Seq(Requests)
    BY <2>1, Asked
  <2> QED
    BY <1>1, <2>2, ClickKeeps DEF MoveStage, SaveField, Handlers
<1>2. CASE SaveAndReload
  <2>1. order \in Orders
    BY <1>0, <1>2 DEF SaveAndReload, Click
  <2>2. <<Ask("WRITE", order), Ask("READ_ORDER", order)>> \in Seq(Requests)
    BY <2>1, Asked
  <2> QED
    BY <1>2, <2>2, ClickKeeps DEF SaveAndReload, Handlers
<1>3. CASE CorrectStage
  <2>1. order \in Orders
    BY <1>0, <1>3 DEF CorrectStage, Click
  <2>2. <<Ask("ROW", order), Ask("READ_CADS", order)>> \in Seq(Requests)
    BY <2>1, Asked
  <2> QED
    BY <1>3, <2>2, ClickKeeps DEF CorrectStage, Handlers
<1>4. CASE UploadFiles
  <2>1. order \in Orders
    BY <1>0, <1>4 DEF UploadFiles, Click
  <2>2. <<Ask("WRITE", order), Ask("READ_CADS", order), Ask("READ_ORDER", order)>> \in Seq(Requests)
    BY <2>1, Asked
  <2> QED
    BY <1>4, <2>2, ClickKeeps DEF UploadFiles, Handlers
<1>5. ASSUME NEW unsent \in BOOLEAN, SaveQuotedPrice(unsent)
      PROVE  IInv'
  <2> DEFINE w == <<Ask("WRITE", order)>>
             s == IF unsent THEN <<Ask("SEND", order)>> ELSE <<>>
             r == <<Ask("READ_ORDER", order)>>
  <2>1. order \in Orders
    BY <1>0, <1>5 DEF SaveQuotedPrice, Click
  <2>2. w \in Seq(Requests) /\ s \in Seq(Requests) /\ r \in Seq(Requests)
    BY <2>1, Asked, EmptySeq
  <2>3. Click("SaveQuotedPrice", w \o s \o r)
    BY <1>5 DEF SaveQuotedPrice
  <2> HIDE DEF w, s, r
  <2>4. w \o s \o r \in Seq(Requests)
    BY <2>2, ConcatProperties
  <2> QED
    BY <2>3, <2>4, ClickKeeps DEF Handlers
<1>6. ASSUME NEW n \in 1..MaxDesigns, ReviewDesigns(n)
      PROVE  IInv'
  <2> DEFINE s == [i \in 1..n |-> Ask("SEND", cads)]
             r == <<Ask("READ_CADS", id), Ask("READ_ORDER", id)>>
  <2>1. cads \in Orders
    BY <1>0, <1>6 DEF ReviewDesigns
  <2>2. s \in Seq(Requests)
    <3>1. n \in Nat
      OBVIOUS
    <3>2. Ask("SEND", cads) \in Requests
      BY <2>1, Asked
    <3> QED
      BY <3>1, <3>2, IsASeq
  <2>3. r \in Seq(Requests)
    BY <1>0, Asked
  <2>4. Click("Review", s \o r)
    BY <1>6 DEF ReviewDesigns
  <2> HIDE DEF s, r
  <2>5. s \o r \in Seq(Requests)
    BY <2>2, <2>3, ConcatProperties
  <2> QED
    BY <2>4, <2>5, ClickKeeps DEF Handlers
<1> QED
  BY <1>1, <1>2, <1>3, <1>4, <1>5, <1>6

\* An answer about another order than the route's disturbs the page.
LEMMA RespondsKeeps ==
  ASSUME IInv, NEW h \in Handlers, Responds(h)
  PROVE  IInv'
<1>1. task[h] # <<>> /\ task[h] \in Seq(Requests) /\ UNCHANGED <<id, loading, fetches, opened>>
  BY DEF Responds, Answered, Refused, Lost, IInv, TypeOK
<1>2. Head(task[h]) \in Requests /\ Tail(task[h]) \in Seq(Requests) /\ <<>> \in Seq(Requests)
  BY <1>1, HeadTailProperties, EmptySeq
<1>3. task' \in [Handlers -> Seq(Requests)]
  BY <1>1, <1>2 DEF Responds, Answered, Refused, Lost, IInv, TypeOK
<1>4. stuck' \subseteq Handlers
  BY DEF Responds, Answered, Refused, Lost, IInv, TypeOK, StuckAfter
<1>5. CASE Answered(h)
  <2> DEFINE r == Head(task[h])
  <2>1. /\ order' = IF r.what \in {"ROW", "READ_ORDER"} THEN r.of ELSE order
        /\ cads' = IF r.what = "READ_CADS" THEN r.of ELSE cads
        /\ disturbed' = (disturbed \/ (r.what \in {"ROW", "READ_ORDER", "READ_CADS"} /\ r.of # id))
    BY <1>5 DEF Answered
  <2>2. r.of \in Orders
    BY <1>2 DEF Requests
  <2> HIDE DEF r
  <2>3. disturbed' \in BOOLEAN /\ order' \in Orders \cup {None} /\ cads' \in Orders \cup {None}
    BY <2>1, <2>2 DEF IInv, TypeOK
  <2>4. UndisturbedFollowsRoute'
    BY <1>1, <2>1 DEF IInv, UndisturbedFollowsRoute
  <2> QED
    BY <1>1, <1>3, <1>4, <2>3, <2>4 DEF IInv, TypeOK, LoadsAreWanted
<1>6. CASE Refused(h) \/ Lost(h)
  <2>1. UNCHANGED <<order, cads, disturbed>>
    BY <1>6 DEF Refused, Lost
  <2> QED
    BY <1>1, <1>3, <1>4, <2>1 DEF IInv, TypeOK, LoadsAreWanted, UndisturbedFollowsRoute
<1> QED
  BY <1>5, <1>6 DEF Responds

\* and after every other step.
LEMMA StepKeeps ==
  ASSUME IInv, [Next]_vars
  PROVE  IInv'
<1>1. CASE UNCHANGED vars
  BY <1>1 DEF vars, IInv, TypeOK, LoadsAreWanted, UndisturbedFollowsRoute
<1>2. ASSUME NEW o \in Orders, Open(o)
      PROVE  IInv'
  BY <1>2, OpenKeeps
<1>3. ASSUME NEW l \in [of : Orders, part : Parts], Loaded(l)
      PROVE  IInv'
  BY <1>3, LoadedKeeps DEF Loaded
<1>4. ASSUME NEW h \in Handlers, Responds(h)
      PROVE  IInv'
  BY <1>4, RespondsKeeps
<1> QED
  BY <1>1, <1>2, <1>3, <1>4, HandlerClicked, Zenon DEF Next

-----------------------------------------------------------------------------
(* The theorems *)

\* The invariant holds in every state.
THEOREM Inductive == Spec => []IInv
<1>1. Init => IInv
  BY InitHolds
<1>2. IInv /\ [Next]_vars => IInv'
  BY StepKeeps
<1> QED
  BY <1>1, <1>2, PTL DEF Spec

\* The loads of one order after another never mix two orders on screen: for any
\* number of orders that are opened and of handlers that wait.
THEOREM MixSafe == Spec => []OnlyLateAnswersMix
<1>1. IInv => OnlyLateAnswersMix
  BY DEF IInv, TypeOK, LoadsAreWanted, UndisturbedFollowsRoute, OnlyLateAnswersMix, Mixed
<1> QED
  BY <1>1, Inductive, PTL
=============================================================================
