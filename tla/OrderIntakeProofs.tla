-------------------------- MODULE OrderIntakeProofs --------------------------
(***************************************************************************)
(* Proofs about the safety of OrderIntake, for any carts, spreadsheets and *)
(* numbers of requests, failures and removals.                             *)
(***************************************************************************)
EXTENDS OrderIntake, SequenceTheorems, WellFoundedInduction, TLAPS

OrderRows == [exists : BOOLEAN, item : Items \cup {None}, imported : BOOLEAN, told : BOOLEAN]
Reqs ==
  [step : Steps, cart : Carts \cup {None}, items : Seq(Items \cup {None}),
   number : 0..MaxOrders+1, created : SUBSET Numbers]
Counts == [forms : 0..MaxForms, failures : 0..MaxFailures, removals : 0..MaxRemovals]

-----------------------------------------------------------------------------
(* The highest number *)

\* There is one: the distances to the bound have a minimum.
LEMMA HighestExists ==
  ASSUME NEW S, S \subseteq 0..MaxOrders, S # {}
  PROVE  \E n \in S : \A m \in S : m <= n
<1> DEFINE T == {MaxOrders - n : n \in S}
           R == OpToRel(<, Nat)
<1>1. MaxOrders \in Nat
  BY IntakeAssumption
<1>2. T \subseteq Nat /\ T # {}
  <2>1. \A n \in S : MaxOrders - n \in Nat
    BY <1>1
  <2>2. T \subseteq Nat
    BY <2>1
  <2>3. PICK n \in S : TRUE
    OBVIOUS
  <2>4. MaxOrders - n \in T
    BY <2>3
  <2> QED
    BY <2>2, <2>4
<1>3. PICK x \in T : \A y \in T : ~ (<<y, x>> \in R)
  BY <1>2, NatLessThanWellFounded, WFMin
<1>4. PICK n \in S : x = MaxOrders - n
  BY <1>3
<1>5. ASSUME NEW m \in S
      PROVE  m <= n
  <2>1. MaxOrders - m \in T /\ MaxOrders - m \in Nat /\ x \in Nat
    BY <1>2
  <2>2. ~(MaxOrders - m < x)
    BY <1>3, <2>1 DEF OpToRel
  <2> QED
    BY <1>1, <1>4, <2>2
<1> QED
  BY <1>5

\* The highest number taken is one of the numbers, or none.
LEMMA HighestType ==
  Highest \in 0..MaxOrders
<1>1. MaxOrders \in Nat
  BY IntakeAssumption
<1>2. Existing \cup {0} \subseteq 0..MaxOrders
  BY <1>1 DEF Existing, Numbers
<1>3. \E n \in Existing \cup {0} : \A m \in Existing : m <= n
  BY <1>2, HighestExists
<1> QED
  BY <1>2, <1>3 DEF Highest

-----------------------------------------------------------------------------
(* The strengthening *)

\* An item is waited for by a request, or has an order, or had one.
Pending(q, x) == \E j \in 1..Len(q.items) : q.items[j] = x
Handled(x) == x \in removed \/ \E n \in Existing : order[n].item = x

\* A request has items left until all it has to do is to tell; between requests
\* nothing is in its hands.
ItemsLeft(q) ==
  /\ q.items = <<>> <=> q.step \in {"IDLE", "TELL"}
  /\ q.step = "IDLE" => q.created = {}

RequestsHaveItems == \A r \in Requests : ItemsLeft(req[r])

\* A request for a cart has not forgotten an item.
CartsProgress ==
  \A r \in Requests, c \in Carts : req[r].cart = c =>
    \A i \in DOMAIN Content[c] : Pending(req[r], Content[c][i]) \/ Handled(Content[c][i])

AbsentIsBlank == \A n \in Numbers : ~order[n].exists => order[n].item = None

ImportHasRows == sheet # NoSheet => sheet.rows # <<>>

IInv ==
  /\ TypeOK
  /\ RequestsHaveItems /\ CartsProgress /\ AbsentIsBlank /\ ImportHasRows
  /\ OneOrderPerItem /\ AnsweredCartIsComplete /\ UntoldIsLeftBehind

\* The type invariant, variable by variable.
LEMMA Rows ==
  TypeOK <=> /\ order \in [Numbers -> OrderRows]
             /\ registered \in BOOLEAN
             /\ req \in [Requests -> Reqs]
             /\ sheet \in [rows : Seq(Numbers), seen : SUBSET Numbers]
             /\ answered \subseteq Carts
             /\ done \in Counts
             /\ failed \subseteq Numbers /\ removed \subseteq Items
BY DEF TypeOK, OrderRows, Reqs, Counts

\* The cart of a request has items, all of them items.
LEMMA CartItems ==
  ASSUME NEW c \in Carts
  PROVE  /\ Content[c] \in Seq(Items) /\ Content[c] # <<>>
         /\ Content[c] \in Seq(Items \cup {None})
         /\ DOMAIN Content[c] = 1..Len(Content[c])
         /\ \A i \in DOMAIN Content[c] : Content[c][i] \in Items /\ Content[c][i] # None
<1>1. Content[c] \in Seq(Items) /\ Content[c] # <<>> /\ None \notin Items
  BY IntakeAssumption
<1>2. DOMAIN Content[c] = 1..Len(Content[c])
  BY <1>1, LenProperties
<1>3. \A i \in 1..Len(Content[c]) : Content[c][i] \in Items
  BY <1>1, ElementOfSeq
<1>4. Content[c] \in Seq(Items \cup {None})
  BY <1>1, SeqMonotonic
<1> QED
  BY <1>1, <1>2, <1>3, <1>4

\* AnsweredCartIsComplete, item by item.
LEMMA CartsComplete ==
  AnsweredCartIsComplete <=>
    \A c \in answered : \A i \in DOMAIN Content[c] : Handled(Content[c][i])
BY DEF AnsweredCartIsComplete, Handled

\* One item is done; the others still wait.
LEMMA NextItemKeeps ==
  ASSUME NEW q \in Reqs, q.items # <<>>
  PROVE  /\ NextItem(q) \in Reqs /\ ItemsLeft(NextItem(q))
         /\ NextItem(q).cart = q.cart /\ NextItem(q).created = q.created
         /\ Head(q.items) \in Items \cup {None}
         /\ \A x : Pending(q, x) => x = Head(q.items) \/ Pending(NextItem(q), x)
<1> DEFINE step == IF Len(q.items) > 1 THEN "FIND_ITEM" ELSE "TELL"
           rest == Tail(q.items)
<1>1. q.items \in Seq(Items \cup {None})
  BY DEF Reqs
<1>2. /\ rest \in Seq(Items \cup {None}) /\ Len(rest) = Len(q.items) - 1
      /\ \A j \in 1..Len(rest) : rest[j] = q.items[j + 1]
      /\ Head(q.items) = q.items[1] /\ Head(q.items) \in Items \cup {None}
      /\ Len(q.items) \in Nat \ {0}
  BY <1>1, HeadTailProperties, LenProperties, EmptySeq
<1>3. step \in Steps
  BY DEF Steps
<1>4. NextItem(q) = [q EXCEPT !.items = rest, !.step = step]
  BY DEF NextItem
<1> HIDE DEF rest
<1>5. rest = <<>> <=> Len(q.items) = 1
  <2>1. rest = <<>> <=> Len(rest) = 0
    BY <1>2, EmptySeq
  <2> QED
    BY <1>2, <2>1
<1> HIDE DEF step
<1>6. /\ NextItem(q) \in Reqs /\ NextItem(q).items = rest /\ NextItem(q).step = step
      /\ NextItem(q).cart = q.cart /\ NextItem(q).created = q.created
  BY <1>2, <1>3, <1>4 DEF Reqs
<1>7. ItemsLeft(NextItem(q))
  BY <1>2, <1>5, <1>6 DEF ItemsLeft, step
<1>8. ASSUME NEW x, NEW j \in 1..Len(q.items), q.items[j] = x, x # Head(q.items)
      PROVE  \E k \in 1..Len(rest) : rest[k] = x
  <2>1. j # 1 /\ j - 1 \in 1..Len(rest) /\ rest[j - 1] = q.items[j]
    BY <1>2, <1>8
  <2> QED
    BY <1>8, <2>1
<1> QED
  BY <1>2, <1>6, <1>7, <1>8 DEF Pending

-----------------------------------------------------------------------------
(* Steps that touch no order *)

\* One request moves on to q, another one of its own making or the idle one.
LEMMA RequestMoves ==
  ASSUME IInv, NEW r \in Requests, NEW q \in Reqs,
         req' = [req EXCEPT ![r] = q], ItemsLeft(q),
         q.cart # None => \A i \in DOMAIN Content[q.cart] :
                            Pending(q, Content[q.cart][i]) \/ Handled(Content[q.cart][i]),
         failed' \subseteq Numbers, failed \subseteq failed', req[r].created \subseteq q.created \cup failed',
         registered' \in BOOLEAN, done' \in Counts,
         UNCHANGED <<order, sheet, answered, removed>>
  PROVE  IInv'
<1>0. order \in [Numbers -> OrderRows] /\ req \in [Requests -> Reqs]
  BY Rows DEF IInv
<1>1. TypeOK'
  <2>1. req' \in [Requests -> Reqs]
    BY <1>0
  <2> QED
    BY <2>1, Rows DEF IInv, TypeOK, OrderRows, Reqs, Counts
<1>2. Existing' = Existing /\ \A x : Handled(x)' <=> Handled(x)
  BY DEF Existing, Handled
<1>3. RequestsHaveItems'
  BY <1>0 DEF IInv, RequestsHaveItems, ItemsLeft
<1>4. CartsProgress'
  <2>1. ASSUME NEW s \in Requests, NEW c \in Carts, req'[s].cart = c, NEW i \in DOMAIN Content[c]
        PROVE  Pending(req'[s], Content[c][i]) \/ Handled(Content[c][i])
    <3>1. CASE s = r
      BY <1>0, <2>1, <3>1, IntakeAssumption
    <3>2. CASE s # r
      BY <1>0, <2>1, <3>2 DEF IInv, CartsProgress
    <3> QED
      BY <3>1, <3>2
  <2> QED
    BY <1>2, <2>1 DEF CartsProgress, Pending
<1>5. AbsentIsBlank' /\ ImportHasRows' /\ OneOrderPerItem' /\ AnsweredCartIsComplete'
  BY <1>2 DEF IInv, AbsentIsBlank, ImportHasRows, OneOrderPerItem, AnsweredCartIsComplete
<1>6. UntoldIsLeftBehind'
  BY <1>0, <1>2 DEF IInv, UntoldIsLeftBehind
<1> QED
  BY <1>1, <1>3, <1>4, <1>5, <1>6 DEF IInv

\* An idle request is one.
LEMMA IdleIsRequest ==
  Idle \in Reqs /\ ItemsLeft(Idle) /\ Idle.cart = None /\ Idle.created = {}
<1>1. 0 \in 0..MaxOrders+1 /\ <<>> \in Seq(Items \cup {None})
  BY IntakeAssumption, EmptySeq
<1> QED
  BY <1>1 DEF Idle, Reqs, Steps, ItemsLeft

\* A request ends with an error.
LEMMA AbortKeeps ==
  ASSUME IInv, NEW r \in Requests, Abort(r), registered' \in BOOLEAN, done' \in Counts,
         UNCHANGED <<order, sheet, answered, removed>>
  PROVE  IInv'
<1>1. req \in [Requests -> Reqs] /\ failed \subseteq Numbers
  BY Rows DEF IInv
<1>2. req[r].created \subseteq Numbers
  BY <1>1 DEF Reqs
<1> QED
  BY <1>1, <1>2, IdleIsRequest, RequestMoves DEF Abort

\* A request goes to its next step with the same items.
LEMMA GotoKeeps ==
  ASSUME IInv, NEW r \in Requests, NEW step \in Steps \ {"IDLE", "TELL"}, NEW number \in 0..MaxOrders+1,
         ~At(r, "IDLE"), ~At(r, "TELL"),
         req' = [req EXCEPT ![r] = [req[r] EXCEPT !.step = step, !.number = number]],
         failed' = failed, registered' \in BOOLEAN,
         UNCHANGED <<order, sheet, answered, done, removed>>
  PROVE  IInv'
<1> DEFINE q == [req[r] EXCEPT !.step = step, !.number = number]
<1>1. req[r] \in Reqs /\ failed \subseteq Numbers /\ done \in Counts
  BY Rows DEF IInv
<1>2. q \in Reqs /\ q.cart = req[r].cart /\ q.items = req[r].items /\ q.created = req[r].created
      /\ q.step = step
  BY <1>1 DEF Reqs
<1> HIDE DEF q
<1>3. ItemsLeft(q)
  BY <1>2 DEF IInv, RequestsHaveItems, ItemsLeft, At
<1>4. q.cart # None => \A i \in DOMAIN Content[q.cart] :
                         Pending(q, Content[q.cart][i]) \/ Handled(Content[q.cart][i])
  BY <1>1, <1>2 DEF IInv, CartsProgress, Pending, Reqs
<1>5. req' = [req EXCEPT ![r] = q]
  BY DEF q
<1> QED
  BY <1>1, <1>2, <1>3, <1>4, <1>5, RequestMoves

-----------------------------------------------------------------------------
(* The steps of a request *)

\* The Ring Builder submits a cart.
LEMMA SubmittingCart ==
  ASSUME IInv, NEW r \in Requests, NEW c \in Carts, SubmitCart(r, c)
  PROVE  IInv'
<1> DEFINE q == [Idle EXCEPT !.step = "FIND_CUSTOMER", !.cart = c, !.items = Content[c]]
<1>1. req \in [Requests -> Reqs] /\ failed \subseteq Numbers /\ done \in Counts /\ registered \in BOOLEAN
  BY Rows DEF IInv
<1>2. /\ q \in Reqs /\ q.cart = c /\ q.items = Content[c] /\ q.created = {} /\ q.step = "FIND_CUSTOMER"
  <2>1. Content[c] \in Seq(Items \cup {None})
    BY CartItems
  <2> QED
    BY <2>1, IdleIsRequest DEF Reqs, Idle, Steps
<1>3. req' = [req EXCEPT ![r] = q]
  BY DEF SubmitCart
<1> HIDE DEF q
<1>4. ItemsLeft(q)
  BY <1>2, CartItems DEF ItemsLeft
<1>5. \A i \in DOMAIN Content[q.cart] : Pending(q, Content[q.cart][i])
  BY <1>2, CartItems DEF Pending
<1>6. req[r].created \subseteq failed \cup req[r].created /\ req[r] \in Reqs
  BY <1>1
<1>7. /\ req[r].created = {} /\ failed' = failed
      /\ UNCHANGED <<order, registered, sheet, answered, done, removed>>
  BY DEF SubmitCart, At, IInv, RequestsHaveItems, ItemsLeft
<1> QED
  BY <1>1, <1>2, <1>3, <1>4, <1>5, <1>7, RequestMoves

\* Somebody submits the form.
LEMMA SubmittingForm ==
  ASSUME IInv, NEW r \in Requests, NEW first \in {"FIND_CUSTOMER", "NUMBER"}, SubmitForm(r, first)
  PROVE  IInv'
<1> DEFINE q == [Idle EXCEPT !.step = first, !.items = <<None>>]
<1>1. req \in [Requests -> Reqs] /\ failed \subseteq Numbers /\ done \in Counts /\ registered \in BOOLEAN
  BY Rows DEF IInv
<1>2. <<None>> \in Seq(Items \cup {None}) /\ <<None>> # <<>>
  OBVIOUS
<1>3. /\ q \in Reqs /\ q.cart = None /\ q.items = <<None>> /\ q.created = {} /\ q.step = first
  BY <1>2, IdleIsRequest DEF Reqs, Idle, Steps
<1>4. req' = [req EXCEPT ![r] = q]
  BY DEF SubmitForm
<1> HIDE DEF q
<1>5. ItemsLeft(q)
  BY <1>2, <1>3 DEF ItemsLeft
<1>6. /\ req[r].created = {} /\ failed' = failed
      /\ UNCHANGED <<order, registered, sheet, answered, removed>>
  BY DEF SubmitForm, At, IInv, RequestsHaveItems, ItemsLeft
<1>7. done' \in Counts
  <2>1. done.forms \in 0..MaxForms /\ done.forms < MaxForms /\ done' = [done EXCEPT !.forms = @ + 1]
    BY <1>1 DEF SubmitForm, Counts
  <2>2. done.forms + 1 \in 0..MaxForms
    BY <2>1, IntakeAssumption
  <2> QED
    BY <1>1, <2>1, <2>2 DEF Counts
<1> QED
  BY <1>1, <1>3, <1>4, <1>5, <1>6, <1>7, RequestMoves

\* What follows the customer is a step that has work to do.
LEMMA AfterCustomerType ==
  ASSUME NEW r \in Requests
  PROVE  AfterCustomer(r) \in Steps \ {"IDLE", "TELL"}
BY DEF AfterCustomer, Steps

\* A step that only goes on.
LEMMA GoingOn ==
  ASSUME IInv, NEW r \in Requests, NEW step \in Steps \ {"IDLE", "TELL"},
         ~At(r, "IDLE"), ~At(r, "TELL"), Goto(r, step),
         failed' = failed, registered' \in BOOLEAN,
         UNCHANGED <<order, sheet, answered, done, removed>>
  PROVE  IInv'
<1>1. req \in [Requests -> Reqs]
  BY Rows DEF IInv
<1>2. req[r].number \in 0..MaxOrders+1
  BY <1>1 DEF Reqs
<1>3. req' = [req EXCEPT ![r] = [req[r] EXCEPT !.step = step, !.number = req[r].number]]
  BY <1>1 DEF Goto, Reqs
<1> QED
  BY <1>2, <1>3, GotoKeeps

\* The request looks for its customer,
LEMMA FindingCustomer ==
  ASSUME IInv, NEW r \in Requests, FindCustomer(r)
  PROVE  IInv'
<1> DEFINE step == IF registered THEN AfterCustomer(r) ELSE "REGISTER"
<1>1. step \in Steps \ {"IDLE", "TELL"}
  BY AfterCustomerType DEF Steps
<1>2. /\ ~At(r, "IDLE") /\ ~At(r, "TELL") /\ Goto(r, step)
      /\ UNCHANGED <<order, registered, sheet, answered, done, failed, removed>>
  BY DEF FindCustomer, At
<1>3. registered \in BOOLEAN
  BY Rows DEF IInv
<1> HIDE DEF step
<1> QED
  BY <1>1, <1>2, <1>3, GoingOn

\* registers it,
LEMMA Registering ==
  ASSUME IInv, NEW r \in Requests, Register(r)
  PROVE  IInv'
<1>1. /\ ~At(r, "IDLE") /\ ~At(r, "TELL") /\ registered' \in BOOLEAN
      /\ UNCHANGED <<order, sheet, answered, done, removed>>
  BY DEF Register, At
<1>2. done' \in Counts
  BY <1>1, Rows DEF IInv
<1>3. CASE registered
  BY <1>1, <1>2, <1>3, AbortKeeps DEF Register
<1>4. CASE ~registered
  BY <1>1, <1>4, AfterCustomerType, GoingOn DEF Register
<1> QED
  BY <1>3, <1>4

\* looks for its item among the orders,
LEMMA FindingItem ==
  ASSUME IInv, NEW r \in Requests, FindItem(r)
  PROVE  IInv'
<1>1. /\ req \in [Requests -> Reqs] /\ failed \subseteq Numbers /\ done \in Counts
      /\ registered \in BOOLEAN
  BY Rows DEF IInv
<1>2. /\ ~At(r, "IDLE") /\ ~At(r, "TELL")
      /\ UNCHANGED <<order, registered, sheet, answered, done, failed, removed>>
  BY DEF FindItem, At
<1>3. CASE \E n \in Existing : order[n].item = Head(req[r].items)
  <2> DEFINE q == NextItem(req[r])
  <2>1. req' = [req EXCEPT ![r] = q]
    BY <1>1, <1>3 DEF FindItem
  <2>2. req[r] \in Reqs /\ req[r].items # <<>>
    BY <1>1, <1>2 DEF IInv, RequestsHaveItems, ItemsLeft, At
  <2>3. /\ q \in Reqs /\ ItemsLeft(q) /\ q.cart = req[r].cart /\ q.created = req[r].created
        /\ \A x : Pending(req[r], x) => x = Head(req[r].items) \/ Pending(q, x)
    BY <2>2, NextItemKeeps
  <2>4. Handled(Head(req[r].items))
    BY <1>3 DEF Handled
  <2> HIDE DEF q
  <2>5. q.cart # None => \A i \in DOMAIN Content[q.cart] :
                           Pending(q, Content[q.cart][i]) \/ Handled(Content[q.cart][i])
    BY <2>2, <2>3, <2>4 DEF IInv, CartsProgress, Reqs
  <2> QED
    BY <1>1, <1>2, <2>1, <2>3, <2>5, RequestMoves
<1>4. CASE ~ \E n \in Existing : order[n].item = Head(req[r].items)
  <2>1. Goto(r, "NUMBER")
    BY <1>1, <1>4 DEF FindItem, Goto
  <2> QED
    BY <1>1, <1>2, <2>1, GoingOn DEF Steps
<1> QED
  BY <1>3, <1>4

\* and for the highest number.
LEMMA ReadingNumber ==
  ASSUME IInv, NEW r \in Requests, ReadNumber(r)
  PROVE  IInv'
<1>1. /\ req \in [Requests -> Reqs] /\ registered \in BOOLEAN
  BY Rows DEF IInv
<1>2. NextNumber \in 0..MaxOrders+1
  <2>1. Highest \in 0..MaxOrders /\ MaxOrders \in Nat
    BY HighestType, IntakeAssumption
  <2> QED
    BY <2>1 DEF NextNumber
<1>3. /\ ~At(r, "IDLE") /\ ~At(r, "TELL")
      /\ UNCHANGED <<order, registered, sheet, answered, done, failed, removed>>
  BY DEF ReadNumber, At
<1>4. req' = [req EXCEPT ![r] = [req[r] EXCEPT !.step = "INSERT", !.number = NextNumber]]
  BY <1>1 DEF ReadNumber
<1> QED
  BY <1>1, <1>2, <1>3, <1>4, GotoKeeps DEF Steps

\* It fails on the way.
LEMMA Failing ==
  ASSUME IInv, NEW r \in Requests, Fail(r)
  PROVE  IInv'
<1>1. done \in Counts /\ registered \in BOOLEAN
  BY Rows DEF IInv
<1>2. done' \in Counts
  <2>1. done.failures \in 0..MaxFailures /\ done.failures < MaxFailures
        /\ done' = [done EXCEPT !.failures = @ + 1]
    BY <1>1 DEF Fail, Counts
  <2>2. done.failures + 1 \in 0..MaxFailures
    BY <2>1, IntakeAssumption
  <2> QED
    BY <1>1, <2>1, <2>2 DEF Counts
<1> QED
  BY <1>1, <1>2, AbortKeeps DEF Fail
-----------------------------------------------------------------------------
(* Steps that add, mark or delete orders *)

\* An order that is added takes nothing from the others.
LEMMA Adding ==
  ASSUME IInv, NEW n \in Numbers, n \notin Existing, NEW row \in OrderRows, row.exists,
         row.item # None => \A m \in Existing : order[m].item # row.item,
         order' = [order EXCEPT ![n] = row], UNCHANGED <<answered, removed>>
  PROVE  /\ order' \in [Numbers -> OrderRows] /\ order'[n] = row
         /\ \A m \in Numbers : m # n => order'[m] = order[m]
         /\ Existing' = Existing \cup {n}
         /\ \A x : Handled(x) => Handled(x)'
         /\ Handled(row.item)'
         /\ OneOrderPerItem' /\ AbsentIsBlank' /\ AnsweredCartIsComplete'
<1>1. order \in [Numbers -> OrderRows] /\ answered \subseteq Carts
  BY Rows DEF IInv
<1>2. /\ order' \in [Numbers -> OrderRows] /\ order'[n] = row
      /\ \A m \in Numbers : m # n => order'[m] = order[m]
  BY <1>1
<1>3. Existing' = Existing \cup {n}
  BY <1>2 DEF Existing
<1>4. \A m \in Existing : m # n /\ m \in Numbers /\ order'[m] = order[m]
  BY <1>2 DEF Existing
<1>5. \A x : Handled(x) => Handled(x)'
  BY <1>3, <1>4 DEF Handled
<1>6. Handled(row.item)'
  BY <1>2, <1>3 DEF Handled
<1>7. OneOrderPerItem'
  BY <1>2, <1>3, <1>4 DEF IInv, OneOrderPerItem
<1>8. AbsentIsBlank'
  BY <1>2 DEF IInv, AbsentIsBlank
<1>9. AnsweredCartIsComplete'
  <2>1. \A c \in answered : \A i \in DOMAIN Content[c] : Handled(Content[c][i])
    BY CartsComplete DEF IInv
  <2>2. \A c \in answered' : \A i \in DOMAIN Content[c] : Handled(Content[c][i])'
    BY <1>5, <2>1
  <2> QED
    BY <2>2 DEF AnsweredCartIsComplete, Handled
<1> QED
  BY <1>2, <1>3, <1>5, <1>6, <1>7, <1>8, <1>9

\* It inserts its order, or finds the number taken.
LEMMA Inserting ==
  ASSUME IInv, NEW r \in Requests, Insert(r)
  PROVE  IInv'
<1>0. PICK x, n : x = Head(req[r].items) /\ n = req[r].number
  OBVIOUS
<1>1. /\ order \in [Numbers -> OrderRows] /\ req \in [Requests -> Reqs] /\ registered \in BOOLEAN
      /\ sheet \in [rows : Seq(Numbers), seen : SUBSET Numbers] /\ answered \subseteq Carts
      /\ done \in Counts /\ failed \subseteq Numbers /\ removed \subseteq Items
  BY Rows DEF IInv
<1>2. UNCHANGED <<registered, sheet, answered, done, removed>> /\ At(r, "INSERT")
  BY DEF Insert
<1>3. CASE Taken(n, x)
  BY <1>0, <1>1, <1>2, <1>3, AbortKeeps DEF Insert
<1>4. CASE ~Taken(n, x)
  <2> DEFINE row == [NoOrder EXCEPT !.exists = TRUE, !.item = x]
             q == [NextItem(req[r]) EXCEPT !.created = Created(req[r], n)]
  <2>1. /\ n \in Numbers /\ order' = [order EXCEPT ![n] = row]
        /\ req' = [req EXCEPT ![r] = q] /\ failed' = failed
    BY <1>0, <1>4 DEF Insert
  <2>2. n \notin Existing /\ (x # None => \A m \in Existing : order[m].item # x)
    BY <1>4 DEF Taken
  <2>3. req[r] \in Reqs /\ req[r].items # <<>>
    BY <1>1, <1>2 DEF IInv, RequestsHaveItems, ItemsLeft, At
  <2>4. /\ NextItem(req[r]) \in Reqs /\ ItemsLeft(NextItem(req[r]))
        /\ NextItem(req[r]).cart = req[r].cart /\ x \in Items \cup {None}
        /\ \A y : Pending(req[r], y) => y = x \/ Pending(NextItem(req[r]), y)
    BY <1>0, <2>3, NextItemKeeps
  <2>5. row \in OrderRows /\ row.exists /\ row.item = x
    BY <2>4 DEF OrderRows, NoOrder
  <2>6. req[r].created \cup {n} \subseteq Numbers
    BY <1>1, <2>1 DEF Reqs
  <2>7. /\ q \in Reqs /\ q.cart = req[r].cart /\ q.created = req[r].created \cup {n}
        /\ q.items = NextItem(req[r]).items /\ q.step = NextItem(req[r]).step
    BY <2>4, <2>6 DEF Reqs, Created
  <2>8. NextItem(req[r]).step # "IDLE"
    BY DEF NextItem
  <2>9. ItemsLeft(q) /\ \A y : Pending(q, y) <=> Pending(NextItem(req[r]), y)
    BY <2>4, <2>7, <2>8 DEF ItemsLeft, Pending
  <2> HIDE DEF row, q
  <2>10. /\ order' \in [Numbers -> OrderRows] /\ order'[n] = row
         /\ \A m \in Numbers : m # n => order'[m] = order[m]
         /\ Existing' = Existing \cup {n}
         /\ \A y : Handled(y) => Handled(y)'
         /\ Handled(x)'
         /\ OneOrderPerItem' /\ AbsentIsBlank' /\ AnsweredCartIsComplete'
    BY <1>2, <2>1, <2>2, <2>5, Adding
  <2>11. /\ req' \in [Requests -> Reqs] /\ req'[r] = q
         /\ \A s \in Requests : s # r => req'[s] = req[s]
    BY <1>1, <2>1, <2>7
  <2>12. TypeOK'
    BY <1>1, <1>2, <2>1, <2>10, <2>11 DEF TypeOK, OrderRows, Reqs, Counts
  <2>13. RequestsHaveItems'
    <3>1. \A s \in Requests : ItemsLeft(req'[s])
      BY <2>9, <2>11 DEF IInv, RequestsHaveItems
    <3> QED
      BY <3>1 DEF RequestsHaveItems, ItemsLeft
  <2>14. CartsProgress'
    <3>1. ASSUME NEW s \in Requests, NEW c \in Carts, req'[s].cart = c, NEW i \in DOMAIN Content[c]
          PROVE  Pending(req'[s], Content[c][i]) \/ Handled(Content[c][i])'
      <4>1. CASE s = r
        BY <2>4, <2>7, <2>9, <2>10, <2>11, <3>1, <4>1 DEF IInv, CartsProgress
      <4>2. CASE s # r
        BY <2>10, <2>11, <3>1, <4>2 DEF IInv, CartsProgress
      <4> QED
        BY <4>1, <4>2
    <3> QED
      BY <3>1 DEF CartsProgress, Pending, Handled
  <2>15. ImportHasRows'
    BY <1>2 DEF IInv, ImportHasRows
  <2>16. UntoldIsLeftBehind'
    <3>1. ASSUME NEW m \in Existing', ~order'[m].told, ~order'[m].imported
          PROVE  m \in failed' \/ \E s \in Requests : m \in req'[s].created
      <4>1. CASE m = n
        BY <2>7, <2>11, <4>1
      <4>2. CASE m # n
        <5>1. m \in Existing /\ order'[m] = order[m]
          BY <2>10, <4>2 DEF Existing
        <5>2. m \in failed \/ \E s \in Requests : m \in req[s].created
          BY <3>1, <5>1 DEF IInv, UntoldIsLeftBehind
        <5> QED
          BY <2>1, <2>7, <2>11, <5>2
      <4> QED
        BY <4>1, <4>2
    <3> QED
      BY <3>1 DEF UntoldIsLeftBehind
  <2> QED
    BY <2>10, <2>12, <2>13, <2>14, <2>15, <2>16 DEF IInv
<1> QED
  BY <1>3, <1>4

\* It answers; the answer may be lost.
LEMMA Telling ==
  ASSUME IInv, NEW r \in Requests, NEW heard \in BOOLEAN, Tell(r, heard)
  PROVE  IInv'
<1>1. /\ order \in [Numbers -> OrderRows] /\ req \in [Requests -> Reqs] /\ registered \in BOOLEAN
      /\ sheet \in [rows : Seq(Numbers), seen : SUBSET Numbers] /\ answered \subseteq Carts
      /\ done \in Counts /\ failed \subseteq Numbers /\ removed \subseteq Items
  BY Rows DEF IInv
<1>2. /\ UNCHANGED <<registered, sheet, failed, removed>> /\ At(r, "TELL")
      /\ req' = [req EXCEPT ![r] = Idle]
      /\ order' = [m \in Numbers |-> IF m \in req[r].created \cap Existing
                                     THEN [order[m] EXCEPT !.told = TRUE] ELSE order[m]]
  BY DEF Tell
<1>3. /\ req' \in [Requests -> Reqs] /\ req'[r] = Idle
      /\ \A s \in Requests : s # r => req'[s] = req[s]
  BY <1>1, <1>2, IdleIsRequest
<1>4. \A m \in Numbers : order'[m] \in OrderRows
  BY <1>1, <1>2 DEF OrderRows
<1>5. order' \in [Numbers -> OrderRows]
  BY <1>2, <1>4
<1>6. \A m \in Numbers : /\ order'[m].exists = order[m].exists /\ order'[m].item = order[m].item
                         /\ order'[m].imported = order[m].imported
                         /\ ~order'[m].told => ~order[m].told /\ m \notin req[r].created \cap Existing
  BY <1>1, <1>2 DEF OrderRows
<1>7. Existing' = Existing /\ Existing \subseteq Numbers
  BY <1>6 DEF Existing
<1>8. \A x : Handled(x)' <=> Handled(x)
  BY <1>2, <1>6, <1>7 DEF Handled
<1>9. done' \in Counts
  <2>1. CASE heard
    BY <1>1, <2>1 DEF Tell
  <2>2. CASE ~heard
    <3>1. done.failures \in 0..MaxFailures /\ done.failures < MaxFailures
          /\ done' = [done EXCEPT !.failures = @ + 1]
      BY <1>1, <2>2 DEF Tell, Counts
    <3>2. done.failures + 1 \in 0..MaxFailures
      BY <3>1, IntakeAssumption
    <3> QED
      BY <1>1, <3>1, <3>2 DEF Counts
  <2> QED
    BY <2>1, <2>2
<1>10. answered' \subseteq answered \cup ({req[r].cart} \ {None})
  BY DEF Tell
<1>11. TypeOK'
  <2>1. answered' \subseteq Carts
    BY <1>1, <1>10 DEF Reqs
  <2> QED
    BY <1>1, <1>2, <1>3, <1>5, <1>9, <2>1 DEF TypeOK, OrderRows, Reqs, Counts
<1>12. RequestsHaveItems'
  <2>1. \A s \in Requests : ItemsLeft(req'[s])
    BY <1>3, IdleIsRequest DEF IInv, RequestsHaveItems
  <2> QED
    BY <2>1 DEF RequestsHaveItems, ItemsLeft
<1>13. CartsProgress'
  <2>1. \A s \in Requests : req'[s].cart # None => s # r /\ req'[s] = req[s]
    BY <1>3, IdleIsRequest
  <2>2. \A s \in Requests, c \in Carts : req'[s].cart = c =>
          \A i \in DOMAIN Content[c] : Pending(req'[s], Content[c][i]) \/ Handled(Content[c][i])'
    BY <1>8, <2>1, IntakeAssumption DEF IInv, CartsProgress
  <2> QED
    BY <2>2 DEF CartsProgress, Pending, Handled
<1>14. AbsentIsBlank' /\ ImportHasRows'
  BY <1>2, <1>6 DEF IInv, AbsentIsBlank, ImportHasRows
<1>15. OneOrderPerItem'
  BY <1>6, <1>7 DEF IInv, OneOrderPerItem
<1>16. AnsweredCartIsComplete'
  <2>1. \A c \in answered : \A i \in DOMAIN Content[c] : Handled(Content[c][i])
    BY CartsComplete DEF IInv
  <2>2. ASSUME req[r].cart # None, NEW i \in DOMAIN Content[req[r].cart]
        PROVE  Handled(Content[req[r].cart][i])
    <3>1. req[r].items = <<>>
      BY <1>2 DEF IInv, RequestsHaveItems, ItemsLeft, At
    <3>2. ~Pending(req[r], Content[req[r].cart][i])
      BY <3>1 DEF Pending
    <3> QED
      BY <1>1, <2>2, <3>2 DEF IInv, CartsProgress, Reqs
  <2>3. \A c \in answered' : \A i \in DOMAIN Content[c] : Handled(Content[c][i])'
    BY <1>8, <1>10, <2>1, <2>2
  <2> QED
    BY <2>3 DEF AnsweredCartIsComplete, Handled
<1>17. UntoldIsLeftBehind'
  <2>1. ASSUME NEW m \in Existing', ~order'[m].told, ~order'[m].imported
        PROVE  m \in failed' \/ \E s \in Requests : m \in req'[s].created
    <3>1. m \in Existing /\ m \in Numbers
      BY <1>7
    <3>2. ~order[m].told /\ ~order[m].imported /\ m \notin req[r].created
      BY <1>6, <2>1, <3>1
    <3>3. m \in failed \/ \E s \in Requests : m \in req[s].created
      BY <3>1, <3>2 DEF IInv, UntoldIsLeftBehind
    <3> QED
      BY <1>2, <1>3, <3>2, <3>3
  <2> QED
    BY <2>1 DEF UntoldIsLeftBehind
<1> QED
  BY <1>11, <1>12, <1>13, <1>14, <1>15, <1>16, <1>17 DEF IInv
\* Nothing but the import moves.
LEMMA SheetMoves ==
  ASSUME IInv, sheet' \in [rows : Seq(Numbers), seen : SUBSET Numbers],
         sheet' # NoSheet => sheet'.rows # <<>>, done' \in Counts,
         UNCHANGED <<order, registered, req, answered, failed, removed>>
  PROVE  IInv'
<1>1. TypeOK'
  BY DEF IInv, TypeOK, Counts
<1>2. Existing' = Existing
  BY DEF Existing
<1>3. RequestsHaveItems' /\ CartsProgress' /\ AbsentIsBlank'
  BY <1>2 DEF IInv, RequestsHaveItems, ItemsLeft, CartsProgress, Pending, Handled, AbsentIsBlank
<1>4. OneOrderPerItem' /\ AnsweredCartIsComplete' /\ UntoldIsLeftBehind' /\ ImportHasRows'
  BY <1>2 DEF IInv, OneOrderPerItem, AnsweredCartIsComplete, UntoldIsLeftBehind, ImportHasRows
<1> QED
  BY <1>1, <1>3, <1>4 DEF IInv

\* What is left of a sheet is a sheet.
LEMMA NextRowType ==
  ASSUME NEW rows \in Seq(Numbers), NEW seen \in SUBSET Numbers
  PROVE  /\ NextRow(rows, seen) \in [rows : Seq(Numbers), seen : SUBSET Numbers]
         /\ NextRow(rows, seen) # NoSheet => NextRow(rows, seen).rows # <<>>
BY DEF NextRow, NoSheet

\* The bounded counts stay within their bounds.
LEMMA CountsGrow ==
  ASSUME done \in Counts
  PROVE  /\ done.forms < MaxForms => [done EXCEPT !.forms = @ + 1] \in Counts
         /\ done.failures < MaxFailures => [done EXCEPT !.failures = @ + 1] \in Counts
         /\ done.removals < MaxRemovals => [done EXCEPT !.removals = @ + 1] \in Counts
<1>1. /\ done.forms \in 0..MaxForms /\ done.failures \in 0..MaxFailures
      /\ done.removals \in 0..MaxRemovals
  BY DEF Counts
<1>2. /\ done.forms < MaxForms => done.forms + 1 \in 0..MaxForms
      /\ done.failures < MaxFailures => done.failures + 1 \in 0..MaxFailures
      /\ done.removals < MaxRemovals => done.removals + 1 \in 0..MaxRemovals
  BY <1>1, IntakeAssumption
<1> QED
  BY <1>2 DEF Counts

\* An import starts,
LEMMA StartingImport ==
  ASSUME IInv, NEW rows \in Sheets, StartImport(rows)
  PROVE  IInv'
<1>1. rows \in Seq(Numbers) /\ Existing \in SUBSET Numbers
  BY IntakeAssumption DEF Numbers, Existing
<1>2. done' \in Counts
  BY Rows, CountsGrow DEF IInv, StartImport
<1>3. sheet' = NextRow(rows, Existing) /\ UNCHANGED <<order, registered, req, answered, failed, removed>>
  BY DEF StartImport
<1> QED
  BY <1>1, <1>2, <1>3, NextRowType, SheetMoves

\* stops,
LEMMA StoppingImport ==
  ASSUME IInv, StopImport
  PROVE  IInv'
<1>1. done' \in Counts
  BY Rows, CountsGrow DEF IInv, StopImport
<1>2. sheet' = NoSheet /\ UNCHANGED <<order, registered, req, answered, failed, removed>>
  BY DEF StopImport
<1>3. NoSheet \in [rows : Seq(Numbers), seen : SUBSET Numbers]
  BY DEF NoSheet
<1> QED
  BY <1>1, <1>2, <1>3, SheetMoves

\* and stores or skips one row after the other.
LEMMA ImportingRow ==
  ASSUME IInv, NEW stored \in BOOLEAN, ImportRow(stored)
  PROVE  IInv'
<1>1. /\ order \in [Numbers -> OrderRows] /\ req \in [Requests -> Reqs]
      /\ sheet \in [rows : Seq(Numbers), seen : SUBSET Numbers] /\ done \in Counts
  BY Rows DEF IInv
<1>2. sheet.rows \in Seq(Numbers) /\ sheet.rows # <<>> /\ sheet.seen \in SUBSET Numbers
  BY <1>1 DEF ImportRow, IInv, ImportHasRows
<1>3. PICK n \in Numbers : n = Head(sheet.rows)
  BY <1>2, HeadTailProperties
<1>4. Tail(sheet.rows) \in Seq(Numbers) /\ sheet.seen \cup {n} \in SUBSET Numbers
  BY <1>2, <1>3, HeadTailProperties
<1>5. sheet' = NextRow(Tail(sheet.rows), sheet.seen \cup {n})
  BY <1>3 DEF ImportRow
<1>6. /\ sheet' \in [rows : Seq(Numbers), seen : SUBSET Numbers]
      /\ sheet' # NoSheet => sheet'.rows # <<>>
  BY <1>4, <1>5, NextRowType
<1>7. UNCHANGED <<registered, req, answered, failed, removed>>
  BY DEF ImportRow
<1>8. done' \in Counts
  <2>1. done' = done \/ (done.failures < MaxFailures /\ done' = [done EXCEPT !.failures = @ + 1])
    BY DEF ImportRow
  <2> QED
    BY <1>1, <2>1, CountsGrow
<1>9. CASE stored /\ n \notin sheet.seen \cup Existing
  <2>1. order' = [order EXCEPT ![n] = [@ EXCEPT !.exists = TRUE, !.imported = TRUE]]
    BY <1>3, <1>9 DEF ImportRow
  <2>2. PICK row \in OrderRows : row = [order[n] EXCEPT !.exists = TRUE, !.imported = TRUE]
    BY <1>1 DEF OrderRows
  <2>3. row.exists /\ row.imported /\ row.item = order[n].item
    BY <1>1, <2>2 DEF OrderRows
  <2>4. row.item = None
    BY <1>9, <2>3 DEF IInv, AbsentIsBlank, Existing
  <2>5. order' = [order EXCEPT ![n] = row]
    BY <1>1, <2>1, <2>2
  <2>6. /\ order' \in [Numbers -> OrderRows] /\ order'[n] = row
        /\ \A m \in Numbers : m # n => order'[m] = order[m]
        /\ Existing' = Existing \cup {n}
        /\ \A y : Handled(y) => Handled(y)'
        /\ OneOrderPerItem' /\ AbsentIsBlank' /\ AnsweredCartIsComplete'
    BY <1>7, <1>9, <2>3, <2>4, <2>5, Adding
  <2>7. TypeOK'
    BY <1>6, <1>7, <1>8, <2>6 DEF IInv, TypeOK, OrderRows, Counts
  <2>8. RequestsHaveItems' /\ ImportHasRows'
    BY <1>6, <1>7 DEF IInv, RequestsHaveItems, ItemsLeft, ImportHasRows
  <2>9. CartsProgress'
    <3>1. \A s \in Requests, c \in Carts : req'[s].cart = c =>
            \A i \in DOMAIN Content[c] : Pending(req'[s], Content[c][i]) \/ Handled(Content[c][i])'
      BY <1>7, <2>6 DEF IInv, CartsProgress
    <3> QED
      BY <3>1 DEF CartsProgress, Pending, Handled
  <2>10. UntoldIsLeftBehind'
    <3>1. \A m \in Existing' : m = n \/ (m \in Existing /\ order'[m] = order[m])
      BY <2>6 DEF Existing
    <3> QED
      BY <1>7, <2>3, <2>6, <3>1 DEF IInv, UntoldIsLeftBehind
  <2> QED
    BY <2>6, <2>7, <2>8, <2>9, <2>10 DEF IInv
<1>10. CASE ~(stored /\ n \notin sheet.seen \cup Existing)
  <2>1. order' = order
    BY <1>3, <1>10 DEF ImportRow
  <2> QED
    BY <1>6, <1>7, <1>8, <2>1, SheetMoves
<1> QED
  BY <1>9, <1>10

\* An order is removed.
LEMMA Removing ==
  ASSUME IInv, NEW n \in Numbers, Remove(n)
  PROVE  IInv'
<1>1. /\ order \in [Numbers -> OrderRows] /\ req \in [Requests -> Reqs] /\ registered \in BOOLEAN
      /\ sheet \in [rows : Seq(Numbers), seen : SUBSET Numbers] /\ answered \subseteq Carts
      /\ done \in Counts /\ failed \subseteq Numbers /\ removed \subseteq Items
  BY Rows DEF IInv
<1>2. /\ UNCHANGED <<registered, sheet, answered>>
      /\ n \in Existing /\ order' = [order EXCEPT ![n] = NoOrder]
      /\ removed' = removed \cup ({order[n].item} \ {None}) /\ failed' = failed \ {n}
      /\ req' = [r \in Requests |-> [req[r] EXCEPT !.created = @ \ {n}]]
  BY DEF Remove
<1>3. done' \in Counts
  BY <1>1, CountsGrow DEF Remove
<1>4. NoOrder \in OrderRows /\ ~NoOrder.exists /\ NoOrder.item = None
  BY DEF NoOrder, OrderRows
<1>5. /\ order' \in [Numbers -> OrderRows] /\ order'[n] = NoOrder
      /\ \A m \in Numbers : m # n => order'[m] = order[m]
  BY <1>1, <1>2, <1>4
<1>6. \A r \in Requests : /\ req'[r] \in Reqs /\ req'[r].created = req[r].created \ {n}
                          /\ req'[r].items = req[r].items /\ req'[r].cart = req[r].cart
                          /\ req'[r].step = req[r].step
  BY <1>1, <1>2 DEF Reqs
<1>7. req' \in [Requests -> Reqs]
  BY <1>2, <1>6
<1>8. Existing' = Existing \ {n} /\ Existing \subseteq Numbers
  BY <1>4, <1>5 DEF Existing
<1>9. \A x \in Items : Handled(x) => Handled(x)'
  <2>1. \A m \in Existing : m # n => m \in Existing' /\ order'[m].item = order[m].item
    BY <1>5, <1>8
  <2>2. None \notin Items
    BY IntakeAssumption
  <2> QED
    BY <1>2, <2>1, <2>2 DEF Handled
<1>10. TypeOK'
  <2>1. order[n].item \in Items \cup {None}
    BY <1>1 DEF OrderRows
  <2>2. removed' \subseteq Items /\ failed' \subseteq Numbers
    BY <1>1, <1>2, <2>1
  <2> QED
    BY <1>1, <1>2, <1>3, <1>5, <1>7, <2>2 DEF TypeOK, OrderRows, Reqs, Counts
<1>11. RequestsHaveItems'
  <2>1. \A r \in Requests : ItemsLeft(req'[r])
    BY <1>6 DEF IInv, RequestsHaveItems, ItemsLeft
  <2> QED
    BY <2>1 DEF RequestsHaveItems, ItemsLeft
<1>12. CartsProgress'
  <2>1. \A r \in Requests, c \in Carts : req'[r].cart = c =>
          \A i \in DOMAIN Content[c] : Pending(req'[r], Content[c][i]) \/ Handled(Content[c][i])'
    <3>1. \A r \in Requests : \A x : Pending(req'[r], x) <=> Pending(req[r], x)
      BY <1>6 DEF Pending
    <3>2. \A c \in Carts : \A i \in DOMAIN Content[c] : Content[c][i] \in Items
      BY CartItems
    <3>3. \A r \in Requests, c \in Carts : req'[r].cart = c =>
            \A i \in DOMAIN Content[c] : Pending(req'[r], Content[c][i]) \/ Handled(Content[c][i])
      BY <1>6, <3>1 DEF IInv, CartsProgress
    <3> QED
      BY <1>9, <3>2, <3>3
  <2> QED
    BY <2>1 DEF CartsProgress, Pending, Handled
<1>13. AbsentIsBlank' /\ ImportHasRows'
  BY <1>2, <1>4, <1>5 DEF IInv, AbsentIsBlank, ImportHasRows
<1>14. OneOrderPerItem'
  BY <1>5, <1>8 DEF IInv, OneOrderPerItem
<1>15. AnsweredCartIsComplete'
  <2>1. \A c \in answered : \A i \in DOMAIN Content[c] : Handled(Content[c][i])
    BY CartsComplete DEF IInv
  <2>2. \A c \in answered' : \A i \in DOMAIN Content[c] : Handled(Content[c][i])'
    BY <1>1, <1>2, <1>9, <2>1, CartItems
  <2> QED
    BY <2>2 DEF AnsweredCartIsComplete, Handled
<1>16. UntoldIsLeftBehind'
  BY <1>2, <1>5, <1>6, <1>8 DEF IInv, UntoldIsLeftBehind
<1> QED
  BY <1>10, <1>11, <1>12, <1>13, <1>14, <1>15, <1>16 DEF IInv

-----------------------------------------------------------------------------
(* The theorems *)

\* Nothing happens.
LEMMA StutterKeeps ==
  ASSUME IInv, UNCHANGED vars
  PROVE  IInv'
<1>1. UNCHANGED <<order, registered, req, sheet, answered, done, failed, removed>>
  BY DEF vars
<1>2. sheet \in [rows : Seq(Numbers), seen : SUBSET Numbers] /\ done \in Counts
  BY Rows DEF IInv
<1> QED
  BY <1>1, <1>2, SheetMoves DEF IInv, ImportHasRows

\* The invariant holds at the start,
LEMMA InitHolds ==
  Init => IInv
<1> SUFFICES ASSUME Init PROVE IInv
  OBVIOUS
<1>1. NoOrder \in OrderRows /\ ~NoOrder.exists /\ NoOrder.item = None
  BY DEF NoOrder, OrderRows
<1>2. NoSheet \in [rows : Seq(Numbers), seen : SUBSET Numbers] /\ done \in Counts
  BY IntakeAssumption DEF NoSheet, Init, Counts
<1>3. TypeOK
  BY <1>1, <1>2, IdleIsRequest, Rows DEF Init
<1>4. Existing = {}
  BY <1>1 DEF Init, Existing
<1>5. RequestsHaveItems
  BY IdleIsRequest DEF Init, RequestsHaveItems
<1>6. CartsProgress
  BY IdleIsRequest, IntakeAssumption DEF Init, CartsProgress
<1>7. AbsentIsBlank /\ ImportHasRows
  BY <1>1 DEF Init, AbsentIsBlank, ImportHasRows
<1>8. OneOrderPerItem /\ AnsweredCartIsComplete /\ UntoldIsLeftBehind
  BY <1>4 DEF Init, OneOrderPerItem, AnsweredCartIsComplete, UntoldIsLeftBehind
<1> QED
  BY <1>3, <1>5, <1>6, <1>7, <1>8 DEF IInv

\* and every step keeps it.
LEMMA StepKeeps ==
  IInv /\ [Next]_vars => IInv'
<1> SUFFICES ASSUME IInv, [Next]_vars PROVE IInv'
  OBVIOUS
<1>1. CASE \E r \in Requests, c \in Carts : SubmitCart(r, c)
  BY <1>1, SubmittingCart
<1>2. CASE \E r \in Requests : \E first \in {"FIND_CUSTOMER", "NUMBER"} : SubmitForm(r, first)
  BY <1>2, SubmittingForm
<1>3. CASE \E r \in Requests : FindCustomer(r)
  BY <1>3, FindingCustomer
<1>4. CASE \E r \in Requests : Register(r)
  BY <1>4, Registering
<1>5. CASE \E r \in Requests : FindItem(r)
  BY <1>5, FindingItem
<1>6. CASE \E r \in Requests : ReadNumber(r)
  BY <1>6, ReadingNumber
<1>7. CASE \E r \in Requests : Insert(r)
  BY <1>7, Inserting
<1>8. CASE \E r \in Requests : Tell(r, TRUE) \/ Tell(r, FALSE)
  BY <1>8, Telling
<1>9. CASE \E r \in Requests : Fail(r)
  BY <1>9, Failing
<1>10. CASE \E rows \in Sheets : StartImport(rows)
  BY <1>10, StartingImport
<1>11. CASE \E stored \in BOOLEAN : ImportRow(stored)
  BY <1>11, ImportingRow
<1>12. CASE StopImport
  BY <1>12, StoppingImport
<1>13. CASE \E n \in Numbers : Remove(n)
  BY <1>13, Removing
<1>14. CASE UNCHANGED vars
  BY <1>14, StutterKeeps
<1> QED
  BY <1>1, <1>2, <1>3, <1>4, <1>5, <1>6, <1>7, <1>8, <1>9, <1>10, <1>11, <1>12, <1>13, <1>14, Zenon
  DEF Next, Work

\* The invariant holds in every state.
THEOREM Inductive == Spec => []IInv
<1>1. Init => IInv
  BY InitHolds
<1>2. IInv /\ [Next]_vars => IInv'
  BY StepKeeps
<1> QED
  BY <1>1, <1>2, PTL DEF Spec

\* The variables keep their types: the numbers, items and accounts that requests and
\* imports hold are ones the tables can store.
THEOREM TypeCorrect == Spec => []TypeOK
<1>1. IInv => TypeOK
  BY DEF IInv
<1> QED
  BY <1>1, Inductive, PTL

\* However often and however overlapped a cart is submitted, an item has one order.
THEOREM OneOrderSafe == Spec => []OneOrderPerItem
<1>1. IInv => OneOrderPerItem
  BY DEF IInv
<1> QED
  BY <1>1, Inductive, PTL

\* A cart that the website has heard succeed has an order for every item of it that
\* nobody deleted.
THEOREM AnsweredSafe == Spec => []AnsweredCartIsComplete
<1>1. IInv => AnsweredCartIsComplete
  BY DEF IInv
<1> QED
  BY <1>1, Inductive, PTL

\* An order nobody was told of is in the hands of a request, or of one that failed.
THEOREM UntoldSafe == Spec => []UntoldIsLeftBehind
<1>1. IInv => UntoldIsLeftBehind
  BY DEF IInv
<1> QED
  BY <1>1, Inductive, PTL
=============================================================================
