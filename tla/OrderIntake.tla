----------------------------- MODULE OrderIntake -----------------------------
(***************************************************************************)
(* How orders come in: a cart of the Ring Builder website, the web form,   *)
(* the order form of the portal, a spreadsheet.  The first three share one *)
(* sequence of PO numbers, read as MAX + 1 some awaits before the order is *)
(* inserted; the rows of a spreadsheet bring their own.                    *)
(*                                                                         *)
(* A request runs step by step; the steps of several requests interleave,  *)
(* and any of them may fail.  The website submits a cart until it hears    *)
(* that it succeeded, perhaps while the server still works on an earlier   *)
(* submission.                                                             *)
(***************************************************************************)
EXTENDS Naturals, Sequences, FiniteSets

CONSTANTS
  Items,       \* externalOrderIds
  Carts,       \* the carts of the website
  Content,     \* the items of each cart, in order
  Sheets,      \* the spreadsheets, each the PO numbers of its rows
  Requests,    \* bound: requests that the server works on at a time
  None,
  MaxOrders,   \* bound: PO numbers
  MaxForms,    \* bound: orders placed on a form, spreadsheets imported
  MaxFailures, \* bound: requests that fail, answers that are lost
  MaxRemovals  \* bound: orders deleted

ASSUME IntakeAssumption ==
  /\ Content \in [Carts -> Seq(Items) \ {<<>>}]  \* "items must be a non-empty array"
  /\ Sheets \subseteq Seq(1..MaxOrders)
  /\ None \notin Items \cup Carts
  /\ MaxOrders \in Nat /\ MaxForms \in Nat /\ MaxFailures \in Nat /\ MaxRemovals \in Nat

VARIABLES
  order,      \* by PO number: is there one, its external id, was anybody told of it
  registered, \* is there an account with the customer's email
  req,        \* what each request is at
  sheet,      \* the import that runs: the rows still to do, the numbers it has seen
  answered,   \* the carts whose success the website has heard of
  done,       \* how many forms, failures and removals there have been
  failed,     \* history: the orders that were in the hands of a request that failed
  removed     \* history: the items an order of which was deleted

vars == <<order, registered, req, sheet, answered, done, failed, removed>>

Numbers == 1..MaxOrders

NoOrder == [exists |-> FALSE, item |-> None, imported |-> FALSE, told |-> FALSE]

Steps == {"IDLE", "FIND_CUSTOMER", "REGISTER", "FIND_ITEM", "NUMBER", "INSERT", "TELL"}

\* The items still to do, one None for a form; the number read; the orders inserted.
NoSheet == [rows |-> <<>>, seen |-> {}]
Idle == [step |-> "IDLE", cart |-> None, items |-> <<>>, number |-> 0, created |-> {}]

TypeOK ==
  /\ order \in [Numbers -> [exists : BOOLEAN, item : Items \cup {None}, imported : BOOLEAN, told : BOOLEAN]]
  /\ registered \in BOOLEAN
  /\ req \in [Requests -> [step : Steps, cart : Carts \cup {None}, items : Seq(Items \cup {None}),
                           number : 0..MaxOrders+1, created : SUBSET Numbers]]
  /\ sheet \in [rows : Seq(Numbers), seen : SUBSET Numbers]
  /\ answered \subseteq Carts
  /\ done \in [forms : 0..MaxForms, failures : 0..MaxFailures, removals : 0..MaxRemovals]
  /\ failed \subseteq Numbers /\ removed \subseteq Items

Init ==
  /\ order = [n \in Numbers |-> NoOrder]
  /\ registered = FALSE
  /\ req = [r \in Requests |-> Idle]
  /\ sheet = NoSheet
  /\ answered = {}
  /\ done = [forms |-> 0, failures |-> 0, removals |-> 0]
  /\ failed = {} /\ removed = {}

Existing == {n \in Numbers : order[n].exists}
Highest == CHOOSE n \in Existing \cup {0} : \A m \in Existing : m <= n

At(r, step) == req[r].step = step
Goto(r, step) == req' = [req EXCEPT ![r].step = step]

\* The request ends with an error.
Abort(r) ==
  /\ req' = [req EXCEPT ![r] = Idle]
  /\ failed' = failed \cup req[r].created

-----------------------------------------------------------------------------
(* Requests come in *)

SubmitCart(r, c) ==
  /\ At(r, "IDLE") /\ c \notin answered
  /\ req' = [req EXCEPT ![r] = [Idle EXCEPT !.step = "FIND_CUSTOMER", !.cart = c, !.items = Content[c]]]
  /\ UNCHANGED <<order, registered, sheet, answered, done, failed, removed>>

\* createFromWebForm looks for the customer first, OrdersService.create takes a number.
SubmitForm(r, first) ==
  /\ At(r, "IDLE") /\ done.forms < MaxForms
  /\ req' = [req EXCEPT ![r] = [Idle EXCEPT !.step = first, !.items = <<None>>]]
  /\ done' = [done EXCEPT !.forms = @ + 1]
  /\ UNCHANGED <<order, registered, sheet, answered, failed, removed>>

-----------------------------------------------------------------------------
(* The steps of a request, one await each *)

AfterCustomer(r) == IF req[r].cart = None THEN "NUMBER" ELSE "FIND_ITEM"

FindCustomer(r) ==
  /\ At(r, "FIND_CUSTOMER")
  /\ Goto(r, IF registered THEN AfterCustomer(r) ELSE "REGISTER")
  /\ UNCHANGED <<order, registered, sheet, answered, done, failed, removed>>

\* The email is unique: another request may have registered it meanwhile.
Register(r) ==
  /\ At(r, "REGISTER")
  /\ IF registered THEN Abort(r) ELSE Goto(r, AfterCustomer(r)) /\ UNCHANGED failed
  /\ registered' = TRUE
  /\ UNCHANGED <<order, sheet, answered, done, removed>>

\* Bug: the loop returns with its first item.
OnlyItem(q) == [q EXCEPT !.items = Tail(@), !.step = "TELL"]

\* The next item, or the notifications if this was the last.  A cart that created
\* nothing tells nobody and is answered at once.
NextItem(q) ==
  [q EXCEPT !.items = Tail(@),
            !.step = IF Len(q.items) > 1 THEN "FIND_ITEM" ELSE "TELL"]

\* An item that has an order already is answered with it.
FindItem(r) ==
  /\ At(r, "FIND_ITEM")
  /\ req' = [req EXCEPT ![r] = IF \E n \in Existing : order[n].item = Head(@.items)
                               THEN NextItem(@) ELSE [@ EXCEPT !.step = "NUMBER"]]
  /\ UNCHANGED <<order, registered, sheet, answered, done, failed, removed>>

\* Bug: the numbers go by the count of the orders.
CountedNumber == Cardinality(Existing) + 1

\* Bug: the maximum of no orders at all is not seen to be NULL.
NumberOfNone == IF Existing = {} THEN None ELSE Highest + 1

\* generatePoNumber
NextNumber == Highest + 1

ReadNumber(r) ==
  /\ At(r, "NUMBER")
  /\ req' = [req EXCEPT ![r].step = "INSERT", ![r].number = NextNumber]
  /\ UNCHANGED <<order, registered, sheet, answered, done, failed, removed>>

\* Bug: no unique index on externalOrderId.
TakenNumber(number, item) == number \in Existing

\* The unique indexes on poNumber and externalOrderId.
Taken(number, item) ==
  \/ number \in Existing
  \/ item # None /\ \E n \in Existing : order[n].item = item

\* Bug: the list of new orders starts again with every item.
CreatedLast(q, number) == {number}

Created(q, number) == q.created \cup {number}

\* The save, and the reference images, which never fail the request.
Insert(r) ==
  LET q == req[r]
  IN  /\ At(r, "INSERT")
      /\ IF Taken(q.number, Head(q.items))
         THEN Abort(r) /\ UNCHANGED order
         ELSE /\ q.number \in Numbers
              /\ order' = [order EXCEPT ![q.number] = [NoOrder EXCEPT !.exists = TRUE, !.item = Head(q.items)]]
              /\ req' = [req EXCEPT ![r] = [NextItem(q) EXCEPT !.created = Created(q, q.number)]]
              /\ UNCHANGED failed
      /\ UNCHANGED <<registered, sheet, answered, done, removed>>

\* Staff and customer are told of the orders created, then the request is answered.
Tell(r, heard) ==
  /\ At(r, "TELL")
  /\ heard \/ done.failures < MaxFailures
  /\ order' = [n \in Numbers |-> IF n \in req[r].created \cap Existing
                                 THEN [order[n] EXCEPT !.told = TRUE] ELSE order[n]]
  /\ req' = [req EXCEPT ![r] = Idle]
  /\ answered' = IF heard /\ req[r].cart # None THEN answered \cup {req[r].cart} ELSE answered
  /\ done' = IF heard THEN done ELSE [done EXCEPT !.failures = @ + 1]
  /\ UNCHANGED <<registered, sheet, failed, removed>>

\* A query fails, or the server is restarted.
Fail(r) ==
  /\ ~At(r, "IDLE") /\ done.failures < MaxFailures
  /\ done' = [done EXCEPT !.failures = @ + 1]
  /\ Abort(r)
  /\ UNCHANGED <<order, registered, sheet, answered, removed>>

-----------------------------------------------------------------------------
(* A spreadsheet is imported, one row after the other *)

NextRow(rows, seen) ==
  IF rows = <<>> THEN NoSheet ELSE [rows |-> rows, seen |-> seen]

\* The PO numbers there are, are read once.
StartImport(rows) ==
  /\ sheet = NoSheet /\ done.forms < MaxForms
  /\ sheet' = NextRow(rows, Existing)
  /\ done' = [done EXCEPT !.forms = @ + 1]
  /\ UNCHANGED <<order, registered, req, answered, failed, removed>>

\* A number that was seen is skipped; an insert that fails, because of the number or
\* for another reason, is reported, and the next row is tried.  Nobody is told.
ImportRow(stored) ==
  LET n == Head(sheet.rows)
  IN  /\ sheet # NoSheet
      /\ order' = IF stored /\ n \notin sheet.seen \cup Existing
                  THEN [order EXCEPT ![n] = [@ EXCEPT !.exists = TRUE, !.imported = TRUE]]
                  ELSE order
      /\ sheet' = NextRow(Tail(sheet.rows), sheet.seen \cup {n})
      /\ stored \/ done.failures < MaxFailures
      /\ done' = IF stored THEN done ELSE [done EXCEPT !.failures = @ + 1]
      /\ UNCHANGED <<registered, req, answered, failed, removed>>

\* The server is restarted.
StopImport ==
  /\ sheet # NoSheet /\ done.failures < MaxFailures
  /\ sheet' = NoSheet
  /\ done' = [done EXCEPT !.failures = @ + 1]
  /\ UNCHANGED <<order, registered, req, answered, failed, removed>>

-----------------------------------------------------------------------------
(* Orders are deleted *)

\* OrdersService.remove; the number may be given again.
Remove(n) ==
  /\ n \in Existing /\ done.removals < MaxRemovals
  /\ order' = [order EXCEPT ![n] = NoOrder]
  /\ removed' = removed \cup ({order[n].item} \ {None})
  /\ failed' = failed \ {n}
  /\ req' = [r \in Requests |-> [req[r] EXCEPT !.created = @ \ {n}]]
  /\ done' = [done EXCEPT !.removals = @ + 1]
  /\ UNCHANGED <<registered, sheet, answered>>

-----------------------------------------------------------------------------

Work(r) ==
  FindCustomer(r) \/ Register(r) \/ FindItem(r) \/ ReadNumber(r) \/ Insert(r) \/ Tell(r, TRUE)

Next ==
  \/ \E r \in Requests :
       \/ \E c \in Carts : SubmitCart(r, c)
       \/ \E first \in {"FIND_CUSTOMER", "NUMBER"} : SubmitForm(r, first)
       \/ Work(r) \/ Tell(r, FALSE) \/ Fail(r)
  \/ \E rows \in Sheets : StartImport(rows)
  \/ \E stored \in BOOLEAN : ImportRow(stored)
  \/ StopImport
  \/ \E n \in Numbers : Remove(n)

\* The server works on, and the website submits again what it has no answer to.
Fairness ==
  /\ \A r \in Requests : WF_vars(Work(r))
  /\ \A c \in Carts : WF_vars(\E r \in Requests : SubmitCart(r, c))

Spec == Init /\ [][Next]_vars /\ Fairness

-----------------------------------------------------------------------------
(* What holds *)

\* createFromRingBuilder: a submission that is repeated, even while the first one is
\* still being worked on, creates no second order for an item.
OneOrderPerItem ==
  \A m, n \in Existing : order[m].item # None /\ order[m].item = order[n].item => m = n

\* A cart that the website believes to have succeeded has an order for every item,
\* whichever of its submissions created it.
AnsweredCartIsComplete ==
  \A c \in answered : \A i \in DOMAIN Content[c] :
    \/ Content[c][i] \in removed
    \/ \E n \in Existing : order[n].item = Content[c][i]

\* An order that nobody was told of is either still in the hands of its request or
\* was left behind by one that failed: carts that go through tell of all they created.
UntoldIsLeftBehind ==
  \A n \in Existing : ~order[n].told /\ ~order[n].imported =>
    n \in failed \/ \E r \in Requests : n \in req[r].created

\* Numbers that collide and accounts that are registered twice fail requests, but
\* not for ever: every cart is complete in the end.
EveryCartIsAnswered == \A c \in Carts : <>(c \in answered)
=============================================================================
