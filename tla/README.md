# Verification of the custom-jewelry order system

TLA+ models, TLC runs and TLAPS proofs for the NestJS backend under `src/backend` and
for the pages under `src/frontend` that drive it. The subject is the life of an order:
how it comes in, how the many handlers move it, what they may leave behind, what the
event log says of it, who is shown it, and which promises of the comments, the entity
and the tests are kept.

## 1. Inventory

The backend is one Node process with TypeORM on PostgreSQL. It opens no transaction of
its own: a handler is a sequence of awaited queries, and every `await` is a point where
another request, a cron job or a socket event runs. Two styles of write exist side by
side: `repo.update(id, {...})` writes the named columns, `repo.save(entity)` writes back
the whole row that was read earlier. The audit log (`order_events`), most e-mails,
notifications and webhooks are fire-and-forget. The frontend is a Next.js application
whose pages hold rows in component state, mostly without numbering their requests.

| Component | State | Operations | Hard part | Correct when |
|---|---|---|---|---|
| Order workflow, `orders.service.ts` | the row of `orders`: status, archive flag, closure reason, price, SKU, supplier, dates | create, update (auto-send), updateStatus (cancel, reverts, VPO, repair, manufactured, completed), reactivate, close, auto-archive, assign supplier | a dozen writers of the same columns; reactivation depends on the log | nothing in production without SKU and date; reactivation restores; closures hold |
| CAD workflow, `cad.service.ts` | `cad_files`; cadSubStatus, sentToCustomer, approval flags of the order | upload, send, approve, reject, revise, set sub-stage, resync, reminders, surveys | columns cache what the files say; approvals check no status | the cache never hides a missing approval; production is not undone by a file operation |
| Tracking page, `public-orders.service.ts` | the same row and files | web form, approve, reject, survey, feedback | a second approval path with different writes | agrees with the staff path |
| Order intake: Ring Builder, web form, portal, spreadsheet | PO numbers, external ids, accounts | cart, form, import | retries, a failure in mid-cart, MAX + 1 | one order per item, complete answers, nobody forgotten |
| Manufacturing, repairs | stoneReceived, status | stone received, complete | a second way to MANUFACTURED and to COMPLETED with other checks | same preconditions on both ways |
| Approval stall | two clocks, survey and reminder stamps | daily jobs at nine and ten | clocks with different resets | a silent project is archived, a quiet customer is asked |
| Users and companies, `users.service.ts` | accounts, companies, their copies on orders | create, join, change of rep, merges, healing views | every copy is updated by hand | the copies agree; the list and the page agree |
| Messages, `messages.*` and `OrderConversation` | messages, rooms, a thread per tab | post, list, push, join, reconnect | list, push and reload do not wait for each other | nothing twice, nothing hidden shown, nothing missed |
| Order page, list, desks of the frontend | rows in memory, busy flags, ticks | load, click, answer | late answers, lost answers, stale closures; two sets of guards | what is shown is what was asked for; what is offered is accepted |
| SKU generation | `skus` and a column | generate | two writes | numbers unique and never lost |
| Event log, `order_events` | a row per move | written by every service | who forgets to | the newest event is the status |
| Authentication, notifications, catalog, to-dos | rows of their own | reads and writes | little interaction | not modelled, see 6 |
| E-mail, storage, search, reports, PDFs | none or derived | formatting, I/O | none of state | not modelled, see 6 |

`PROJECT.json` lists every component with its sources and status, and under `hazards`
each thing in this code a test would hardly reach, at its line.

## 2. Modules

| Module | What it is |
|---|---|
| `OrderRow` | The columns the workflow reads and writes as a record, the statuses, and for each handler what it does to the row it is given. No variables. |
| `OrderLifecycle` | One order and its design files; one action per handler of OrdersService, CadService, PublicOrdersService, ManufacturingService, RepairsService, the boot-time cleanup and the nightly archive. |
| `OrderStages` | The abstract promise: eight steps over the stage of an order, whether it has a SKU, and what it resumes. |
| `OrderLog` | The workflow with the event log beside it: which handler logs the status it leads to. |
| `OrderRequests` | The same handlers as requests that overlap: split at every query that matters, with rows held in memory and saved late, failures half-way and restarts. |
| `ApprovalStall` | The workflow with its two clocks, the survey, the reminders and the daily jobs; time passes in days. |
| `OrderDesks` | The workflow driven by the buttons the pages show to each role, and nothing else. |
| `OrderIntake` | Carts, forms and a spreadsheet on their way to orders, query by query, with failures, restarts and repeated submissions. |
| `Accounts` | Accounts, companies and the copies of company and representative on orders; every operation and repair of them. |
| `Conversation` | The thread of one order on the server, in the socket rooms and in browser tabs. |
| `OrderPage`, `OrderListPage` | One browser tab each: what is on screen, which requests wait, which buttons are busy. |
| `MC...` | The modules TLC is run on: constants that a `.cfg` cannot write, sets of handlers, symmetries. |
| `...Proofs` | The theorems, beside the module they are about. |

`OrderRow` is separate so that the module which runs the handlers on stale rows shares
what they write with the one that runs them atomically, and so that the proofs about both
share the lemmas. `OrderLog`, `ApprovalStall` and `OrderDesks` extend `OrderLifecycle`:
each adds its variables to the steps of the same actions, so that a handler is written
down once.

### The workflow

`ord` is the row of `orders`. A date is modelled by whether it is set
(`vpoIssuedAt`, `completedAt`, `awaitingApprovalSince`), `kiraSkuNumber` by
whether a SKU was stored, `quotedCost` by whether a positive price was stored.
`closureReason` is NULL, "CUSTOMER" (any of `CLOSURE_REASON_OPTIONS`) or "AUTO"
(`AUTO_ARCHIVE_REASON`). `file` maps the design files to their status; a larger
number is a later `createdAt`. Reference images live in the same table, but every
modelled handler filters them out. `lastCancelFrom` is what the query of
`reactivateOrder` over `order_events` would return: the `fromStatus` of the
newest logged move to CANCELLED that did not start in CANCELLED.

`before` and `customerClosed` are history variables. They are driven by `Observe`,
which looks at the rows before and after a step and never at the handler, so that
a property that uses them does not assume what it is to check.

Each action is a whole handler, with all its writes, in this module without
interruption. Where a handler can fail after some of its writes, that is an
outcome of the action: `IssueVpo` with an unknown customer number keeps the SKU
and the file approvals and changes nothing else; `Approve` without a SKU keeps
the approval flags.

What the model takes from outside the handler:

* Roles are a guard only where they change the effect. `MarkManufactured` and
  `CompleteManufacturing` distinguish a Factory Manager of the assigned factory
  ("FACTORY") from everybody else the controllers admit ("STAFF").
* `PUT /orders/:id` and `POST /orders` accept the body they are given; the model
  covers what the pages send (a quote, a supplier edit, a new order without a
  status). `EditSupplier` has the guard of the page, which offers the fields only
  after the CAD stages.
* A price is positive, as the page requires.
* `SHIPPED` is in the enumeration and in `ALLOWED_TRANSITIONS` as a source, but no
  transition leads there: `NeverShipped` is part of the invariant.
* Imported rows (`Origins` containing "IMPORT") may start in any status without
  SKU, dates or log. The safety properties that do not survive this say so: with
  no logged cancellation `reactivateOrder` falls back to NEW, and a row imported
  as sent has no auto-archive clock.

### Requests that overlap

In `OrderRequests` a request is at the query it will issue next (`req[r].at`) and
carries what it has read: `row`, the entity as it will be saved; `from`, a status it
remembers; `target` and `ids`, what it will write to files. The shapes are those of
the code:

* `Load`, `Save`: `findOne`, checks, changes in memory, `save`. TypeORM's `save`
  writes the columns that differ from the stored row, so the row in memory ends up
  stored whole and columns written in between are reverted; `Save` is
  `ord' = row`. `update()` with a price goes on to `FindForQuote`, `AutoSend`, `Mark`.
* `Check`, (`Verify`, `LookUp`,) `Reload`, `Save`: `updateStatus` and `reactivateOrder`
  check one row, and `update()` reads it again and saves that one.
* `FindFile`, `Mark`, then `Flag`, `Look`, `Issue` and so on: the CAD handlers, which
  save the file and update named columns of the order.
* `InsertSku`, `StoreSku`: the two writes of `SkuService.generate`. `skuRow` says whether
  `skus` holds the order's number; it is unique, so a second insert fails. Another
  order may have the number too, so an insert may always fail.

Reads that follow one another with no decision in between, and reads whose result
the rest does not use, are one step. An upload is one file and its batch
notification. The audit log is still written with the save it belongs to. The
boot-time cleanup belongs to `Restart`; `backfillStuckCadApprovals`, one
administrator's repair, is only in `OrderLifecycle`. Imports are left out: they insert
rows and never touch one that exists. `committed` is a history variable: with one request at a time
it holds the tables as they were between two requests.

### The event log

`logged` is the `toStatus` of the newest STATUS_CHANGE event. `LoggedMove` lists the
handlers that write such an event, `Unlogged` those that return before it, fail, or never
write one; together they are the steps of `OrderLifecycle`. `lastCancelFrom` is what
`reactivateOrder` reads of the same log. An event is written with its step: the window in
which an event is still in flight is listed as a hazard and not modelled.

### Clocks

A date is an age: the mornings since it was set. `lastApprovalEmailAt` is `emailAge`,
`awaitingApprovalSince` is `awaitAge`. `Morning(ran)` is a night: the stall check at nine
(surveys, then reminders) and the archive at ten, each if it ran; a job that finds the
server down is not made up for. People act between mornings, with every action of
`OrderLifecycle` sorted by what it does to the clocks: start, keep or mail again.
Cancelling and `reactivateOrder` keep them. `reprieve` is a history variable: the mornings
since a project was last reopened after an automatic archive. A survey may be answered
whenever its link is at hand, as `submitApprovalStallSurvey` looks at nothing. The
manual reminder is split at the mail server, since its limit is checked before and stamped
after. `BusinessDays` counts as `businessDaysElapsed` does, over a week of `Week` days.

### Intake

A request is at its next query (`step`) with the items still to do, the number it has read
and the orders it has created (`created`). `SubmitCart` may come again while an earlier
submission of the cart is being worked on; the website stops once it has heard a success
(`answered`). `Taken` stands for the two unique indexes. `generatePoNumber` is
`NextNumber`, some awaits before the insert. An import reads the numbers once, then
inserts row after row and tells nobody. Deleting the newest order makes its number free
again. A request that is cut off leaves its orders to `failed`, a history variable.

### Accounts

An account is its email. Names are abstracted: which accounts or companies share a name is
any choice, which covers every way the repairs group them. Each action is one whole call,
with the updates of all tables. `Listed` and `Opens` are the two filters that decide what a
sales representative sees: one in the list's query, one in `findOne`. `resolved` is a history
variable, written by `Next` beside the operations: the companies into which an administrator
has resolved a group by hand. A merge is one step: what other requests see between its
queries is not modelled. Two branches of `update`
have no action: a `companyId` of null and a changed email. The customers page sends neither;
both would leave the account's orders with the old company or the old email.

### Conversation

Server, network and browser are separate: `Store` and `Broadcast` are the two halves of a
post, `Answer` and `ReceiveList` those of a list, `JoinOrder` comes after the socket has
been authenticated or is lost. A list answered with an error empties the thread
(`ReceiveError`); one that is rejected leaves it as it is and a `send` that awaited it
hanging (`LoseList`). `lapse` is a history variable: since its last list, the
thread may have missed something for a reason the code does not repair (a dropped
connection is not joined again; a list that was answered before a push replaces it). The
users outside `Tabs` are represented by their posts, as browsers meet only in what they
store.

### Pages

`OrderPage` and `OrderListPage` reduce data to what it belongs to: the order a row is of,
the view a list is of. `fetches`, `task` and `loads` are the requests that wait; answers
come in any order, with an error, or not at all. In `OrderPage` the handlers that share a
busy flag are one, and `Unguarded` names those without `try/finally`. In `OrderListPage`
a handler keeps the filter and page of the rendering it was clicked in (`bulk`, `saving`).

`OrderDesks` translates the guards of the buttons: `MoveShown`, `ReviewShown`,
`AssignShown` and so on, for each role, next to what the button asks the backend for. `BulkShown` is wider
than the roles in the source: an Admin may grant a user of any role the bulk actions
(`extraPermissions`), and only a factory's page hides the bar all the same. The module
takes a page to show the row as it is, `saveQuotedPrice`'s two requests to be one step, and
staff of a factory or supplier to be those the order is assigned to. Deletion of the order,
the status override with MARK_STONE_RECEIVED and the repairs page are left out.

## 3. Runs

| Run | Instance | Shows |
|---|---|---|
| `order_lifecycle` | 1 design file, 1 factory, 1 supplier, Ring Builder order, with stone and mounting-only | `TypeOK`, `ProductionIsIssued`, `LogTellsStatus`, `ReactivationRestores`, `CustomerClosureHolds`, `ImplementsStages` |
| `two_designs` | 2 design files, no suppliers, portal order | `SentOrdersHaveClock`, `ApprovedStageHasApproval`, `OnlyDecisionsReopenDesign` |
| `serial_requests` | 1 request, all handlers but four | `TypeOK`, `SerialIsAtomic` |
| `overlapping_requests` | 2 requests, the 9 handlers of CAD approval, restarts | `SentOrdersHaveClock`, `ApprovedStageHasApproval` |
| `issued_has_sku` | 2 requests, the way to Awaiting Approval and closing | `IssuedHasSku`, violated |
| `approval_stall` | 1 file, a week of 3 days, an order in CAD or cancelled | `ReopenedHasItsPeriod`, `UnansweredIsArchived`, `QuietCustomerIsAsked` |
| `order_desks` | 1 file, 1 factory, 2 suppliers, every role | `OffersAreAccepted`, `ProductionIsSomeonesWork`, `ManufacturedHasSupplier`, `SelfReactivationIsNarrow` |
| `order_intake` | 1 cart of 2 items, 2 requests, 1 sheet of 2 rows | `TypeOK`, `OneOrderPerItem`, `AnsweredCartIsComplete`, `UntoldIsLeftBehind`, `EveryCartIsAnswered` |
| `accounts` | 3 accounts, 3 companies, 1 order, 2 representatives | `TypeOK`, `MembersHaveCompany`, `OrdersFollowTheirCustomer`, `RepFindsOrders`, `OnlyResolutionDrifts` |
| `conversation` | 2 writers, the tab of a factory manager, 2 messages, 2 loads, 1 drop | `NoDuplicates`, `OnlyVisibleShown`, `SettledThreadIsComplete` |
| `order_page` | 2 orders, 3 openings, 2 handlers at a time | `OnlyLateAnswersMix`, `LoadingEnds`, `ButtonsComeBack` |
| `order_list_page` | 1 order, 2 filters, 2 pages, 3 loads at a time | `RowsFollowView`, `OnlySecondAnswersHideTicks`, `LoadingEnds` |

### The properties, and why they are not obvious

The workflow:

* `ProductionIsIssued`. VPO_ISSUED is entered by staff, by the approval of a design, by a
  revert and by a reactivation; the SKU and the overdue clock are written by different
  handlers, and `setSubStage` and the revert clear the clock.
* `SentOrdersHaveClock`. Five handlers write `sentToCustomer`; the nightly archive only
  sees orders whose clock is set.
* `ApprovedStageHasApproval`. Two columns, cleared by different handlers.
* `ReactivationRestores`. Staff and a CAD rejection cancel, in either order and repeatedly;
  reactivation reads the log, not the row.
* `CustomerClosureHolds`. A customer's closure survives the nightly job and the self-service
  reactivation, even when an earlier automatic archive left its mark.
* `OnlyDecisionsReopenDesign`. Late uploads, sends and answers to other files never pull an
  order out of production or take back an approval.
* `LogTellsStatus`. Each service writes its own events, some before an early return. The
  audit log tells the present status, but for four moves nobody logs (`UnloggedMoves`).
* `ImplementsStages`. The whole workflow refines `OrderStages`, with the status as the stage
  and `lastCancelFrom` as the stage to resume.
* `SerialIsAtomic`. The many small steps of a request, its early returns and its failures
  half-way add up to one step of `OrderLifecycle` or to none. So what is checked and proved
  of the handlers as actions holds of the code as it is written, as long as requests do not
  overlap.
* The two properties of `overlapping_requests` are those of `two_designs`, now with rows
  that were read long before they are saved and requests that die between two writes. They
  survive because each writer keeps the columns it relates together; other promises do not.

The clocks:

* `UnansweredIsArchived`. Surveys, manual reminders, uploads and failed mornings do not
  save a silent project from the archive; sending it again, resyncing and reopening do.
* `QuietCustomerIsAsked`. The queries ask for "at least so many days", so a job that misses
  the day makes up for it later.
* `ReopenedHasItsPeriod`. A project that is reopened after an automatic archive has its whole
  period again: its clock is restarted, and nothing that happens later, neither uploads nor
  a customer's closure nor a cancellation that an Admin takes back, makes it older than the
  reopening. What an Admin reactivates straight out of the archive is not reopened in this
  sense; it keeps its old clock (`LeavesArchiveWithTime`, below).

The desks:

* `OffersAreAccepted`. The frontend repeats the backend's checks in its own tables; where
  the two differ a user meets a button that fails. Three cases where they do are left out in
  the property, by name.
* `ProductionIsSomeonesWork`. After any edit, revert or reactivation, somebody other than an
  administrator has a button that takes the order on. Left out: a mounting-only order that
  has a factory, for which the manufacturing desk waits for a stone supplier it never gets.
* `ManufacturedHasSupplier`, `SelfReactivationIsNarrow`. Two checks that one endpoint makes
  and the other leaves out; with the pages in front of them they hold.

Intake, accounts, conversation:

* `OneOrderPerItem`, `AnsweredCartIsComplete`, `UntoldIsLeftBehind`, `EveryCartIsAnswered`.
  A cart is submitted until it is answered; two submissions race for the items, for the
  account and for the PO number, and an import takes numbers out of the sequence. Every
  collision fails a request, no collision duplicates or loses an order, and retries get
  through. Orders that nobody was told of exist, but only after a failed request.
* `MembersHaveCompany`, `OrdersFollowTheirCustomer`, `OnlyResolutionDrifts`. Twenty
  operations copy a company's representative by hand; company and members come apart in one
  of them only.
* `RepFindsOrders`. The list follows the order's copy or the company's, the order page the
  order's or the members', and the order's own is often old. What a representative may
  open, and what their customers have ordered on the portal, is in the list all the same, as
  long as no group was resolved into the order's company: every operation would have to
  leave one copy behind for an order to be hidden. After a resolution under another
  representative some are.
* `NoDuplicates`, `OnlyVisibleShown`, `SettledThreadIsComplete`. Three channels bring the
  same messages in any order. A thread whose last list was not overtaken is complete.

The pages:

* `OnlyLateAnswersMix`. The page is one component for all orders; aborting loads at a change
  of order suffices against loads, not against handlers that still wait.
* `ButtonsComeBack`, `LoadingEnds`. Whatever fails or never answers.
* `RowsFollowView`, `OnlySecondAnswersHideTicks`. Loads are not numbered. The rows fit the
  view as long as no answer was overtaken, and a tick on a hidden order, which the bulk bar
  would cancel or delete, needs a second answer to a load.

### Bounds

*Workflow.* One file makes every status of a file and every handler reachable; two files are
what the properties over several files need (an approved and a sent file, a newest and an
older one), and no handler relates three. One factory and one supplier suffice because rows
never compare them; the desks have two suppliers, as one of them has a button of its own.
Handlers are never bounded in number: the state is finite, so the runs cover histories of
any length.

*Overlap.* A lost update needs two requests: one that holds a row and one that writes. Two
also bring out every pair of handlers in every order; the theorems cover any number. The
symmetry of requests is sound because nothing names one. `overlapping_requests` leaves out
handlers that write none of the four columns its properties relate, except for `SaveQuote`,
which stands for all that save a stale row, and `RevertToCad`, which stands for those that
change the status. `serial_requests` leaves out `EditSupplier`, `MarkStoneSent`,
`CompleteManufacturing` and `UpdateQuoteOptions`, which have the shape of the savers it keeps.

*Clocks.* A week of two business days and a day off, with the survey after one business day,
its reminder after two and the archive after two days, has every order of those events and a
weekend in each gap; the real 5, 10 and 30 only make the gaps longer. Ages stop at the
largest threshold, beyond which no query distinguishes them. An order is followed while it is
in CAD_IN_PROGRESS or cancelled out of it, and without a SKU (`Looked`, `Skus`): in any
other stage no clock is looked at, and the ways back into CAD take the sending back
(`RevertToCad`, `RequestRevision`) or start the clock (`SetSubStage`). Mounting-only suffices, as no clock asks for stones. The handlers past
CAD (`Produce`) cannot act within this bound; the theorems about `StallSpec` have none.

*Intake.* A cart of two items has a middle to fail in. Two requests are what a retry and the
submission it repeats need. The first row of the sheet takes a number the sequence may have
read and not yet used, the second one it has used. Six numbers are never exhausted by two
items, two forms and two rows.

*Accounts.* Merging needs two companies, and a third shows what it does to others; three
accounts are two colleagues and a newcomer; two representatives can differ. Orders do not
interact, so one stands for all.

*Conversation.* Browsers do not interact, so one tab, with the reader who may not see
everything, and an author who may. Two messages can be swapped or shown twice; two loads can
overtake each other; one drop is one lapse.

*Pages.* Two orders and three openings are there and back again. For the list, one order can
be on or off screen, two filters and two pages are all a view can differ in, and three loads
are what the end of a bulk action asks for at once.

### Fairness

* `approval_stall`: neither daily job misses every morning (`@nestjs/schedule`, a process that
  is restarted when it fails), weak fairness on the day for the mornings each runs; so time
  passes. Nobody is obliged to act.
* `order_intake`: a request that is being worked on goes on, and the website submits again
  what it has no success for, which is what `ring-builder-orders.service.ts:254` expects of
  it ("a retried submission"). Failures and removals are finitely many.
* `order_page`, `order_list_page`: a request is answered or fails some time. No click is fair.

The other runs have safety properties only. Deadlock is checked in the runs of the
workflow, its clocks, its desks and the list page; the others may stop, when their bounds are
used up or nothing waits.

### Where the code and its comments differ

With a run:

* `issued_has_sku`: an approval generates the SKU and issues the VPO. A quote saved in
  between writes back a row without the SKU; the VPO is issued without one, and the unique
  number in `skus` keeps it from being generated again.

Stated in the modules, found by TLC and not kept as runs. For several of them a theorem of
section 4, named in brackets, says how far the comment can be trusted.

* `CompletedIsFinal`: the entity says COMPLETED has no outgoing transition and `completedAt`
  is write-once. `requestRevision`, `approve` and `reject` check no status, and cancelling is
  allowed from any. [`CompletedIsLeft`]
* `ArchivedOnlyBeforeVpo`: the list scope relies on archived projects being still in CAD. The
  approval of an archived project starts its production.
* `SubStageInSync`: setting PENDING_CAD on an order that has a design, or any other stage on
  one that has none, leaves what the next resync overturns. [`CorrectionsAgree`]
* `NoStageSkipping`: the guard against skipping stages looks at a row that is read again
  before it is saved. A change that was checked before a cancellation lands after it.
  [`SerialNoStageSkipping`]
* `ClosingKeepsStatus`: closing is to leave the status as it is, and saves the status the
  customer's request had read. [`SerialClosingKeepsStatus`]
* `EveryMoveIsLogged`: the comment in `updateStatus` about the cancellation that "wasn't
  logged at all, unlike every other one". Sending to repair returns before the event;
  `sendForApproval` and `RepairsService.complete` never write one; a rejection of a cancelled
  order logs CANCELLED to CANCELLED. [`MovesAreLogged`]
* `SentDesignsAreReviewable` (`OrderDesks`): the order page says the customer can review the
  designs once the order was sent; an upload that follows is not sent.
* `ArchivedUnanswered`, `FreshEmailStartsOver`, `LeavesArchiveWithTime`, `OneReminderPerDay`
  (`ApprovalStall`): the archive looks at one of the two approval flags and not at requests
  for revision; the auto-send of a quote refreshes the email date and keeps the old survey;
  an order that was archived automatically, cancelled and reactivated by an Admin, or closed
  by its customer for longer than the period and reopened, leaves the archive with its old
  clock and returns there with the next run; two reminders that wait for the mail server
  together are both sent. [`QuotesMailAgain`, on the second; `ReopenedSafe`, on the third]
* `RepSeesEveryOrder`, `ListedIsOpenable` (`Accounts`): an account without a company that
  gets a representative later, and orders of companies whose members have none.
  [`RepFindsSafe`]
* `JoinedWhileMounted` (`Conversation`): a socket that reconnects does not join again, and a
  join that arrives while the user is still looked up is ignored. [`RoomIsLost`]
* `MismatchIsSaid`, `EmptyPageHasAWayBack` (`OrderListPage`): an overtaken answer shows another
  tab's rows; an empty page that is not the first has no page numbers.

Noticed while reading, outside what the modules state:

* Nothing ever logs SHIPPED, so the weekly report's shipping times and on-time share are
  empty; its design time is negative after a revert and its manufacturing time after an
  edited supplier, which is not logged as an assignment; reverts to VPO count as approvals.
* `RepairsService.complete` writes no `completedAt`: the feedback digest never asks.
* The badges of the list are not refreshed after a bulk action, and the CAD designer's badges
  count NEW orders, which the tab does not list.
* The customer's order page and the pipeline board show "Loading" for ever when a fetch is
  rejected, the case the customers page handles with a comment.
* "Seen by" takes a reader's last visit to have covered all earlier messages; one stored
  between her list and her PATCH was not in it.
* A spreadsheet row whose PO number the sequence has already handed out is skipped silently.

## 4. Proofs

The theorems hold for every value of the constants that the named assumptions allow, so for
any number of files, factories, requests, orders, accounts, loads and failures. Every proof
has the same shape: an invariant `IInv` that is inductive, one lemma per action, and a
temporal step by PTL. TLC agreed with each invariant before it was proved.

**`OrderLifecycleProofs`**, from `RowAssumption` and `NoneIsNoStatus`: `TypeCorrect`,
`Inductive`, `ProductionSafe`, `ClosureSafe` (`CustomerClosureHolds`), `DesignSafe`
(`OnlyDecisionsReopenDesign`), `ApprovalSafe` (`ApprovedStageHasApproval`); and, with
`"IMPORT" \notin Origins`, `ClockSafe`, `ReactivationSafe` and `Refinement`
(`Spec => ImplementsStages`).

`ProductionIsIssued` alone is not inductive. A cancelled order can be reactivated into
production, so the invariant must say that what the log would restore was issued and is
still dated (`ResumedIsIssued`); for that, that the log of a cancelled order tells the truth
(`CancellationIsLogged`), and that SHIPPED and CANCELLED are never restored
(`NeverShipped`). `CustomerClosureHolds` needs `ClosureIsRecorded`: as long as a customer's
closure stands, `closureReason` is the customer's. The refinement maps each action to a step
of `OrderStages` or to a stutter. Imports are excluded where an imported row breaks the
property by itself.

Two theorems draw the line where a comment stops being true. `CorrectionsAgree`: `setSubStage`
leaves columns and files in agreement except where "pending CAD" meets a design or another
sub-stage meets none, and the resync always does. `CompletedIsLeft`: only a cancellation or a
review of a design (`ReviewOrCancel`) takes an order out of COMPLETED.

The same module proves that whatever extends the workflow keeps it, so that what is proved
of `Spec` is not proved three times.

* *The event log.* `LogKeepsLifecycle` (`LogSpec => Spec`: the log adds nothing to the
  workflow, so every theorem above holds of the specification the runs use), `LogTells`
  (`LogTellsStatus`), `MovesAreLogged`: a change of status is logged with its step, but for
  the first sending and the two moves of the repair desk (`SilentMoves`). `LogTells` says what
  the log holds, `MovesAreLogged` what each step adds to it.
* *The pages.* `DesksInductive` and `DeskRefinement`: under `DeskSpec` the same invariant and
  the same abstract stages, although the order page saves a price and sends the designs in
  one step, which is no step of `Next` (`QuotedKeeps`). `DeskStepIsStep` finds for each
  button the handler it calls and keeps what the page looked at before it offered the
  button; that is what `SupplierSafe` (`ManufacturedHasSupplier`) and `NarrowSafe`
  (`SelfReactivationIsNarrow`) rest on, as the handlers alone satisfy neither. `WorkSafe`
  (`ProductionIsSomeonesWork`) names the button: the authorizer's assignment, the stone
  desk's or the factory's, by what the order lacks. `OffersAreTaken` goes the other way: when
  a button is shown, the change it asks for (`MovedTo` and its like) is a step of the handler
  behind it, as the guards of the page imply the handler's.
* *The clocks*, from `StallAssumption`. `StallRefinement` (`StallSpec => Spec`): a morning is
  a step of the archive or none, and what people do are the handlers' steps;
  `StallTypeCorrect`; `ReopenedSafe` (`ReopenedHasItsPeriod`) for periods of any length. It
  is not inductive by itself: the strengthening `ClockIsYounger` says that the clock is never
  older than the last reopening, which holds because a project reopened after an automatic
  archive gets a new one (`ReopeningStartsClock`), and because nothing a person does makes a
  clock older (`PeopleKeepAge`), cancelling and reactivating included. `ArchiveComesCloser` is what of
  `UnansweredIsArchived` needs no fairness: nothing but a fresh start turns the clock of a
  waiting project back, and every run of the job archives it or brings that a day closer.
  `QuotesMailAgain`: a fresh email starts the survey over, except the auto-send of a quote.
  `StallAssumption` asks of `None` that it is no number of days, as SQL's NULL is none.

**`OrderRequestsProofs`**, from `RequestAssumption`, for any set of requests, any choice of
handlers, with or without restarts: `TypeCorrect`, `Inductive`, `ClockSafe`,
`ApprovalSafe`. The two safety properties are not inductive when rows are saved late, as the
row in memory could be any. `IInv` says of every row that a request will save what it says
of the stored one, and, for each query, what else the request carries (`Carries`).

The second part of the module is about one request at a time (`Requests = {r}`).
`SerialSafe` (with `Restarts = FALSE`): `Spec => SerialIsAtomic`, the refinement that makes
the theorems of `OrderLifecycleProofs` statements about the code, as long as requests do not
overlap. What a request has written is not the abstract step until its last query, so
`IInv` does not help: the strengthening `SerialInv` says how far the handler has got
(`Begun`), with a predicate per handler or family of handlers for each query it may be at:
what the tables hold by then, and what the request carries, in terms of what they held when
it began. One lemma per stage (`ArrivalServes`, `MovingServes`, `IssuingServes`, ...) shows
that the next query leads to the next stage, gives up without a trace (`GivesUp`), or ends
in a step of `OrderLifecycle` (`Ends`). A restart between two queries keeps `SerialInv` and
breaks the refinement.

The same invariant proves that two comments of the code are true of requests that do not
overlap. `SerialClosingKeepsStatus`: closing a project saves the status that is stored.
`SerialNoStageSkipping`: `updateStatus` skips no stage, where no order is the Ring Builder's,
which an Admin may complete early.

A restart breaks the refinement of `OrderLifecycle`, but not that of the abstract stages.
`CrashKeepsStages` (`Spec => Stages!Spec`, with or without restarts): the stored rows follow
`OrderStages` query by query, also those of a handler that was cut off.
`CrashKeepsProduction`: `ProductionIsIssued` holds at every query. Each query has to keep the
promise by itself (`KeepsOrder`); the strengthening (`StagesOK`, `DatesOK`) says that an
order in production, and one a reactivation would resume there, has its SKU and its date.
`SerialIssuedHasSku` is a consequence: an order issued without its SKU takes two requests, as
in the counterexample of `issued_has_sku`.

The third part is about any number of requests again, of handlers that write named columns
only (`ColumnHandlers`: those of `CadService`, and a rejection on the tracking page).
`ColumnsKeepSku`: however they overlap and wherever restarts cut them off, no VPO is issued
without its SKU. The strengthening `SkuFirst` says that a request about to issue the VPO has
a SKU in the row. `ColumnsKeepStages` and `ColumnsKeepProduction`: without the rejection of
`CadService` they keep `OrderStages` and `ProductionIsIssued` too, under any overlap. That
rejection logs the stage it read, which the order may have left by then, and a reactivation
restores what the log says. Adding one handler that saves the row whole (`updateQuoteOptions`, or an
approval on the tracking page) is enough for a counterexample: it is the saving of whole
rows, and not the overlap, that loses a SKU.

**`OrderIntakeProofs`**, from `IntakeAssumption` (a cart is not empty, which the controller
checks): `TypeCorrect`, `OneOrderSafe`, `AnsweredSafe`, `UntoldSafe`. The strengthening is
`CartsProgress`: a request for a cart has, for each item, the item still to do or an order
for it, or one was deleted; with `RequestsHaveItems` (no items are left exactly when all
that remains is to tell) a cart that is answered is complete. That `generatePoNumber` finds
a highest number at all is `HighestExists`, by well-foundedness.

**`AccountsProofs`**, from `AccountsAssumption`: `TypeCorrect`, `MembersSafe`,
`DriftSafe`, `OrdersSafe`, `DriftRecorded`, `RepFindsSafe`. The strengthening of `OrdersSafe`
says that a customer who ordered on the portal has a company (`PortalCustomersHaveCompany`): a
join would otherwise leave behind orders that carry none. `DriftRecorded`: a company has the
representative of each of its members who has one, unless a group was resolved into it by
hand; the lemma per operation is that of `DriftSafe`. `RepFindsSafe` (`RepFindsOrders`) puts
the three together: the portal's order is in its customer's company, the company exists, and
its representative is the customer's. So the portal's orders escape `RepSeesEveryOrder` only
after such a resolution; the Ring Builder's, which carry no company, at any time.

**`OrderPageProofs`**, **`OrderListPageProofs`**: `MixSafe`, `RowsSafe`, `TicksSafe`. The order
page needs `LoadsAreWanted` (a load that waits is of the order on the route) and
`UndisturbedFollowsRoute`; the list needs `NewestFollowsView` (the youngest load that waits
is for the view on screen, unless disturbed) and that nothing is ticked while it loads.

**`ConversationProofs`**, from `ConversationAssumption`: `Inductive`, `OnceSafe`
(`NoDuplicates`), `VisibleSafe` (`OnlyVisibleShown`), `CompleteSafe`
(`SettledThreadIsComplete`). The strengthening says what is missing and
where: a list nothing has overtaken lacks only messages that are still under way, pushed
to the reader's socket or stored and not yet broadcast (`ListsMissNothing`), and so does a
thread without a lapse (`ThreadsMissNothing`). For that, what is posted or was read has
been stored (`OnlyStored`), and what is shown or pushed its reader may see
(`OnlyReadable`), which is where the two rules of visibility meet. `NoDuplicates` rests on
`VisibleList` being strictly increasing; that such a list exists at all (`Listable`) is
proved by well-foundedness. `RoomIsLost`: a mounted thread leaves its room only by a lost
connection or by a join that came before its user was known, whatever else is sent, loaded or
mounted.

`OrderRowProofs` holds what each effect on a row preserves; it has no theorem about a
specification.

Only model-checked, and why:

* `OffersAreAccepted` says of each button that the handler behind it is ENABLED, which is
  beyond the prover. `OffersAreTaken` proves what makes it true: it exhibits the row, the
  files and the log after the step and shows that they are one, without saying ENABLED.
* `UnansweredIsArchived`, `QuietCustomerIsAsked`, `EveryCartIsAnswered`, `LoadingEnds` and
  `ButtonsComeBack` are liveness under fairness, also beyond it. Of the first,
  `ArchiveComesCloser` proves the part that is safety.

## 5. Plan

Done: the workflow as actions, as overlapping requests, with its log, its clocks and its
desks; intake; accounts; the conversation; the order page and the list; the proofs above.

Next, in order of importance:

1. The event log as a write in flight, so that `reactivateOrder` may miss a cancellation that
   was not yet written; the windows of `OrderRequests` and `OrderLog` composed.
2. Overlapping account operations: `update` and the healing views are dozens of queries each.
3. Notifications, read receipts and unread counts, with the bell that polls and is pushed to.
4. Webhook and status poll of the Ring Builder; calls that are lost, retried and reordered.
5. The one-time code, work timers and the feedback digest.

## 6. Not modelled

* *Authentication*: hashing and signing are library code, sessions are stateless.
* *Notifications*: rows per user that no other component reads. They follow the handlers.
* *Catalog and customer codes*: lookup tables; they enter as sets of factories and suppliers
  and as the outcome of the code lookup.
* *E-mail, file storage, PDFs*: formatting and I/O. Where a handler waits for the mail server,
  its outcome is a choice.
* *Reports and search*: reads. That the log they read tells the status is `LogTellsStatus`.
* *To-do list*: rows of one user without interaction.
* *Invoices, exports, quote options*: a read or a column no modelled step looks at.
* *Typing, read receipts, muting, attachments*; *priority flag*; *reference images*; *work
  timers*; *feedback answers*: columns of their own, written and read in one place.
* *Other pages*: the customers page, the pipeline board, settings, reports, login: their
  reads and forms. What they ask for of an order is in `OrderDesks`.
