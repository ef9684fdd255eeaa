--------------------------- MODULE ApprovalStall ---------------------------
(***************************************************************************)
(* A design that waits for its customer: the two clocks of the order       *)
(* (lastApprovalEmailAt and awaitingApprovalSince), the survey and the     *)
(* reminder of the stall check at nine, the auto-archive at ten, and the   *)
(* handlers of OrderLifecycle that start, restart or ignore the clocks.    *)
(*                                                                         *)
(* Time passes in days, from the jobs of one morning to those of the next; *)
(* people act in between.  A clock counts the mornings since it was set,   *)
(* up to MaxAge; the next morning finds it that many full days old and its *)
(* calendar day one day further back.                                      *)
(***************************************************************************)
EXTENDS OrderLifecycle

CONSTANTS
  Week,          \* days of a week
  Weekend,       \* the days 0..Week-1 that are no business days
  SurveyAfter,   \* business days before the survey
  ReminderAfter, \* business days before its reminder
  ArchiveAfter,  \* calendar days before the automatic archive
  MaxAge,        \* bound: days a clock distinguishes
  Looked,        \* bound: the statuses an order is followed through and resumed in
  Skus,          \* bound: whether it is followed without a SKU, with one or both
  Nudges         \* requests for a manual reminder that may be under way at once

ASSUME StallAssumption ==
  /\ Week \in Nat \ {0, 1} /\ Weekend \subseteq 0..Week-1
  /\ SurveyAfter \in Nat \ {0} /\ ReminderAfter \in Nat \ {0} /\ ArchiveAfter \in Nat \ {0}
  /\ Looked \subseteq OrderStatus /\ Skus \subseteq BOOLEAN
  /\ MaxAge \in Nat /\ MaxAge >= ArchiveAfter /\ MaxAge >= ReminderAfter
  /\ None \notin Nat

VARIABLES
  day,           \* day of the week
  awaitAge,      \* age of awaitingApprovalSince, 0 while it is not set
  emailAge,      \* age of lastApprovalEmailAt, None while it is not set
  stall,         \* the dates of survey, reminder and answer
  nudge,         \* where each request for a manual reminder is
  reprieve       \* history: mornings since a project was reopened after an automatic
                 \* archive, MaxAge if it was long ago or never

stallVars == <<vars, day, awaitAge, emailAge, stall, nudge, reprieve>>

Ages == 0..MaxAge

\* Which of the survey's dates are set.
Stall == [survey : BOOLEAN, reminder : BOOLEAN, answer : BOOLEAN]
NoStall == [survey |-> FALSE, reminder |-> FALSE, answer |-> FALSE]

StallTypeOK ==
  /\ TypeOK
  /\ day \in 0..Week-1
  /\ awaitAge \in Ages /\ emailAge \in Ages \cup {None}
  /\ stall \in Stall
  /\ nudge \in [Nudges -> {"IDLE", "MAILING"}]
  /\ reprieve \in Ages

\* A price comes with the order: whether one is stored plays no part below.
StallInit ==
  /\ Init /\ ord.quotedCost
  /\ day = 0
  /\ awaitAge = 0 /\ emailAge = None
  /\ stall = NoStall
  /\ nudge = [n \in Nudges |-> "IDLE"]
  /\ reprieve = MaxAge

-----------------------------------------------------------------------------
(* What the handlers do to the clocks *)

ClockStarted == awaitAge' = 0

\* A date that is kept, or set to NULL with the row.
ClockKept == awaitAge' = IF ord'.awaitingApprovalSince THEN awaitAge ELSE 0

\* An approval email that starts the survey over, and one that does not.
MailedAfresh == emailAge' = 0 /\ stall' = NoStall
MailedAgain == emailAge' = 0 /\ UNCHANGED stall
NotMailed == UNCHANGED <<emailAge, stall>>

\* A handler of the workflow: no time passes.
Handles == UNCHANGED <<day, nudge>>

Send == SendToCustomer /\ ClockStarted /\ MailedAfresh /\ Handles

\* The auto-send of a quote sends the same email but resets no survey.  No other
\* step of the stages shows an order to its customer.
Quote ==
  /\ StageStep
  /\ IF ord'.sentToCustomer /\ ~ord.sentToCustomer
     THEN ClockStarted /\ MailedAgain
     ELSE ClockKept /\ NotMailed
  /\ Handles

\* No email is sent by a correction of the sub-stage, manual or not.
CorrectSubStage ==
  /\ Reconcile \/ \E name \in DOMAIN SubStage : SetSubStage(name)
  /\ IF ord'.sentToCustomer THEN ClockStarted ELSE ClockKept
  /\ NotMailed /\ Handles

\* Handlers that leave both clocks alone.
Design ==
  /\ \/ \E n \in Files : UploadBatch(n)
     \/ \E f \in Files : SendForApproval(f) \/ RequestRevision(f) \/ Reject(f) \/ DeleteFile(f)
  /\ ClockKept /\ NotMailed /\ Handles

Produce == RoutingStep /\ ClockKept /\ NotMailed /\ Handles

\* The customer's answers, on the portal and on the tracking page.
Respond ==
  /\ \E f \in Files : (\E skuOk \in BOOLEAN : Approve(f, skuOk)) \/ PublicApprove(f) \/ PublicReject(f)
  /\ ClockKept /\ NotMailed /\ Handles

\* Neither cancelling an order nor an Admin's reactivation looks at the archive or at
\* the clock: what was archived automatically comes back with its old clock.
Close ==
  /\ CloseProject \/ Cancel \/ ReactivateOrder
  /\ ClockKept /\ NotMailed /\ Handles

\* Bug: the clock goes on from where it was.
ReopenedClockKept == ClockKept

\* performReactivation
ReopenedClock == IF ord.closureReason = "AUTO" THEN ClockStarted ELSE ClockKept

Reopen ==
  /\ ReactivateClosedProject \/ ReactivateAutoArchived
  /\ ReopenedClock
  /\ NotMailed /\ Handles

\* submitApprovalStallSurvey: the link of an old email still works, so the order's
\* state is not looked at, nor whether a survey was sent since; a second answer
\* overwrites the first.
AnswerSurvey ==
  /\ stall' = [stall EXCEPT !.answer = TRUE]
  /\ UNCHANGED <<ord, file, lastCancelFrom, awaitAge, emailAge>> /\ Handles

\* sendApprovalReminder: checks, then awaits the mail server.
CheckNudge(n) ==
  /\ nudge[n] = "IDLE"
  /\ ord.status = "CAD_IN_PROGRESS" /\ ord.sentToCustomer
  /\ emailAge # None => emailAge >= 1
  /\ nudge' = [nudge EXCEPT ![n] = "MAILING"]
  /\ UNCHANGED <<handled, day, awaitAge, emailAge, stall>>

\* Bug: a reminder starts the archive clock over.
ClockAfterReminderStarted == ClockStarted

ClockAfterReminder == ClockKept

\* The mail is accepted and stamped, or it fails and the request with it.
FinishNudge(n, accepted) ==
  /\ nudge[n] = "MAILING"
  /\ nudge' = [nudge EXCEPT ![n] = "IDLE"]
  /\ UNCHANGED <<handled, day>>
  /\ IF accepted THEN MailedAfresh /\ ClockAfterReminder ELSE NotMailed /\ ClockKept

-----------------------------------------------------------------------------
(* The daily jobs *)

\* businessDaysElapsed: the days after the email's own, up to and with this morning's.
BusinessDays(age) ==
  Cardinality({back \in 0..age : (day + 1 - back) % Week \notin Weekend})

\* Bug: only the emails of exactly that day are looked at.
StalledOnTheDay(businessDays) ==
  /\ ord.status = "CAD_IN_PROGRESS" /\ ord.sentToCustomer
  /\ ~ord.customerEmailApproval /\ ~ord.isArchived
  /\ emailAge # None
  /\ BusinessDays(emailAge) = businessDays
  /\ \E f \in Files : file[f] = "SENT_FOR_APPROVAL"

\* The query, the check of business days and the pending file.
Stalled(businessDays) ==
  /\ ord.status = "CAD_IN_PROGRESS" /\ ord.sentToCustomer
  /\ ~ord.customerEmailApproval /\ ~ord.isArchived
  /\ emailAge # None
  /\ emailAge >= businessDays
  /\ BusinessDays(emailAge) >= businessDays
  /\ \E f \in Files : file[f] = "SENT_FOR_APPROVAL"

Surveyed(s) ==
  IF ~s.survey /\ Stalled(SurveyAfter) THEN [s EXCEPT !.survey = TRUE] ELSE s

Reminded(s) ==
  IF s.survey /\ ~s.answer /\ ~s.reminder /\ Stalled(ReminderAfter)
  THEN [s EXCEPT !.reminder = TRUE] ELSE s

ArchiveDue ==
  /\ AwaitingApproval(ord) /\ ~ord.isArchived /\ ord.awaitingApprovalSince
  /\ awaitAge >= ArchiveAfter

\* Surveys, then reminders at nine, the archive at ten.  A job that does not find
\* the server running is not made up for.
Jobs == {"STALL", "ARCHIVE"}

Now(age) == IF age = None THEN None ELSE IF age < MaxAge THEN age + 1 ELSE age

Morning(ran) ==
  /\ day' = (day + 1) % Week
  /\ emailAge' = Now(emailAge)
  /\ awaitAge' = IF ord.awaitingApprovalSince THEN Now(awaitAge) ELSE 0
  /\ stall' = IF "STALL" \in ran THEN Reminded(Surveyed(stall)) ELSE stall
  /\ IF "ARCHIVE" \in ran /\ ArchiveDue THEN AutoArchive ELSE UNCHANGED handled
  /\ UNCHANGED nudge

-----------------------------------------------------------------------------

\* A project that was archived automatically is reopened as it is: an Admin who
\* reactivates a cancelled order changes its status, and does not count.
Reopening ==
  /\ ord.isArchived /\ ord.closureReason = "AUTO"
  /\ ~ord'.isArchived /\ ord'.status = ord.status

People ==
  \/ Send \/ Quote \/ CorrectSubStage \/ Design \/ Produce \/ Respond \/ Close \/ Reopen
  \/ AnswerSurvey
  \/ \E n \in Nudges : CheckNudge(n) \/ \E accepted \in BOOLEAN : FinishNudge(n, accepted)

MorningWith(jobs) ==
  /\ \E ran \in SUBSET Jobs : jobs \subseteq ran /\ Morning(ran)
  /\ reprieve' = Now(reprieve)
  /\ Observe

Followed ==
  /\ ord'.status \in Looked /\ lastCancelFrom' \in Looked \cup {None}
  /\ ord'.kiraSkuNumber \in Skus

StallNext ==
  \/ /\ People /\ Followed
     /\ reprieve' = IF Reopening THEN 0 ELSE reprieve
     /\ Observe
  \/ MorningWith({})

\* No job misses every morning: the server is restarted when it fails.  Nobody is
\* obliged to answer or to act.  (Every morning changes the day.)
Fairness == \A job \in Jobs : WF_day(MorningWith({job}))

StallSpec == StallInit /\ [][StallNext]_stallVars /\ Fairness

-----------------------------------------------------------------------------
(* What holds *)

\* Anything but a reminder gives the customer another thirty days.
StartedOver == awaitAge' < awaitAge /\ UNCHANGED nudge

Waiting == AwaitingApproval(ord) /\ ~ord.isArchived

\* A project nobody answers is archived in the end, whatever surveys, manual
\* reminders, uploads and failed mornings lie in between: only sending it again,
\* resyncing or reopening it may put that off.
UnansweredIsArchived ==
  <>[][~StartedOver]_awaitAge => (Waiting ~> ~Waiting)

Pending ==
  /\ ord.status = "CAD_IN_PROGRESS" /\ ord.sentToCustomer
  /\ ~ord.customerEmailApproval /\ ~ord.isArchived
  /\ emailAge # None
  /\ \E f \in Files : file[f] = "SENT_FOR_APPROVAL"

\* A customer who stays quiet is asked, and asked again unless she answers, even
\* if the job misses the mornings the survey and the reminder fall due.
QuietCustomerIsAsked ==
  <>[][emailAge' = 0 => emailAge = 0]_emailAge =>
    (Pending ~> ~Pending \/ (stall.survey /\ (stall.reminder \/ stall.answer)))

\* performReactivation: a project that was archived automatically and reopened, by
\* staff or by its customer, has its whole period again before the job may sweep
\* it up, whatever is uploaded, quoted, cancelled, closed or reactivated meanwhile.
ReopenedHasItsPeriod ==
  [][ord'.isArchived # ord.isArchived /\ MorningWith({}) => reprieve >= ArchiveAfter]_stallVars

-----------------------------------------------------------------------------
(* What the comments say and the handlers do not keep *)

\* The customer approved the design on either page, or asked for changes.
Answered == ord.customerEmailApproval \/ \E f \in Files : file[f] = "REVISION_REQUESTED"

\* autoArchiveOrder: what is archived has had thirty days without a response: its
\* customer has neither approved nor asked for changes.
ArchivedUnanswered ==
  [][ord'.isArchived # ord.isArchived /\ MorningWith({}) => ~Answered]_stallVars

\* RESET_STALL_SURVEY_FIELDS: the survey starts over wherever lastApprovalEmailAt
\* is refreshed, so that the customer of a new design is asked about that design.
FreshEmailStartsOver == [][emailAge' = 0 /\ emailAge # 0 => stall' = NoStall]_stallVars

\* performReactivation: what leaves the archive is not swept up by the very next run
\* of the job.  An order that was archived automatically, cancelled and reactivated
\* is, and so is one that its customer closed longer ago than the period.
LeavesArchiveWithTime == [][ord.isArchived /\ ~ord'.isArchived => ~ArchiveDue']_stallVars

\* sendApprovalReminder: once per 24 hours.
OneReminderPerDay ==
  [][\A n \in Nudges : FinishNudge(n, TRUE) /\ emailAge # None => emailAge >= 1]_stallVars
=============================================================================
