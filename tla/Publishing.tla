------------------------------ MODULE Publishing ------------------------------
(***************************************************************************)
(* An announcement on its way to people: src/src/announcements (sending),  *)
(* src/src/notifications (in-app rows and the push queue with its worker)  *)
(* and the mail queue of src/src/mail.                                     *)
(*                                                                         *)
(* send stores recipients and the status in one transaction and then fills *)
(* two queues, await by await; it has no guard on the status. The push     *)
(* worker takes one job at a time and reads the devices before it starts   *)
(* to send. One announcement is modelled, for e-mail and in-app:           *)
(* announcements share nothing but devices. Every user has an account and  *)
(* an e-mail address. The two reads of queueInAppNotifications are one     *)
(* step: recipients are only ever added.                                   *)
(*                                                                         *)
(* External, as the code relies on it: a job whose process died is taken   *)
(* up once more (BullMQ's stalled jobs), one that threw is not (no         *)
(* attempts configured).                                                   *)
(*                                                                         *)
(* History variables, which no action depends on: sends; doubled, a        *)
(* dispatch began while another had not sent yet; cut, a send ended        *)
(* between its transaction and its end; again, users two sends found not   *)
(* notified, or whose job ran again; tried, users whose job has ended;     *)
(* forgotten, users whose job failed or was never queued; and run.moved,   *)
(* tokens that changed hands after the job read them.                      *)
(***************************************************************************)
EXTENDS Naturals, Sequences

CONSTANTS
    Users,          \* people an announcement may be addressed to
    Devices,        \* push tokens
    NoUser,         \* a token that was never registered
    MaxAsked,       \* bound on the sends and schedulings clients ask for
    MaxMoves,       \* bound on the registrations and revocations of devices
    Senders, NoRequest, NoRun

ASSUME PublishingAssumption == NoUser \notin Users /\ {MaxAsked, MaxMoves} \subseteq Nat

VARIABLES
    announcement,   \* [status, deleted]
    recipients,     \* SUBSET Users: recipient rows, each with its delivery logs
    mailed,         \* SUBSET Users: whom a mail job was queued for
    notified,       \* SUBSET Users: notification rows
    queue,          \* Seq(Job): push jobs waiting
    device,         \* [Devices -> DeviceRow]
    log,            \* [Users \X Devices -> LogStatus]
    pushes,         \* [Users \X Devices -> Nat]: messages the push service accepted
    req,            \* [Senders -> Request \cup {NoRequest}]
    run,            \* Run \cup {NoRun}: the job the worker has taken
    moves,          \* Nat
    asked, sends, doubled, cut, again, tried, forgotten     \* history

sending == <<announcement, recipients, mailed>>
pushing == <<device, moves, log, pushes, run>>
history == <<asked, sends, doubled, cut, again, tried, forgotten>>
vars == <<sending, notified, queue, pushing, req, history>>

-----------------------------------------------------------------------------
AnnouncementRow == [status: {"draft", "scheduled", "sent"}, deleted: BOOLEAN]
DeviceRow == [owner: Users \cup {NoUser}, revoked: BOOLEAN]
LogStatus == {"none", "queued", "sent", "failed"}
Job == [users: SUBSET Users, stalled: BOOLEAN]

\* to: whom the announcement was resolved to, or who is to be notified; due: the send
\* was begun by sendDueScheduled.
Request == [step: {"due", "store", "mail", "read", "notify", "push"},
            due: BOOLEAN, to: SUBSET Users]

Run == [job: Job, todo: SUBSET (Users \X Devices), at: SUBSET (Users \X Devices),
        step: {"next", "send", "sent", "failed", "refused", "revoke"}, moved: SUBSET Devices]

ASSUME NoRequestAssumption == NoRequest \notin Request /\ NoRun \notin Run

Found == ~announcement.deleted
InStep(w, s) == req[w] # NoRequest /\ req[w].step = s
Done(w) == req' = [req EXCEPT ![w] = NoRequest]

-----------------------------------------------------------------------------
(* Drafting *)

\* update with a time, which schedules whatever the status was.  create leaves a draft or
\* a scheduled announcement: a draft that is scheduled next.
Schedule ==
    /\ Found
    /\ asked < MaxAsked
    /\ announcement' = [announcement EXCEPT !.status = "scheduled"]
    /\ asked' = asked + 1
    /\ UNCHANGED <<recipients, mailed, notified, queue, pushing, req>>
    /\ UNCHANGED <<sends, doubled, cut, again, tried, forgotten>>

remove ==
    /\ Found
    /\ announcement' = [announcement EXCEPT !.deleted = TRUE]
    /\ UNCHANGED <<recipients, mailed, notified, queue, pushing, req, history>>

-----------------------------------------------------------------------------
(* Sending *)

\* findOne and resolveRecipients; whom an announcement reaches changes with enrolments.
BeginSend(w) ==
    /\ req[w] = NoRequest
    /\ Found
    /\ asked < MaxAsked
    /\ asked' = asked + 1
    /\ \E to \in SUBSET Users \ {{}} :
          req' = [req EXCEPT ![w] = [step |-> "store", due |-> FALSE, to |-> to]]
    /\ UNCHANGED <<sending, notified, queue, pushing>>
    /\ UNCHANGED <<sends, doubled, cut, again, tried, forgotten>>

\* Mutant: announcements that were sent are dispatched as well.
DueAnyway == Found /\ announcement.status \in {"scheduled", "sent"}

Due == Found /\ announcement.status = "scheduled"

BeginDispatch(w) ==
    /\ req[w] = NoRequest
    /\ Due
    /\ req' = [req EXCEPT ![w] = [step |-> "due", due |-> TRUE, to |-> {}]]
    /\ doubled' = (doubled \/ \E v \in Senders : req[v] # NoRequest /\ req[v].due)
    /\ UNCHANGED <<sending, notified, queue, pushing, asked, sends, cut, again, tried, forgotten>>

\* sendDueScheduled calls send, which does not look at the status again.
DispatchSend(w) ==
    /\ InStep(w, "due")
    /\ \/ /\ Found
          /\ \E to \in SUBSET Users \ {{}} :
                req' = [req EXCEPT ![w].step = "store", ![w].to = to]
       \/ ~Found /\ Done(w)
    /\ UNCHANGED <<sending, notified, queue, pushing, history>>

\* One transaction: recipients, their logs, and the status.
StoreSend(w) ==
    /\ InStep(w, "store")
    /\ recipients' = recipients \cup req[w].to
    /\ announcement' = [announcement EXCEPT !.status = "sent"]
    /\ req' = [req EXCEPT ![w] = [step |-> "mail", due |-> FALSE, to |-> {}]]
    /\ sends' = sends + 1
    /\ UNCHANGED <<mailed, notified, queue, pushing, asked, doubled, cut, again, tried, forgotten>>

\* The e-mail logs that still say queued: all of them, since nothing ever changes one.
QueuedMails == recipients

\* One job per queued log, added at the same time: if some fail the rest is added still,
\* and the send ends there.
QueueMails(w) ==
    /\ InStep(w, "mail")
    /\ \E added \in SUBSET QueuedMails :
          /\ mailed' = mailed \cup added
          /\ IF added = QueuedMails
             THEN req' = [req EXCEPT ![w].step = "read"] /\ UNCHANGED cut
             ELSE Done(w) /\ cut' = TRUE
    /\ UNCHANGED <<announcement, recipients, notified, queue, pushing>>
    /\ UNCHANGED <<asked, sends, doubled, again, tried, forgotten>>

\* Mutant: everybody is notified again.
NotNotifiedAnybody == recipients

\* Who has no notification of the announcement yet.
NotNotified == recipients \ notified

\* v has found u not notified and stores the row next.
BeingNotified(u, v) == InStep(v, "notify") /\ u \in req[v].to

ReadNotified(w) ==
    /\ InStep(w, "read")
    /\ IF NotNotified = {} THEN Done(w)
       ELSE req' = [req EXCEPT ![w].step = "notify", ![w].to = NotNotified]
    /\ again' = again \cup {u \in NotNotified : \E v \in Senders : BeingNotified(u, v)}
    /\ UNCHANGED <<sending, notified, queue, pushing, asked, sends, doubled, cut, tried, forgotten>>

\* createManyAndQueue: first the rows, then the jobs.
StoreNotified(w) ==
    /\ InStep(w, "notify")
    /\ notified' = notified \cup req[w].to
    /\ req' = [req EXCEPT ![w].step = "push"]
    /\ UNCHANGED <<sending, queue, pushing, history>>

\* Mutant: the job is not queued.
QueuedNothing(users) == queue

Queued(users) == Append(queue, [users |-> users, stalled |-> FALSE])

QueuePush(w) ==
    /\ InStep(w, "push")
    /\ queue' = Queued(req[w].to)
    /\ Done(w)
    /\ UNCHANGED <<sending, notified, pushing, history>>

\* Who is never pushed to when w stops here: the next send finds them notified.
Unpushed(w) == IF InStep(w, "push") THEN req[w].to ELSE {}

\* An await throws: an inactive recipient, the database, or Redis.
FailSend(w) ==
    /\ req[w] # NoRequest
    /\ Done(w)
    /\ cut' = (cut \/ req[w].step \notin {"due", "store"})
    /\ forgotten' = forgotten \cup Unpushed(w)
    /\ UNCHANGED <<sending, notified, queue, pushing, asked, sends, doubled, again, tried>>

-----------------------------------------------------------------------------
(* Devices *)

ToUse(d) == run # NoRun /\ \E u \in Users : <<u, d>> \in run.todo \cup run.at

Moves(d) ==
    /\ moves < MaxMoves
    /\ moves' = moves + 1
    /\ run' = IF ToUse(d) THEN [run EXCEPT !.moved = @ \cup {d}] ELSE run
    /\ UNCHANGED <<sending, notified, queue, log, pushes, req, history>>

\* A token belongs to whoever registered it last.
registerDevice(u, d) ==
    /\ device' = [device EXCEPT ![d] = [owner |-> u, revoked |-> FALSE]]
    /\ Moves(d)

revokeDevice(d) ==
    /\ device[d].owner # NoUser /\ ~device[d].revoked
    /\ device' = [device EXCEPT ![d].revoked = TRUE]
    /\ Moves(d)

-----------------------------------------------------------------------------
(* The push worker *)

\* Mutant: revoked tokens are used as well.
TokensRevoked(users) == {p \in users \X Devices : device[p[2]].owner = p[1]}

Tokens(users) == {p \in users \X Devices : device[p[2]].owner = p[1] /\ ~device[p[2]].revoked}

StartJob ==
    /\ run = NoRun
    /\ queue # <<>>
    /\ run' = [job |-> Head(queue), todo |-> Tokens(Head(queue).users), at |-> {},
               step |-> "next", moved |-> {}]
    /\ queue' = Tail(queue)
    /\ UNCHANGED <<sending, notified, device, moves, log, pushes, req, history>>

Running(s) == run # NoRun /\ run.step = s

LogQueued ==
    /\ Running("next")
    /\ \E p \in run.todo :
          /\ log' = [log EXCEPT ![p] = "queued"]
          /\ run' = [run EXCEPT !.at = {p}, !.todo = @ \ {p}, !.step = "send"]
    /\ UNCHANGED <<sending, notified, queue, device, moves, pushes, req, history>>

\* The push service accepts the message, with or without an answer that says so, or
\* refuses it, maybe because the token is no longer registered.
SendPush ==
    /\ Running("send")
    /\ \E accepted \in BOOLEAN, answer \in {"sent", "failed", "refused"} :
          /\ answer = "sent" => accepted
          /\ answer = "refused" => ~accepted
          /\ pushes' = [p \in DOMAIN pushes |-> IF accepted /\ p \in run.at THEN pushes[p] + 1 ELSE pushes[p]]
          /\ run' = [run EXCEPT !.step = answer]
    /\ UNCHANGED <<sending, notified, queue, device, moves, log, req, history>>

\* Mutant: the answer is stored as it came.
OutcomeAnswer(answer) == answer

Outcome(answer) == IF answer = "sent" THEN "sent" ELSE "failed"

NextToken == [run EXCEPT !.step = "next", !.at = {}]

\* The log is written, and then the unregistered token is revoked.
RecordPush ==
    /\ run # NoRun /\ run.step \in {"sent", "failed", "refused"}
    /\ log' = [p \in DOMAIN log |-> IF p \in run.at THEN Outcome(run.step) ELSE log[p]]
    /\ run' = IF run.step = "refused" THEN [run EXCEPT !.step = "revoke"] ELSE NextToken
    /\ UNCHANGED <<sending, notified, queue, device, moves, pushes, req, history>>

RevokeToken ==
    /\ Running("revoke")
    /\ device' = [d \in Devices |-> IF \E u \in Users : <<u, d>> \in run.at
                                    THEN [device[d] EXCEPT !.revoked = TRUE] ELSE device[d]]
    /\ run' = NextToken
    /\ UNCHANGED <<sending, notified, queue, moves, log, pushes, req, history>>

EndJob ==
    /\ Running("next")
    /\ run.todo = {}
    /\ run' = NoRun
    /\ tried' = tried \cup run.job.users
    /\ UNCHANGED <<sending, notified, queue, device, moves, log, pushes, req>>
    /\ UNCHANGED <<asked, sends, doubled, cut, again, forgotten>>

\* A query throws: the job has failed, and is not tried again.
JobFails ==
    /\ run # NoRun
    /\ run' = NoRun
    /\ forgotten' = forgotten \cup run.job.users
    /\ UNCHANGED <<sending, notified, queue, device, moves, log, pushes, req>>
    /\ UNCHANGED <<asked, sends, doubled, cut, again, tried>>

\* The process dies, with its requests and its worker; a job is taken up once more.
Crash ==
    LET stalled == IF run = NoRun THEN {} ELSE run.job.users
        retry == run # NoRun /\ ~run.job.stalled
    IN  /\ run # NoRun \/ \E w \in Senders : req[w] # NoRequest
        /\ req' = [w \in Senders |-> NoRequest]
        /\ run' = NoRun
        /\ queue' = IF retry THEN <<[run.job EXCEPT !.stalled = TRUE]>> \o queue ELSE queue
        /\ again' = IF retry THEN again \cup stalled ELSE again
        /\ forgotten' = forgotten \cup (UNION {Unpushed(w) : w \in Senders})
                          \cup (IF retry THEN {} ELSE stalled)
        /\ cut' = (cut \/ \E w \in Senders :
                            req[w] # NoRequest /\ req[w].step \notin {"due", "store"})
        /\ UNCHANGED <<sending, notified, device, moves, log, pushes, asked, sends, doubled, tried>>

-----------------------------------------------------------------------------
Init ==
    /\ announcement = [status |-> "draft", deleted |-> FALSE]
    /\ recipients = {} /\ mailed = {} /\ notified = {}
    /\ queue = <<>>
    /\ device = [d \in Devices |-> [owner |-> NoUser, revoked |-> FALSE]]
    /\ log = [p \in Users \X Devices |-> "none"]
    /\ pushes = [p \in Users \X Devices |-> 0]
    /\ req = [w \in Senders |-> NoRequest]
    /\ run = NoRun
    /\ moves = 0 /\ asked = 0 /\ sends = 0
    /\ doubled = FALSE /\ cut = FALSE
    /\ again = {} /\ tried = {} /\ forgotten = {}

Send(w) ==
    \/ DispatchSend(w) \/ StoreSend(w) \/ QueueMails(w)
    \/ ReadNotified(w) \/ StoreNotified(w) \/ QueuePush(w) \/ FailSend(w)

Work == StartJob \/ LogQueued \/ SendPush \/ RecordPush \/ RevokeToken \/ EndJob \/ JobFails

Next ==
    \/ Schedule \/ remove
    \/ \E w \in Senders : BeginSend(w) \/ BeginDispatch(w) \/ Send(w)
    \/ \E u \in Users, d \in Devices : registerDevice(u, d)
    \/ \E d \in Devices : revokeDevice(d)
    \/ Work
    \/ Crash

Spec == Init /\ [][Next]_vars

-----------------------------------------------------------------------------
(* Properties *)

TypeOK ==
    /\ announcement \in AnnouncementRow
    /\ recipients \subseteq Users /\ mailed \subseteq Users /\ notified \subseteq Users
    /\ queue \in Seq(Job)
    /\ device \in [Devices -> DeviceRow]
    /\ log \in [Users \X Devices -> LogStatus]
    /\ pushes \in [Users \X Devices -> Nat]
    /\ req \in [Senders -> Request \cup {NoRequest}]
    /\ run \in Run \cup {NoRun}
    /\ {moves, asked, sends} \subseteq Nat /\ {doubled, cut} \subseteq BOOLEAN
    /\ again \subseteq Users /\ tried \subseteq Users /\ forgotten \subseteq Users

\* An announcement is sent once for every time somebody sent or scheduled it, unless
\* two dispatches found it due before either had sent it.
SentOncePerAsking == sends <= asked \/ doubled

\* Once no send is under way, everybody the announcement is addressed to has been mailed
\* and notified, unless a send was cut short.
NobodyForgotten ==
    ~cut /\ (\A w \in Senders : req[w] = NoRequest) =>
        recipients \subseteq mailed \cap notified

\* A log that says sent stands for a message the service accepted, and there is no
\* message without a log.
LogsTellTheTruth ==
    \A p \in Users \X Devices :
        /\ log[p] = "sent" => pushes[p] > 0
        /\ log[p] = "none" => pushes[p] = 0

\* No device gets a notification twice, unless two sends both found its user not yet
\* notified, or the process died and the job ran again.
PushedOnce == \A p \in Users \X Devices : p[1] \in again \/ pushes[p] <= 1

\* A message goes only to a device of its recipient, unless the device changed hands or
\* was revoked after the job had read the tokens.
PushedToOwner ==
    [][\A p \in Users \X Devices :
          pushes'[p] # pushes[p] =>
              \/ p[2] \in run.moved
              \/ device[p[2]].owner = p[1] /\ ~device[p[2]].revoked]_vars

\* Whoever has a notification is pushed to: the job is about to be queued, waits, runs or
\* has run, unless the send stopped between the row and its job, or the job failed.
NotificationsArePushed ==
    \A u \in notified :
        \/ u \in tried \cup forgotten
        \/ \E w \in Senders : u \in Unpushed(w)
        \/ \E i \in DOMAIN queue : u \in queue[i].users
        \/ run # NoRun /\ u \in run.job.users

\* Whoever an announcement is addressed to gets the mail, the notification and the push.
EverybodyReached == NobodyForgotten /\ NotificationsArePushed

\* The pushes of a notification are one for each device, and the logs tell of them.
PushesAccounted == PushedOnce /\ LogsTellTheTruth
=============================================================================
