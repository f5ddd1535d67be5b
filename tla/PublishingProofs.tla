--------------------------- MODULE PublishingProofs ---------------------------
(***************************************************************************)
(* Proofs about Publishing, for any number of users, devices and senders:  *)
(* types, one send for each time it was asked for, everybody reached, no   *)
(* message twice nor to a device of somebody else.  A recipient is         *)
(* followed through the two queues: the row, the job, the run or the       *)
(* history has them (Reached, NotificationsArePushed), and only one of     *)
(* these before the message is sent (OnItsWay).                            *)
(***************************************************************************)
EXTENDS Publishing, FiniteSets, FiniteSetTheorems, SequenceTheorems, TLAPS

-----------------------------------------------------------------------------
(* Requests and runs *)

\* The awaits of a send.
RequestSteps == {"due", "store", "mail", "read", "notify", "push"}
\* The awaits of the worker.
RunSteps == {"next", "send", "sent", "failed", "refused", "revoke"}

\* q is the request of these fields.
RequestIs(q, step, due, to) == q \in Request /\ q.step = step /\ q.due = due /\ q.to = to

\* r is the run of these fields.
RunIs(r, job, todo, at, step, moved) ==
    r \in Run /\ r.job = job /\ r.todo = todo /\ r.at = at /\ r.step = step /\ r.moved = moved

\* What a request is once it has gone on to another step, for somebody else or not.
LEMMA RequestChanges ==
  ASSUME NEW q \in Request, NEW s \in RequestSteps, NEW t \in SUBSET Users
  PROVE  /\ RequestIs([q EXCEPT !.step = s], s, q.due, q.to)
         /\ RequestIs([q EXCEPT !.step = s, !.to = t], s, q.due, t)
<1>1. RequestIs([q EXCEPT !.step = s], s, q.due, q.to)
  BY DEF Request, RequestSteps, RequestIs
<1>2. [q EXCEPT !.step = s, !.to = t] = [[q EXCEPT !.step = s] EXCEPT !.to = t]
  BY DEF Request
<1> DEFINE p == [q EXCEPT !.step = s]
<1>3. p \in Request /\ p.step = s /\ p.due = q.due
  BY <1>1 DEF RequestIs
<1> HIDE DEF p
<1>4. RequestIs([p EXCEPT !.to = t], s, q.due, t)
  BY <1>3 DEF Request, RequestIs
<1> QED
  BY <1>1, <1>2, <1>4 DEF p

\* What a run is once the worker has gone on, or a device has changed hands.
LEMMA RunChanges ==
  ASSUME NEW r \in Run, NEW s \in RunSteps, NEW a \in SUBSET (Users \X Devices), NEW t \in SUBSET (Users \X Devices),
         NEW m \in SUBSET Devices
  PROVE  /\ RunIs([r EXCEPT !.step = s], r.job, r.todo, r.at, s, r.moved)
         /\ RunIs([r EXCEPT !.step = s, !.at = a], r.job, r.todo, a, s, r.moved)
         /\ RunIs([r EXCEPT !.at = a, !.todo = t, !.step = s], r.job, t, a, s, r.moved)
         /\ RunIs([r EXCEPT !.moved = m], r.job, r.todo, r.at, r.step, m)
<1> USE DEF Run, RunSteps, RunIs
<1>1. RunIs([r EXCEPT !.step = s], r.job, r.todo, r.at, s, r.moved)
  OBVIOUS
<1>2. RunIs([r EXCEPT !.step = s, !.at = a], r.job, r.todo, a, s, r.moved)
  OBVIOUS
<1>3. RunIs([r EXCEPT !.at = a, !.todo = t, !.step = s], r.job, t, a, s, r.moved)
  OBVIOUS
<1>4. RunIs([r EXCEPT !.moved = m], r.job, r.todo, r.at, r.step, m)
  OBVIOUS
<1> QED
  BY <1>1, <1>2, <1>3, <1>4

\* The request of w becomes q, and the others stay.
Becomes(w, q) ==
    /\ q \in Request \cup {NoRequest}
    /\ req' = [req EXCEPT ![w] = q]
    /\ \A v \in Senders : req'[v] = IF v = w THEN q ELSE req[v]

\* What the steps up to the transaction make of the request.
LEMMA Drafting ==
  ASSUME TypeOK, NEW w \in Senders
  PROVE  /\ BeginSend(w) => \E q \in Request : Becomes(w, q) /\ q.step = "store" /\ q.due = FALSE
         /\ BeginDispatch(w) => \E q \in Request : Becomes(w, q) /\ q.step = "due" /\ q.due = TRUE
         /\ DispatchSend(w) => \/ Becomes(w, NoRequest)
                               \/ \E q \in Request : Becomes(w, q) /\ q.step = "store" /\ q.due = req[w].due
         /\ StoreSend(w) => \E q \in Request : Becomes(w, q) /\ q.step = "mail" /\ q.due = FALSE
<1>t. req \in [Senders -> Request \cup {NoRequest}]
  BY DEF TypeOK
<1>1. ASSUME NEW q \in Request \cup {NoRequest}, req' = [req EXCEPT ![w] = q] PROVE Becomes(w, q)
  BY <1>1, <1>t DEF Becomes
<1>2. ASSUME BeginSend(w)
      PROVE  \E q \in Request : Becomes(w, q) /\ q.step = "store" /\ q.due = FALSE
  <2>1. PICK to \in SUBSET Users : req' = [req EXCEPT ![w] = [step |-> "store", due |-> FALSE, to |-> to]]
    BY <1>2 DEF BeginSend
  <2> DEFINE q == [step |-> "store", due |-> FALSE, to |-> to]
  <2>3. req' = [req EXCEPT ![w] = q]
    BY <2>1
  <2>2. q \in Request /\ q.step = "store" /\ q.due = FALSE
    BY DEF Request
  <2> HIDE DEF q
  <2> QED
    BY <1>1, <2>2, <2>3
<1>3. ASSUME BeginDispatch(w)
      PROVE  \E q \in Request : Becomes(w, q) /\ q.step = "due" /\ q.due = TRUE
  <2> DEFINE q == [step |-> "due", due |-> TRUE, to |-> {}]
  <2>1. req' = [req EXCEPT ![w] = q]
    BY <1>3 DEF BeginDispatch
  <2>2. q \in Request /\ q.step = "due" /\ q.due = TRUE
    BY DEF Request
  <2> HIDE DEF q
  <2> QED
    BY <1>1, <2>1, <2>2
<1>4. ASSUME DispatchSend(w)
      PROVE  \/ Becomes(w, NoRequest)
             \/ \E q \in Request : Becomes(w, q) /\ q.step = "store" /\ q.due = req[w].due
  <2>1. CASE Done(w)
    BY <1>1, <2>1 DEF Done
  <2>2. CASE \E to \in SUBSET Users : req' = [req EXCEPT ![w].step = "store", ![w].to = to]
    <3>1. PICK to \in SUBSET Users : req' = [req EXCEPT ![w].step = "store", ![w].to = to]
      BY <2>2
    <3>2. PICK r \in Request : r = req[w]
      BY <1>4, <1>t DEF DispatchSend, InStep
    <3>3. PICK s \in RequestSteps : s = "store"
      BY DEF RequestSteps
    <3> DEFINE q == [r EXCEPT !.step = s, !.to = to]
    <3>4. req' = [req EXCEPT ![w] = q]
      BY <1>t, <3>1, <3>2, <3>3
    <3>5. RequestIs(q, s, r.due, to)
      BY RequestChanges
    <3> HIDE DEF q
    <3> QED
      BY <1>1, <3>2, <3>3, <3>4, <3>5 DEF RequestIs
  <2> QED
    BY <1>4, <2>1, <2>2 DEF DispatchSend
<1>5. ASSUME StoreSend(w)
      PROVE  \E q \in Request : Becomes(w, q) /\ q.step = "mail" /\ q.due = FALSE
  <2> DEFINE q == [step |-> "mail", due |-> FALSE, to |-> {}]
  <2>1. req' = [req EXCEPT ![w] = q]
    BY <1>5 DEF StoreSend
  <2>2. q \in Request /\ q.step = "mail" /\ q.due = FALSE
    BY DEF Request
  <2> HIDE DEF q
  <2> QED
    BY <1>1, <2>1, <2>2
<1> QED
  BY <1>2, <1>3, <1>4, <1>5

\* What the steps after the transaction make of the request.
LEMMA Filling ==
  ASSUME TypeOK, NEW w \in Senders
  PROVE  /\ QueueMails(w) => \/ Becomes(w, NoRequest) /\ cut' = TRUE
                             \/ /\ cut' = cut /\ mailed' = mailed \cup recipients
                                /\ \E q \in Request : Becomes(w, q) /\ q.step = "read" /\ q.due = req[w].due
         /\ ReadNotified(w) => \/ Becomes(w, NoRequest) /\ NotNotified = {}
                               \/ \E q \in Request : /\ Becomes(w, q) /\ q.step = "notify"
                                                     /\ q.due = req[w].due /\ q.to = NotNotified
         /\ StoreNotified(w) => \E q \in Request : /\ Becomes(w, q) /\ q.step = "push"
                                                   /\ q.due = req[w].due /\ q.to = req[w].to
         /\ QueuePush(w) \/ FailSend(w) => Becomes(w, NoRequest)
<1>t. req \in [Senders -> Request \cup {NoRequest}] /\ recipients \subseteq Users
  BY DEF TypeOK
<1>1. ASSUME NEW q \in Request \cup {NoRequest}, req' = [req EXCEPT ![w] = q] PROVE Becomes(w, q)
  BY <1>1, <1>t DEF Becomes
<1>s. ASSUME NEW s \in RequestSteps, req[w] # NoRequest, req' = [req EXCEPT ![w].step = s]
      PROVE  \E q \in Request : Becomes(w, q) /\ q.step = s /\ q.due = req[w].due /\ q.to = req[w].to
  <2>1. PICK r \in Request : r = req[w]
    BY <1>s, <1>t
  <2> DEFINE q == [r EXCEPT !.step = s]
  <2>2. req' = [req EXCEPT ![w] = q]
    BY <1>s, <1>t, <2>1
  <2>3. RequestIs(q, s, r.due, r.to)
    BY RequestChanges
  <2> HIDE DEF q
  <2> QED
    BY <1>1, <2>1, <2>2, <2>3 DEF RequestIs
<1>d. Done(w) => Becomes(w, NoRequest)
  BY <1>1 DEF Done
<1>2. ASSUME QueueMails(w)
      PROVE  \/ Becomes(w, NoRequest) /\ cut' = TRUE
             \/ /\ cut' = cut /\ mailed' = mailed \cup recipients
                /\ \E q \in Request : Becomes(w, q) /\ q.step = "read" /\ q.due = req[w].due
  <2>1. \/ Done(w) /\ cut' = TRUE
        \/ /\ cut' = cut /\ mailed' = mailed \cup recipients /\ req[w] # NoRequest
           /\ req' = [req EXCEPT ![w].step = "read"]
    BY <1>2 DEF QueueMails, QueuedMails, InStep
  <2> QED
    BY <1>d, <1>s, <2>1 DEF RequestSteps
<1>3. ASSUME ReadNotified(w)
      PROVE  \/ Becomes(w, NoRequest) /\ NotNotified = {}
             \/ \E q \in Request : /\ Becomes(w, q) /\ q.step = "notify"
                                   /\ q.due = req[w].due /\ q.to = NotNotified
  <2>1. CASE NotNotified = {}
    BY <1>3, <1>d, <2>1 DEF ReadNotified
  <2>2. CASE NotNotified # {}
    <3>1. PICK t \in SUBSET Users : t = NotNotified
      BY <1>t DEF NotNotified
    <3>2. PICK r \in Request : r = req[w]
      BY <1>3, <1>t DEF ReadNotified, InStep
    <3>3. PICK s \in RequestSteps : s = "notify"
      BY DEF RequestSteps
    <3> DEFINE q == [r EXCEPT !.step = s, !.to = t]
    <3>4. req' = [req EXCEPT ![w].step = s, ![w].to = t]
      BY <1>3, <2>2, <3>1, <3>3 DEF ReadNotified
    <3>5. req' = [req EXCEPT ![w] = q]
      BY <1>t, <3>2, <3>4
    <3>6. RequestIs(q, s, r.due, t)
      BY RequestChanges
    <3> HIDE DEF q
    <3> QED
      BY <1>1, <3>1, <3>2, <3>3, <3>5, <3>6 DEF RequestIs
  <2> QED
    BY <2>1, <2>2
<1>4. ASSUME StoreNotified(w)
      PROVE  \E q \in Request : Becomes(w, q) /\ q.step = "push" /\ q.due = req[w].due /\ q.to = req[w].to
  BY <1>4, <1>s DEF StoreNotified, InStep, RequestSteps
<1>5. QueuePush(w) \/ FailSend(w) => Becomes(w, NoRequest)
  BY <1>d DEF QueuePush, FailSend
<1> QED
  BY <1>2, <1>3, <1>4, <1>5

\* What the worker makes of its run, the queue, the logs and the messages.
LEMMA Working ==
  ASSUME TypeOK
  PROVE  /\ StartJob => /\ queue \in Seq(Job) /\ queue # <<>> /\ Head(queue) \in Job /\ queue' = Tail(queue)
                        /\ run' \in Run /\ run'.job = Head(queue) /\ run'.todo = Tokens(Head(queue).users)
                        /\ run'.at = {} /\ run'.step = "next" /\ run'.moved = {}
         /\ LogQueued => \E p \in run.todo :
                            /\ run' \in Run /\ run'.job = run.job /\ run'.todo = run.todo \ {p} /\ run'.at = {p}
                            /\ run'.step = "send" /\ run'.moved = run.moved
                            /\ log' = [log EXCEPT ![p] = "queued"]
         /\ SendPush => \E answer \in {"sent", "failed", "refused"}, accepted \in BOOLEAN :
                            /\ run' \in Run /\ run'.job = run.job /\ run'.todo = run.todo /\ run'.at = run.at
                            /\ run'.step = answer /\ run'.moved = run.moved
                            /\ answer = "sent" => accepted
                            /\ pushes' = [p \in Users \X Devices |->
                                   IF accepted /\ p \in run.at THEN pushes[p] + 1 ELSE pushes[p]]
         /\ RecordPush => /\ run' \in Run /\ run'.job = run.job /\ run'.todo = run.todo /\ run'.moved = run.moved
                          /\ \/ run'.at = run.at /\ run'.step = "revoke"
                             \/ run'.at = {} /\ run'.step = "next"
                          /\ log' = [p \in Users \X Devices |-> IF p \in run.at THEN Outcome(run.step) ELSE log[p]]
         /\ RevokeToken => /\ run' \in Run /\ run'.job = run.job /\ run'.todo = run.todo /\ run'.moved = run.moved
                           /\ run'.at = {} /\ run'.step = "next"
         /\ \A d \in Devices : Moves(d) =>
               \/ ToUse(d) /\ run' \in Run /\ run'.job = run.job /\ run'.todo = run.todo /\ run'.at = run.at
                  /\ run'.step = run.step /\ run'.moved = run.moved \cup {d}
               \/ ~ToUse(d) /\ run' = run
<1>t. /\ run \in Run \cup {NoRun} /\ queue \in Seq(Job)
      /\ log \in [Users \X Devices -> LogStatus] /\ pushes \in [Users \X Devices -> Nat]
  BY DEF TypeOK
<1>r. \A r \in Run : /\ r.todo \in SUBSET (Users \X Devices) /\ r.at \in SUBSET (Users \X Devices)
                     /\ r.step \in RunSteps /\ r.moved \in SUBSET Devices
  BY DEF Run, RunSteps
<1>1. ASSUME StartJob
      PROVE  /\ queue \in Seq(Job) /\ queue # <<>> /\ Head(queue) \in Job /\ queue' = Tail(queue)
             /\ run' \in Run /\ run'.job = Head(queue) /\ run'.todo = Tokens(Head(queue).users)
             /\ run'.at = {} /\ run'.step = "next" /\ run'.moved = {}
  <2>1. queue \in Seq(Job) /\ queue # <<>> /\ Head(queue) \in Job /\ queue' = Tail(queue)
    BY <1>1, <1>t, HeadTailProperties DEF StartJob
  <2>2. PICK j \in Job, t \in SUBSET (Users \X Devices) : j = Head(queue) /\ t = Tokens(j.users)
    BY <2>1 DEF Tokens, Job
  <2> DEFINE r == [job |-> j, todo |-> t, at |-> {}, step |-> "next", moved |-> {}]
  <2>3. run' = r
    BY <1>1, <2>2 DEF StartJob
  <2>4. r \in Run /\ r.job = j /\ r.todo = t /\ r.at = {} /\ r.step = "next" /\ r.moved = {}
    BY DEF Run
  <2> HIDE DEF r
  <2> QED
    BY <2>1, <2>2, <2>3, <2>4
<1>2. ASSUME LogQueued
      PROVE  \E p \in run.todo :
                /\ run' \in Run /\ run'.job = run.job /\ run'.todo = run.todo \ {p} /\ run'.at = {p}
                /\ run'.step = "send" /\ run'.moved = run.moved
                /\ log' = [log EXCEPT ![p] = "queued"]
  <2>1. PICK r \in Run : r = run
    BY <1>2, <1>t DEF LogQueued, Running
  <2>2. PICK p \in r.todo : /\ run' = [r EXCEPT !.at = {p}, !.todo = r.todo \ {p}, !.step = "send"]
                            /\ log' = [log EXCEPT ![p] = "queued"]
    BY <1>2, <2>1 DEF LogQueued
  <2>3. PICK a \in SUBSET (Users \X Devices), t \in SUBSET (Users \X Devices), s \in RunSteps :
           a = {p} /\ t = r.todo \ {p} /\ s = "send"
    BY <1>r DEF RunSteps
  <2>4. run' = [r EXCEPT !.at = a, !.todo = t, !.step = s]
    BY <2>2, <2>3
  <2>5. RunIs([r EXCEPT !.at = a, !.todo = t, !.step = s], r.job, t, a, s, r.moved)
    BY <1>r, RunChanges
  <2> QED
    BY <2>1, <2>2, <2>3, <2>4, <2>5 DEF RunIs
<1>s. ASSUME NEW r \in Run, NEW s \in RunSteps, run' = [r EXCEPT !.step = s]
      PROVE  /\ run' \in Run /\ run'.job = r.job /\ run'.todo = r.todo /\ run'.at = r.at
             /\ run'.step = s /\ run'.moved = r.moved
  <2>1. RunIs([r EXCEPT !.step = s], r.job, r.todo, r.at, s, r.moved)
    BY <1>r, RunChanges
  <2> QED
    BY <1>s, <2>1 DEF RunIs
<1>n. ASSUME NEW r \in Run, run' = [r EXCEPT !.step = "next", !.at = {}]
      PROVE  /\ run' \in Run /\ run'.job = r.job /\ run'.todo = r.todo /\ run'.at = {}
             /\ run'.step = "next" /\ run'.moved = r.moved
  <2>1. PICK a \in SUBSET (Users \X Devices), s \in RunSteps : a = {} /\ s = "next"
    BY DEF RunSteps
  <2>2. run' = [r EXCEPT !.step = s, !.at = a]
    BY <1>n, <2>1
  <2>3. RunIs([r EXCEPT !.step = s, !.at = a], r.job, r.todo, a, s, r.moved)
    BY <1>r, RunChanges
  <2> QED
    BY <2>1, <2>2, <2>3 DEF RunIs
<1>3. ASSUME SendPush
      PROVE  \E answer \in {"sent", "failed", "refused"}, accepted \in BOOLEAN :
                /\ run' \in Run /\ run'.job = run.job /\ run'.todo = run.todo /\ run'.at = run.at
                /\ run'.step = answer /\ run'.moved = run.moved
                /\ answer = "sent" => accepted
                /\ pushes' = [p \in Users \X Devices |->
                       IF accepted /\ p \in run.at THEN pushes[p] + 1 ELSE pushes[p]]
  <2>1. PICK r \in Run : r = run
    BY <1>3, <1>t DEF SendPush, Running
  <2>2. PICK accepted \in BOOLEAN, answer \in {"sent", "failed", "refused"} :
           /\ answer = "sent" => accepted
           /\ pushes' = [p \in DOMAIN pushes |-> IF accepted /\ p \in run.at THEN pushes[p] + 1 ELSE pushes[p]]
           /\ run' = [r EXCEPT !.step = answer]
    BY <1>3, <2>1 DEF SendPush
  <2>3. answer \in RunSteps /\ DOMAIN pushes = Users \X Devices
    BY <1>t DEF RunSteps
  <2>4. /\ run' \in Run /\ run'.job = r.job /\ run'.todo = r.todo /\ run'.at = r.at
        /\ run'.step = answer /\ run'.moved = r.moved
    BY <1>s, <2>2, <2>3
  <2> QED
    BY <2>1, <2>2, <2>3, <2>4
<1>4. ASSUME RecordPush
      PROVE  /\ run' \in Run /\ run'.job = run.job /\ run'.todo = run.todo /\ run'.moved = run.moved
             /\ \/ run'.at = run.at /\ run'.step = "revoke"
                \/ run'.at = {} /\ run'.step = "next"
             /\ log' = [p \in Users \X Devices |-> IF p \in run.at THEN Outcome(run.step) ELSE log[p]]
  <2>1. PICK r \in Run : r = run
    BY <1>4, <1>t DEF RecordPush
  <2>2. /\ run' = [r EXCEPT !.step = "revoke"] \/ run' = [r EXCEPT !.step = "next", !.at = {}]
        /\ log' = [p \in Users \X Devices |-> IF p \in run.at THEN Outcome(run.step) ELSE log[p]]
        /\ "revoke" \in RunSteps
    BY <1>4, <1>t, <2>1 DEF RecordPush, NextToken, RunSteps
  <2>3. CASE run' = [r EXCEPT !.step = "revoke"]
    BY <1>s, <2>1, <2>2, <2>3
  <2>4. CASE run' = [r EXCEPT !.step = "next", !.at = {}]
    BY <1>n, <2>1, <2>2, <2>4
  <2> QED
    BY <2>2, <2>3, <2>4
<1>5. ASSUME RevokeToken
      PROVE  /\ run' \in Run /\ run'.job = run.job /\ run'.todo = run.todo /\ run'.moved = run.moved
             /\ run'.at = {} /\ run'.step = "next"
  <2>1. PICK r \in Run : r = run
    BY <1>5, <1>t DEF RevokeToken, Running
  <2>2. run' = [r EXCEPT !.step = "next", !.at = {}]
    BY <1>5, <2>1 DEF RevokeToken, NextToken
  <2> QED
    BY <1>n, <2>1, <2>2
<1>6. ASSUME NEW d \in Devices, Moves(d), ToUse(d)
      PROVE  /\ run' \in Run /\ run'.job = run.job /\ run'.todo = run.todo /\ run'.at = run.at
             /\ run'.step = run.step /\ run'.moved = run.moved \cup {d}
  <2>1. PICK r \in Run : r = run
    BY <1>6, <1>t DEF ToUse
  <2>2. run' = [r EXCEPT !.moved = r.moved \cup {d}]
    BY <1>6, <2>1 DEF Moves
  <2>3. PICK m \in SUBSET Devices : m = r.moved \cup {d}
    BY <1>r
  <2>4. RunIs([r EXCEPT !.moved = m], r.job, r.todo, r.at, r.step, m)
    BY <1>r, RunChanges
  <2> QED
    BY <2>1, <2>2, <2>3, <2>4 DEF RunIs
<1>7. ASSUME NEW d \in Devices, Moves(d), ~ToUse(d) PROVE run' = run
  BY <1>7 DEF Moves
<1> QED
  BY <1>1, <1>2, <1>3, <1>4, <1>5, <1>6, <1>7

-----------------------------------------------------------------------------
(* Types *)

\* Nothing has been asked for at the start.
LEMMA TypesBegin == Init => TypeOK
<1> SUFFICES ASSUME Init PROVE TypeOK
  OBVIOUS
<1>1. queue \in Seq(Job)
  BY DEF Init
<1>2. announcement \in AnnouncementRow /\ device \in [Devices -> DeviceRow]
  BY PublishingAssumption DEF Init, AnnouncementRow, DeviceRow
<1>3. log \in [Users \X Devices -> LogStatus] /\ pushes \in [Users \X Devices -> Nat]
  BY DEF Init, LogStatus
<1>4. {moves, asked, sends} \subseteq Nat
  BY SMT DEF Init
<1>5. {doubled, cut} \subseteq BOOLEAN
  BY Zenon DEF Init
<1> QED
  BY <1>1, <1>2, <1>3, <1>4, <1>5 DEF Init, TypeOK

\* Every step keeps the types.
LEMMA TypesKept ==
  ASSUME TypeOK, [Next]_vars
  PROVE  TypeOK'
<1> USE DEF TypeOK
<1>w. \A w \in Senders : \A q : Becomes(w, q) => req' \in [Senders -> Request \cup {NoRequest}]
  BY DEF Becomes
<1>1. CASE Schedule \/ remove
  <2>1. announcement' \in AnnouncementRow
    BY <1>1 DEF Schedule, remove, AnnouncementRow
  <2>2. asked' \in Nat
    BY <1>1 DEF Schedule, remove, history
  <2> QED
    BY <1>1, <2>1, <2>2 DEF Schedule, remove, pushing, history
<1>2. ASSUME NEW w \in Senders, BeginSend(w) \/ BeginDispatch(w) PROVE TypeOK'
  <2>1. req' \in [Senders -> Request \cup {NoRequest}]
    BY <1>2, <1>w, Drafting
  <2>2. CASE BeginSend(w)
    BY <2>1, <2>2 DEF BeginSend, sending, pushing
  <2>3. CASE BeginDispatch(w)
    <3>1. doubled' \in BOOLEAN
      BY <2>3 DEF BeginDispatch
    <3> QED
      BY <2>1, <2>3, <3>1 DEF BeginDispatch, sending, pushing
  <2> QED
    BY <1>2, <2>2, <2>3
<1>3. ASSUME NEW w \in Senders, Send(w) PROVE TypeOK'
  <2>1. req' \in [Senders -> Request \cup {NoRequest}]
    BY <1>3, <1>w, Drafting, Filling DEF Send
  <2>2. \A v \in Senders : req[v] # NoRequest => req[v].to \subseteq Users /\ req[v].step \in RequestSteps
    BY DEF Request, RequestSteps
  <2>3. CASE DispatchSend(w)
    BY <2>1, <2>3 DEF DispatchSend, sending, pushing, history
  <2>4. CASE StoreSend(w)
    <3>1. announcement' \in AnnouncementRow /\ recipients' \subseteq Users
      BY <2>2, <2>4 DEF StoreSend, InStep, AnnouncementRow
    <3>2. sends' \in Nat
      BY <2>4 DEF StoreSend
    <3> QED
      BY <2>1, <2>4, <3>1, <3>2 DEF StoreSend, pushing
  <2>5. CASE QueueMails(w)
    BY <2>1, <2>5 DEF QueueMails, QueuedMails, pushing
  <2>6. CASE ReadNotified(w)
    BY <2>1, <2>6 DEF ReadNotified, NotNotified, sending, pushing
  <2>7. CASE StoreNotified(w)
    BY <2>1, <2>2, <2>7 DEF StoreNotified, sending, pushing, history, InStep
  <2>8. CASE QueuePush(w)
    <3>1. [users |-> req[w].to, stalled |-> FALSE] \in Job
      BY <2>2, <2>8 DEF Job, QueuePush, InStep
    <3>2. queue' \in Seq(Job)
      BY <2>8, <3>1 DEF QueuePush, Queued
    <3> QED
      BY <2>1, <2>8, <3>2 DEF QueuePush, sending, pushing, history
  <2>9. CASE FailSend(w)
    <3>1. cut' \in BOOLEAN /\ Unpushed(w) \subseteq Users
      BY <2>2, <2>9 DEF FailSend, Unpushed, InStep
    <3> QED
      BY <2>1, <2>9, <3>1 DEF FailSend, sending, pushing
  <2> QED
    BY <1>3, <2>3, <2>4, <2>5, <2>6, <2>7, <2>8, <2>9 DEF Send
<1>4. ASSUME NEW d \in Devices, (\E u \in Users : registerDevice(u, d)) \/ revokeDevice(d) PROVE TypeOK'
  <2>0. Moves(d) /\ moves' \in Nat
    BY <1>4 DEF registerDevice, revokeDevice, Moves
  <2>1. Moves(d) /\ device' \in [Devices -> DeviceRow]
    <3>1. CASE \E u \in Users : registerDevice(u, d)
      BY <2>0, <3>1 DEF registerDevice, DeviceRow
    <3>2. CASE revokeDevice(d)
      BY <2>0, <3>2 DEF revokeDevice, DeviceRow
    <3> QED
      BY <1>4, <3>1, <3>2
  <2>2. run' \in Run \cup {NoRun}
    BY <2>1, Working
  <2> QED
    BY <2>0, <2>1, <2>2 DEF Moves, sending, history
<1>5. CASE Work
  <2>1. CASE StartJob
    <3>0. queue \in Seq(Job) /\ queue # <<>> /\ queue' = Tail(queue) /\ run' \in Run
      BY <2>1, Working
    <3>1. queue' \in Seq(Job) /\ run' \in Run
      BY <3>0, HeadTailProperties
    <3> QED
      BY <2>1, <3>1 DEF StartJob, sending, history
  <2>2. CASE LogQueued
    <3>1. run' \in Run /\ log' \in [Users \X Devices -> LogStatus]
      BY <2>2, Working DEF LogStatus
    <3> QED
      BY <2>2, <3>1 DEF LogQueued, sending, history
  <2>3. CASE SendPush
    <3>1. run' \in Run /\ pushes' \in [Users \X Devices -> Nat]
      <4>1. PICK accepted \in BOOLEAN :
               /\ run' \in Run
               /\ pushes' = [p \in Users \X Devices |->
                      IF accepted /\ p \in run.at THEN pushes[p] + 1 ELSE pushes[p]]
        BY <2>3, Working
      <4> QED
        BY <4>1
    <3> QED
      BY <2>3, <3>1 DEF SendPush, sending, history
  <2>4. CASE RecordPush
    <3>1. run' \in Run /\ log' \in [Users \X Devices -> LogStatus]
      BY <2>4, Working DEF LogStatus, Outcome
    <3> QED
      BY <2>4, <3>1 DEF RecordPush, sending, history
  <2>5. CASE RevokeToken
    <3>1. run' \in Run
      BY <2>5, Working
    <3>2. device' \in [Devices -> DeviceRow]
      BY <2>5 DEF RevokeToken, DeviceRow
    <3> QED
      BY <2>5, <3>1, <3>2 DEF RevokeToken, sending, history
  <2>6. CASE EndJob \/ JobFails
    <3>1. run # NoRun => run.job.users \subseteq Users
      BY DEF Run, Job
    <3> QED
      BY <2>6, <3>1 DEF EndJob, JobFails, Running, sending
  <2> QED
    BY <1>5, <2>1, <2>2, <2>3, <2>4, <2>5, <2>6 DEF Work
<1>6. CASE Crash
  <2>1. run # NoRun => run.job \in Job /\ run.job.users \subseteq Users
    BY DEF Run, Job
  <2>2. \A w \in Senders : Unpushed(w) \subseteq Users
    BY DEF Unpushed, InStep, Request
  <2>3. UNION {Unpushed(w) : w \in Senders} \subseteq Users
    BY <2>2
  <2>4. queue' \in Seq(Job)
    <3>1. run # NoRun => [run.job EXCEPT !.stalled = TRUE] \in Job
      BY <2>1 DEF Job
    <3>2. CASE queue' = queue
      BY <3>2
    <3>3. CASE run # NoRun /\ queue' = <<[run.job EXCEPT !.stalled = TRUE]>> \o queue
      <4>1. <<[run.job EXCEPT !.stalled = TRUE]>> \in Seq(Job)
        BY <3>1, <3>3
      <4> QED
        BY <3>3, <4>1, ConcatProperties
    <3> QED
      BY <1>6, <3>2, <3>3 DEF Crash
  <2>5. /\ again' \subseteq Users /\ forgotten' \subseteq Users
        /\ cut' \in BOOLEAN /\ run' = NoRun /\ req' \in [Senders -> Request \cup {NoRequest}]
    <3>1. again' \subseteq Users
      BY <1>6, <2>1 DEF Crash
    <3>2. forgotten' \subseteq Users
      <4> DEFINE stopped == UNION {Unpushed(w) : w \in Senders}
                 stalled == IF run = NoRun THEN {} ELSE run.job.users
      <4>1. stopped \subseteq Users /\ stalled \subseteq Users
        BY <2>1, <2>3
      <4>2. forgotten' = forgotten \cup stopped
                            \cup (IF run # NoRun /\ ~run.job.stalled THEN {} ELSE stalled)
        BY <1>6 DEF Crash
      <4> HIDE DEF stopped, stalled
      <4> QED
        BY <4>1, <4>2
    <3>3. cut' \in BOOLEAN
      BY <1>6 DEF Crash
    <3>4. run' = NoRun /\ req' \in [Senders -> Request \cup {NoRequest}]
      BY <1>6 DEF Crash
    <3> QED
      BY <3>1, <3>2, <3>3, <3>4
  <2> QED
    BY <1>6, <2>4, <2>5 DEF Crash, sending
<1>7. CASE UNCHANGED vars
  BY <1>7 DEF vars, sending, pushing, history
<1> QED
  BY <1>1, <1>2, <1>3, <1>4, <1>5, <1>6, <1>7 DEF Next

-----------------------------------------------------------------------------
(* Sent once *)

\* The sends a client asked for that have not stored yet.
Begun == {w \in Senders : req[w] # NoRequest /\ req[w].step = "store" /\ ~req[w].due}

\* A send that was begun for a scheduled announcement.
DueAt(w) == req[w] # NoRequest /\ req[w].due

\* The send a schedule is owed: not yet begun, or begun and not yet stored.
Owed == IF announcement.status = "scheduled" \/ (\E w \in Senders : DueAt(w)) THEN 1 ELSE 0

\* Every send that was made, is under way or is owed to a schedule was asked for, while no two
\* dispatches met.
SendsCounted ==
    /\ IsFiniteSet(Begun)
    /\ ~doubled =>
          /\ \A v, w \in Senders : DueAt(v) /\ DueAt(w) => v = w
          /\ sends + Cardinality(Begun) + Owed <= asked

\* A dispatch that has not read the announcement again is one.
DuesAreDue == \A w \in Senders : req[w] # NoRequest /\ req[w].step = "due" => req[w].due

\* Every step keeps it so.
LEMMA DuesKept ==
  ASSUME TypeOK, DuesAreDue, [Next]_vars
  PROVE  DuesAreDue'
<1>1. ASSUME NEW w \in Senders,
             \/ Becomes(w, NoRequest)
             \/ \E q \in Request : Becomes(w, q) /\ (q.step # "due" \/ q.due = TRUE)
      PROVE  DuesAreDue'
  BY <1>1 DEF Becomes, DuesAreDue
<1>2. ASSUME NEW w \in Senders, BeginSend(w) \/ BeginDispatch(w) \/ DispatchSend(w) \/ StoreSend(w)
      PROVE  DuesAreDue'
  <2>1. \/ Becomes(w, NoRequest)
        \/ \E q \in Request : Becomes(w, q) /\ (q.step # "due" \/ q.due = TRUE)
    BY <1>2, Drafting
  <2> QED
    BY <1>1, <2>1
<1>3. ASSUME NEW w \in Senders,
             QueueMails(w) \/ ReadNotified(w) \/ StoreNotified(w) \/ QueuePush(w) \/ FailSend(w)
      PROVE  DuesAreDue'
  <2>1. \/ Becomes(w, NoRequest)
        \/ \E q \in Request : Becomes(w, q) /\ (q.step # "due" \/ q.due = TRUE)
    BY <1>3, Filling
  <2> QED
    BY <1>1, <2>1
<1>4. CASE Crash
  BY <1>4 DEF Crash, DuesAreDue
<1>5. ASSUME UNCHANGED req PROVE DuesAreDue'
  BY <1>5 DEF DuesAreDue
<1>6. ASSUME \/ Schedule \/ remove \/ Work \/ UNCHANGED vars
             \/ \E d \in Devices : (\E u \in Users : registerDevice(u, d)) \/ revokeDevice(d)
      PROVE  UNCHANGED req
  BY <1>6 DEF Schedule, remove, Work, StartJob, LogQueued, SendPush, RecordPush, RevokeToken, EndJob,
              JobFails, registerDevice, revokeDevice, Moves, vars, sending, history, pushing
<1> QED
  BY <1>2, <1>3, <1>4, <1>5, <1>6 DEF Next, Send

\* Every step keeps the count: a schedule is paid by the one dispatch that stores, and the status
\* says so in the same transaction.
LEMMA SendsKept ==
  ASSUME TypeOK, DuesAreDue, SendsCounted, [Next]_vars
  PROVE  SendsCounted'
<1>t. /\ sends \in Nat /\ asked \in Nat /\ doubled \in BOOLEAN /\ IsFiniteSet(Begun)
      /\ Cardinality(Begun) \in Nat /\ Owed \in {0, 1}
      /\ NoRequest \notin Request
  BY FS_CardinalityType, NoRequestAssumption DEF TypeOK, SendsCounted, Owed
\* What may be counted less.
<1>f. ASSUME Begun' \subseteq Begun, \A v \in Senders : DueAt(v)' => DueAt(v),
             doubled' = doubled, sends' = sends, asked' = asked,
             announcement'.status = "scheduled" => announcement.status = "scheduled"
      PROVE  SendsCounted'
  <2>1. IsFiniteSet(Begun') /\ Cardinality(Begun') <= Cardinality(Begun) /\ Cardinality(Begun') \in Nat
    BY <1>f, <1>t, FS_Subset, FS_CardinalityType
  <2>2. Owed' \in {0, 1} /\ Owed' <= Owed
    BY <1>f DEF Owed
  <2>3. ~doubled => sends + Cardinality(Begun') + Owed' <= asked
    BY <1>t, <2>1, <2>2 DEF SendsCounted
  <2> QED
    BY <1>f, <2>1, <2>3 DEF SendsCounted
<1>b. ASSUME NEW w \in Senders, NEW q \in Request, Becomes(w, q)
      PROVE  /\ Begun' = IF q.step = "store" /\ ~q.due THEN Begun \cup {w} ELSE Begun \ {w}
             /\ \A v \in Senders : DueAt(v)' <=> IF v = w THEN q.due ELSE DueAt(v)
  BY <1>b, <1>t DEF Becomes, Begun, DueAt
<1>d. ASSUME NEW w \in Senders, Becomes(w, NoRequest)
      PROVE  /\ Begun' = Begun \ {w}
             /\ \A v \in Senders : DueAt(v)' => DueAt(v)
  BY <1>d DEF Becomes, Begun, DueAt
\* A request that goes on after it has stored, or ends.
<1>g. ASSUME NEW w \in Senders, UNCHANGED <<announcement, asked, sends, doubled>>,
             \/ Becomes(w, NoRequest)
             \/ \E q \in Request : Becomes(w, q) /\ q.step # "store" /\ q.due = req[w].due /\ req[w] # NoRequest
      PROVE  SendsCounted'
  <2>1. CASE Becomes(w, NoRequest)
    BY <1>d, <1>f, <1>g, <2>1
  <2>2. ASSUME NEW q \in Request, Becomes(w, q), q.step # "store", q.due = req[w].due, req[w] # NoRequest
        PROVE  SendsCounted'
    <3>1. Begun' \subseteq Begun
      BY <1>b, <2>2
    <3>2. \A v \in Senders : DueAt(v)' => DueAt(v)
      BY <1>b, <2>2 DEF DueAt
    <3> QED
      BY <1>f, <1>g, <3>1, <3>2
  <2> QED
    BY <1>g, <2>1, <2>2
<1>1. CASE Schedule
  <2>1. UNCHANGED <<req, sends, doubled>> /\ asked' = asked + 1
    BY <1>1 DEF Schedule, pushing
  <2>2. Begun' = Begun /\ \A v \in Senders : DueAt(v)' <=> DueAt(v)
    BY <2>1 DEF Begun, DueAt
  <2>3. Owed' \in {0, 1} /\ Owed' <= Owed + 1
    BY <1>t DEF Owed
  <2>4. ~doubled => sends + Cardinality(Begun) + Owed' <= asked + 1
    BY <1>t, <2>3 DEF SendsCounted
  <2> QED
    BY <2>1, <2>2, <2>4 DEF SendsCounted
<1>2. ASSUME NEW w \in Senders, BeginSend(w) PROVE SendsCounted'
  <2>1. PICK q \in Request : Becomes(w, q) /\ q.step = "store" /\ q.due = FALSE
    BY <1>2, Drafting
  <2>2. req[w] = NoRequest /\ asked' = asked + 1 /\ UNCHANGED <<announcement, sends, doubled>>
    BY <1>2 DEF BeginSend, sending
  <2>3. w \notin Begun /\ Begun' = Begun \cup {w} /\ \A v \in Senders : DueAt(v)' => DueAt(v)
    BY <1>b, <2>1, <2>2 DEF Begun
  <2>4. IsFiniteSet(Begun') /\ Cardinality(Begun') = Cardinality(Begun) + 1
    BY <1>t, <2>3, FS_AddElement
  <2>5. Owed' \in {0, 1} /\ Owed' <= Owed
    BY <2>2, <2>3 DEF Owed
  <2>6. ~doubled => sends + Cardinality(Begun') + Owed' <= asked + 1
    BY <1>t, <2>4, <2>5 DEF SendsCounted
  <2> QED
    BY <2>2, <2>3, <2>4, <2>6 DEF SendsCounted
<1>3. ASSUME NEW w \in Senders, BeginDispatch(w) PROVE SendsCounted'
  <2>1. PICK q \in Request : Becomes(w, q) /\ q.step = "due" /\ q.due = TRUE
    BY <1>3, Drafting
  <2>2. /\ req[w] = NoRequest /\ announcement.status = "scheduled" /\ UNCHANGED <<announcement, asked, sends>>
        /\ doubled' = (doubled \/ \E v \in Senders : req[v] # NoRequest /\ req[v].due)
    BY <1>3 DEF BeginDispatch, Due, sending
  <2>3. Begun' = Begun
    BY <1>b, <2>1, <2>2 DEF Begun
  <2>4. \A v \in Senders : DueAt(v)' => v = w \/ DueAt(v)
    BY <1>b, <2>1
  <2>5. Owed = 1 /\ Owed' = 1
    BY <2>2 DEF Owed
  <2>6. ~doubled' => ~doubled /\ \A v \in Senders : ~DueAt(v)
    BY <2>2 DEF DueAt
  <2>7. ~doubled' => sends + Cardinality(Begun) + Owed' <= asked
    BY <2>5, <2>6 DEF SendsCounted
  <2> QED
    BY <1>t, <2>2, <2>3, <2>4, <2>6, <2>7 DEF SendsCounted
<1>4. ASSUME NEW w \in Senders, DispatchSend(w) PROVE SendsCounted'
  <2>1. req[w] # NoRequest /\ req[w].step = "due" /\ UNCHANGED <<announcement, asked, sends, doubled>>
    BY <1>4 DEF DispatchSend, InStep, sending, history
  <2>2. CASE Becomes(w, NoRequest)
    BY <1>g, <2>1, <2>2
  <2>3. ASSUME NEW q \in Request, Becomes(w, q), q.step = "store", q.due = req[w].due PROVE SendsCounted'
    <3>1. req[w].due
      BY <2>1 DEF DuesAreDue
    <3>2. Begun' \subseteq Begun /\ \A v \in Senders : DueAt(v)' => DueAt(v)
      BY <1>b, <2>1, <2>3, <3>1 DEF DueAt
    <3> QED
      BY <1>f, <2>1, <3>2
  <2> QED
    BY <1>4, <2>2, <2>3, Drafting
<1>5. ASSUME NEW w \in Senders, StoreSend(w) PROVE SendsCounted'
  <2>1. PICK q \in Request : Becomes(w, q) /\ q.step = "mail" /\ q.due = FALSE
    BY <1>5, Drafting
  <2>2. /\ req[w] # NoRequest /\ req[w].step = "store" /\ UNCHANGED <<asked, doubled>>
        /\ sends' = sends + 1 /\ announcement'.status = "sent"
    BY <1>5 DEF StoreSend, InStep, TypeOK, AnnouncementRow
  <2>3. Begun' = Begun \ {w} /\ \A v \in Senders : DueAt(v)' <=> v # w /\ DueAt(v)
    BY <1>b, <2>1
  <2>4. CASE DueAt(w)
    <3>1. w \notin Begun
      BY <2>4 DEF Begun, DueAt
    <3>2. Begun' = Begun
      BY <2>3, <3>1
    <3>3. ~doubled => Owed = 1 /\ Owed' = 0
      BY <2>2, <2>3, <2>4 DEF Owed, SendsCounted
    <3>4. ~doubled => (sends + 1) + Cardinality(Begun) + Owed' <= asked
      BY <1>t, <3>3 DEF SendsCounted
    <3> QED
      BY <1>t, <2>2, <2>3, <3>2, <3>4 DEF SendsCounted
  <2>5. CASE ~DueAt(w)
    <3>1. w \in Begun
      BY <2>2, <2>5 DEF Begun, DueAt
    <3>2. IsFiniteSet(Begun') /\ Cardinality(Begun') = Cardinality(Begun) - 1
      BY <1>t, <2>3, <3>1, FS_RemoveElement
    <3>3. Owed' \in {0, 1} /\ Owed' <= Owed
      BY <2>2, <2>3 DEF Owed
    <3>4. ~doubled => (sends + 1) + Cardinality(Begun') + Owed' <= asked
      BY <1>t, <3>2, <3>3 DEF SendsCounted
    <3> QED
      BY <2>2, <2>3, <3>2, <3>4 DEF SendsCounted
  <2> QED
    BY <2>4, <2>5
<1>6. ASSUME NEW w \in Senders,
             QueueMails(w) \/ ReadNotified(w) \/ StoreNotified(w) \/ QueuePush(w) \/ FailSend(w)
      PROVE  SendsCounted'
  <2>1. UNCHANGED <<announcement, asked, sends, doubled>> /\ req[w] # NoRequest
    BY <1>6 DEF QueueMails, ReadNotified, StoreNotified, QueuePush, FailSend, InStep, sending, history
  <2>2. \/ Becomes(w, NoRequest)
        \/ \E q \in Request : Becomes(w, q) /\ q.step # "store" /\ q.due = req[w].due
    BY <1>6, Filling
  <2> QED
    BY <1>g, <2>1, <2>2
<1>7. CASE Crash
  <2>1. UNCHANGED <<announcement, asked, sends, doubled>> /\ \A v \in Senders : req'[v] = NoRequest
    BY <1>7 DEF Crash, sending
  <2>2. Begun' = {} /\ \A v \in Senders : ~DueAt(v)'
    BY <2>1 DEF Begun, DueAt
  <2> QED
    BY <1>f, <2>1, <2>2
<1>8. CASE UNCHANGED <<req, asked, sends, doubled>> /\ announcement'.status = announcement.status
  <2>1. Begun' = Begun /\ \A v \in Senders : DueAt(v)' <=> DueAt(v)
    BY <1>8 DEF Begun, DueAt
  <2> QED
    BY <1>8, <1>f, <2>1
<1>9. ASSUME remove \/ Work \/ UNCHANGED vars
              \/ \E d \in Devices : (\E u \in Users : registerDevice(u, d)) \/ revokeDevice(d)
      PROVE  UNCHANGED <<req, asked, sends, doubled>> /\ announcement'.status = announcement.status
  <2>1. CASE remove
    BY <2>1 DEF remove, pushing, history, TypeOK, AnnouncementRow
  <2>2. CASE Work
    BY <2>2 DEF Work, StartJob, LogQueued, SendPush, RecordPush, RevokeToken, EndJob, JobFails, sending, history
  <2>3. CASE UNCHANGED vars
    BY <2>3 DEF vars, sending, pushing, history
  <2>4. CASE \E d \in Devices : (\E u \in Users : registerDevice(u, d)) \/ revokeDevice(d)
    BY <2>4 DEF registerDevice, revokeDevice, Moves, sending, history
  <2> QED
    BY <1>9, <2>1, <2>2, <2>3, <2>4
<1> QED
  BY <1>1, <1>2, <1>3, <1>4, <1>5, <1>6, <1>7, <1>8, <1>9 DEF Next, Send

\* Nothing is sent or owed at the start.
LEMMA SendsBegin == Init => SendsCounted /\ DuesAreDue
<1> SUFFICES ASSUME Init PROVE SendsCounted /\ DuesAreDue
  OBVIOUS
<1>1. Begun = {} /\ Owed = 0 /\ DuesAreDue /\ \A w \in Senders : ~DueAt(w)
  BY DEF Init, Begun, Owed, DueAt, DuesAreDue
<1>2. IsFiniteSet(Begun) /\ Cardinality(Begun) = 0
  BY <1>1, FS_EmptySet
<1> QED
  BY <1>1, <1>2 DEF SendsCounted, Init

-----------------------------------------------------------------------------
(* Everybody reached *)

\* After its transaction a send mails everybody, then notifies everybody: until it has, it is on
\* its way there.
Reached ==
    ~cut => \A u \in recipients :
        /\ u \in mailed \/ \E w \in Senders : InStep(w, "mail")
        /\ u \in notified \/ \E w \in Senders : InStep(w, "mail") \/ InStep(w, "read") \/ BeingNotified(u, w)

\* Every step keeps it: each queue is filled with all that are missing in it, or the send ends
\* there and is cut.
LEMMA ReachedKept ==
  ASSUME TypeOK, Reached, [Next]_vars
  PROVE  Reached'
<1>t. cut \in BOOLEAN /\ NoRequest \notin Request
  BY NoRequestAssumption DEF TypeOK
\* A step of a request that is not between its transaction and the notifications.
<1>b. ASSUME NEW w \in Senders, NEW q \in Request, Becomes(w, q)
      PROVE  /\ \A s : InStep(w, s)' <=> q.step = s
             /\ \A v \in Senders : \A s : v # w => (InStep(v, s)' <=> InStep(v, s))
             /\ \A u : BeingNotified(u, w)' <=> q.step = "notify" /\ u \in q.to
             /\ \A v \in Senders : \A u : v # w => (BeingNotified(u, v)' <=> BeingNotified(u, v))
  BY <1>b, <1>t DEF Becomes, InStep, BeingNotified
<1>d. ASSUME NEW w \in Senders, Becomes(w, NoRequest)
      PROVE  /\ \A v \in Senders : \A s : v # w => (InStep(v, s)' <=> InStep(v, s))
             /\ \A v \in Senders : \A u : v # w => (BeingNotified(u, v)' <=> BeingNotified(u, v))
  BY <1>d DEF Becomes, InStep, BeingNotified
<1>f. ASSUME NEW w \in Senders, \E q \in Request \cup {NoRequest} : Becomes(w, q),
             ~InStep(w, "mail"), ~InStep(w, "read"), ~InStep(w, "notify"),
             UNCHANGED <<recipients, mailed, notified, cut>>
      PROVE  Reached'
  <2>1. /\ \A v \in Senders : \A s : v # w => (InStep(v, s)' <=> InStep(v, s))
        /\ \A v \in Senders : \A u : v # w => (BeingNotified(u, v)' <=> BeingNotified(u, v))
    BY <1>b, <1>d, <1>f
  <2>2. \A u : ~BeingNotified(u, w)
    BY <1>f DEF BeingNotified
  <2> QED
    BY <1>f, <2>1, <2>2 DEF Reached
<1>s. \A w \in Senders : \A s, t : InStep(w, s) /\ InStep(w, t) => s = t
  BY DEF InStep
<1>2. ASSUME NEW w \in Senders, BeginSend(w) \/ BeginDispatch(w) \/ DispatchSend(w) PROVE Reached'
  <2>1. \E q \in Request \cup {NoRequest} : Becomes(w, q)
    BY <1>2, Drafting
  <2>2. ~InStep(w, "mail") /\ ~InStep(w, "read") /\ ~InStep(w, "notify")
    BY <1>2 DEF BeginSend, BeginDispatch, DispatchSend, InStep
  <2>3. UNCHANGED <<recipients, mailed, notified, cut>>
    BY <1>2 DEF BeginSend, BeginDispatch, DispatchSend, sending, history
  <2> QED
    BY <1>f, <2>1, <2>2, <2>3
<1>3. ASSUME NEW w \in Senders, StoreSend(w) PROVE Reached'
  <2>0. PICK q \in Request : Becomes(w, q) /\ q.step = "mail"
    BY <1>3, Drafting
  <2>1. InStep(w, "mail")'
    BY <1>b, <2>0
  <2> QED
    BY <2>1 DEF Reached
<1>4. ASSUME NEW w \in Senders, QueueMails(w) PROVE Reached'
  <2>1. CASE cut' = TRUE
    BY <2>1 DEF Reached
  <2>2. CASE /\ mailed' = mailed \cup recipients
             /\ \E q \in Request : Becomes(w, q) /\ q.step = "read" /\ q.due = req[w].due
    <3>1. InStep(w, "read")' /\ recipients' = recipients
      BY <1>4, <1>b, <2>2 DEF QueueMails
    <3> QED
      BY <2>2, <3>1 DEF Reached
  <2> QED
    BY <1>4, <2>1, <2>2, Filling
<1>5. ASSUME NEW w \in Senders, ReadNotified(w) PROVE Reached'
  <2>0. UNCHANGED <<recipients, mailed, notified, cut>> /\ ~InStep(w, "mail") /\ ~InStep(w, "notify")
    BY <1>5, <1>s DEF ReadNotified, sending
  <2>1. CASE Becomes(w, NoRequest) /\ NotNotified = {}
    BY <1>d, <2>0, <2>1 DEF Reached, NotNotified
  <2>2. ASSUME NEW q \in Request, Becomes(w, q), q.step = "notify", q.to = NotNotified PROVE Reached'
    <3>1. \A u \in recipients : u \in notified \/ BeingNotified(u, w)'
      BY <1>b, <2>2 DEF NotNotified
    <3>2. \A v \in Senders : InStep(v, "mail") => InStep(v, "mail")'
      BY <1>b, <2>0, <2>2
    <3> QED
      BY <2>0, <3>1, <3>2 DEF Reached
  <2> QED
    BY <1>5, <2>1, <2>2, Filling
<1>6. ASSUME NEW w \in Senders, StoreNotified(w) PROVE Reached'
  <2>0. /\ UNCHANGED <<recipients, mailed, cut>> /\ ~InStep(w, "mail") /\ ~InStep(w, "read")
        /\ notified' = notified \cup req[w].to
    BY <1>6, <1>s DEF StoreNotified, sending, history
  <2>1. PICK q \in Request : Becomes(w, q)
    BY <1>6, Filling
  <2>2. \A u : BeingNotified(u, w) => u \in notified'
    BY <2>0 DEF BeingNotified
  <2>3. \A v \in Senders : /\ InStep(v, "mail") => InStep(v, "mail")'
                           /\ InStep(v, "read") => InStep(v, "read")'
                           /\ \A u : v # w /\ BeingNotified(u, v) => BeingNotified(u, v)'
    BY <1>b, <2>0, <2>1
  <2> QED
    BY <2>0, <2>2, <2>3 DEF Reached
<1>7. ASSUME NEW w \in Senders, QueuePush(w) \/ FailSend(w) PROVE Reached'
  <2>1. Becomes(w, NoRequest) /\ UNCHANGED <<recipients, mailed, notified>>
    BY <1>7, Filling DEF QueuePush, FailSend, sending
  <2>2. CASE cut'
    BY <2>2 DEF Reached
  <2>3. CASE ~cut'
    <3>1. ~InStep(w, "mail") /\ ~InStep(w, "read") /\ ~InStep(w, "notify") /\ cut' = cut
      BY <1>7, <1>t, <2>3 DEF QueuePush, FailSend, InStep, history
    <3> QED
      BY <1>f, <2>1, <3>1
  <2> QED
    BY <2>2, <2>3
<1>8. CASE Crash
  <2>1. UNCHANGED <<recipients, mailed, notified>>
    BY <1>8 DEF Crash, sending
  <2>2. CASE cut'
    BY <2>2 DEF Reached
  <2>3. CASE ~cut'
    <3>1. ~cut /\ \A w \in Senders : ~InStep(w, "mail") /\ ~InStep(w, "read") /\ ~InStep(w, "notify")
      BY <1>8, <2>3 DEF Crash, InStep
    <3>2. \A u \in recipients : u \in mailed /\ u \in notified
      BY <3>1 DEF Reached, BeingNotified
    <3> QED
      BY <2>1, <3>2 DEF Reached
  <2> QED
    BY <2>2, <2>3
<1>9. ASSUME \/ Schedule \/ remove \/ Work \/ UNCHANGED vars
             \/ \E d \in Devices : (\E u \in Users : registerDevice(u, d)) \/ revokeDevice(d)
      PROVE  UNCHANGED <<recipients, mailed, notified, cut, req>>
  BY <1>9 DEF Schedule, remove, Work, StartJob, LogQueued, SendPush, RecordPush, RevokeToken, EndJob,
              JobFails, registerDevice, revokeDevice, Moves, vars, sending, history, pushing
<1>10. ASSUME UNCHANGED <<recipients, mailed, notified, cut, req>> PROVE Reached'
  <2>1. \A w \in Senders : \A s, u : (InStep(w, s)' <=> InStep(w, s)) /\ (BeingNotified(u, w)' <=> BeingNotified(u, w))
    BY <1>10 DEF InStep, BeingNotified
  <2> QED
    BY <1>10, <2>1 DEF Reached
<1> QED
  BY <1>2, <1>3, <1>4, <1>5, <1>6, <1>7, <1>8, <1>9, <1>10 DEF Next, Send

\* Every step keeps NotificationsArePushed: from the row to the job, from the queue to the run, and
\* from the run to the history, back to the queue after a crash.
LEMMA PushedKept ==
  ASSUME TypeOK, NotificationsArePushed, [Next]_vars
  PROVE  NotificationsArePushed'
<1>t. /\ NoRequest \notin Request /\ NoRun \notin Run
      /\ queue \in Seq(Job)
      /\ \A v \in Senders : req[v] # NoRequest => req[v].to \subseteq Users
  BY NoRequestAssumption DEF TypeOK, Request
\* Whatever else a step does: nobody who had a push coming may lose it.
<1>f. ASSUME notified' = notified, tried \subseteq tried', forgotten \subseteq forgotten',
             \A u \in notified : \A v \in Senders :
                u \in Unpushed(v) =>
                    \/ u \in Unpushed(v)' \/ u \in forgotten'
                    \/ \E j \in DOMAIN queue' : u \in queue'[j].users,
             \A u \in notified : \A i \in DOMAIN queue :
                u \in queue[i].users =>
                    \/ \E j \in DOMAIN queue' : u \in queue'[j].users
                    \/ run' # NoRun /\ u \in run'.job.users,
             \A u \in notified :
                run # NoRun /\ u \in run.job.users =>
                    \/ u \in tried' \cup forgotten'
                    \/ \E j \in DOMAIN queue' : u \in queue'[j].users
                    \/ run' # NoRun /\ u \in run'.job.users
      PROVE  NotificationsArePushed'
  BY <1>f DEF NotificationsArePushed
<1>b. ASSUME NEW w \in Senders, \E q \in Request \cup {NoRequest} : Becomes(w, q)
      PROVE  \A v \in Senders : v # w => Unpushed(v)' = Unpushed(v)
  BY <1>b DEF Becomes, Unpushed, InStep
<1>1. ASSUME NEW w \in Senders, ~InStep(w, "push"), \E q \in Request \cup {NoRequest} : Becomes(w, q),
             UNCHANGED <<notified, tried, forgotten, queue, run>>
      PROVE  NotificationsArePushed'
  <2>1. Unpushed(w) = {}
    BY <1>1 DEF Unpushed
  <2>2. \A v \in Senders : v # w => Unpushed(v)' = Unpushed(v)
    BY <1>b, <1>1
  <2> QED
    BY <1>f, <1>1, <2>1, <2>2
<1>2. ASSUME NEW w \in Senders,
             \/ BeginSend(w) \/ BeginDispatch(w) \/ DispatchSend(w) \/ StoreSend(w)
             \/ QueueMails(w) \/ ReadNotified(w)
      PROVE  NotificationsArePushed'
  <2>1. \E q \in Request \cup {NoRequest} : Becomes(w, q)
    BY <1>2, Drafting, Filling
  <2>2. ~InStep(w, "push")
    BY <1>2 DEF BeginSend, BeginDispatch, DispatchSend, StoreSend, QueueMails, ReadNotified, InStep
  <2>3. UNCHANGED <<notified, tried, forgotten, queue, run>>
    BY <1>2 DEF BeginSend, BeginDispatch, DispatchSend, StoreSend, QueueMails, ReadNotified,
                sending, pushing, history
  <2> QED
    BY <1>1, <2>1, <2>2, <2>3
<1>3. ASSUME NEW w \in Senders, StoreNotified(w) PROVE NotificationsArePushed'
  <2>0. /\ notified' = notified \cup req[w].to /\ UNCHANGED <<tried, forgotten, queue, run>>
        /\ Unpushed(w) = {}
    BY <1>3 DEF StoreNotified, InStep, Unpushed, sending, pushing, history
  <2>1. PICK q \in Request : Becomes(w, q) /\ q.step = "push" /\ q.to = req[w].to
    BY <1>3, Filling
  <2>2. Unpushed(w)' = req[w].to
    BY <1>t, <2>1 DEF Becomes, Unpushed, InStep
  <2>3. \A v \in Senders : v # w => Unpushed(v)' = Unpushed(v)
    BY <1>b, <2>1
  <2> QED
    BY <2>0, <2>2, <2>3 DEF NotificationsArePushed
<1>4. ASSUME NEW w \in Senders, QueuePush(w) PROVE NotificationsArePushed'
  <2>0. UNCHANGED <<notified, tried, forgotten, run>> /\ InStep(w, "push") /\ Becomes(w, NoRequest)
    BY <1>4, Filling DEF QueuePush, sending, pushing, history
  <2>1. PICK j \in Job : j.users = req[w].to /\ queue' = Append(queue, j)
    <3>1. [users |-> req[w].to, stalled |-> FALSE] \in Job
      BY <1>t, <2>0 DEF Job, InStep
    <3> QED
      BY <1>4, <3>1 DEF QueuePush, Queued
  <2>2. /\ \A i \in DOMAIN queue : i \in DOMAIN queue' /\ queue'[i] = queue[i]
        /\ Len(queue) + 1 \in DOMAIN queue' /\ queue'[Len(queue) + 1] = j
    BY <1>t, <2>1, AppendProperties
  <2>3. Unpushed(w) = req[w].to
    BY <2>0 DEF Unpushed
  <2>4. \A v \in Senders : v # w => Unpushed(v)' = Unpushed(v)
    BY <1>b, <2>0
  <2>5. \A u \in Unpushed(w) : \E i \in DOMAIN queue' : u \in queue'[i].users
    BY <2>1, <2>2, <2>3
  <2>6. \A u : \A i \in DOMAIN queue : u \in queue[i].users => \E k \in DOMAIN queue' : u \in queue'[k].users
    BY <2>2
  <2> QED
    BY <1>f, <2>0, <2>4, <2>5, <2>6
<1>5. ASSUME NEW w \in Senders, FailSend(w) PROVE NotificationsArePushed'
  <2>0. /\ UNCHANGED <<notified, tried, run, queue>> /\ Becomes(w, NoRequest)
        /\ forgotten' = forgotten \cup Unpushed(w)
    BY <1>5, Filling DEF FailSend, sending, pushing, history
  <2>4. \A v \in Senders : v # w => Unpushed(v)' = Unpushed(v)
    BY <1>b, <2>0
  <2> QED
    BY <1>f, <2>0, <2>4
<1>u. UNCHANGED req => \A v \in Senders : Unpushed(v)' = Unpushed(v)
  BY DEF Unpushed, InStep
<1>6. CASE StartJob
  <2>0. UNCHANGED <<notified, tried, forgotten, req>> /\ run = NoRun
    BY <1>6 DEF StartJob, sending, history
  <2>1. /\ queue # <<>> /\ queue' = Tail(queue) /\ run' \in Run /\ run'.job = Head(queue)
    BY <1>6, Working
  <2>2. ASSUME NEW i \in DOMAIN queue, NEW u, u \in queue[i].users
        PROVE  \/ \E j \in DOMAIN queue' : u \in queue'[j].users
               \/ run' # NoRun /\ u \in run'.job.users
    <3>1. CASE i = 1
      BY <1>t, <2>1, <2>2, <3>1
    <3>2. CASE i # 1
      <4>1. i - 1 \in DOMAIN queue' /\ queue'[i - 1] = queue[i]
        BY <1>t, <2>1, <3>2
      <4> QED
        BY <2>2, <4>1
    <3> QED
      BY <3>1, <3>2
  <2> QED
    BY <1>f, <1>u, <2>0, <2>2
<1>7. CASE EndJob \/ JobFails
  BY <1>7, <1>f, <1>u DEF EndJob, JobFails, sending
<1>8. ASSUME UNCHANGED <<notified, tried, forgotten, queue, req>>, run = NoRun <=> run' = NoRun,
             run # NoRun => run'.job = run.job
      PROVE  NotificationsArePushed'
  BY <1>8, <1>f, <1>u
<1>9. CASE LogQueued \/ SendPush \/ RecordPush \/ RevokeToken
  <2>1. run' \in Run /\ run'.job = run.job
    BY <1>9, Working
  <2>2. UNCHANGED <<notified, tried, forgotten, queue, req>> /\ run # NoRun
    BY <1>9 DEF LogQueued, SendPush, RecordPush, RevokeToken, Running, sending, history
  <2> QED
    BY <1>8, <1>t, <2>1, <2>2
<1>10. ASSUME NEW d \in Devices, (\E u \in Users : registerDevice(u, d)) \/ revokeDevice(d)
       PROVE  NotificationsArePushed'
  <2>0. Moves(d)
    BY <1>10 DEF registerDevice, revokeDevice
  <2>1. UNCHANGED <<notified, tried, forgotten, queue, req>>
    BY <2>0 DEF Moves, sending, history
  <2>2. (ToUse(d) /\ run' \in Run /\ run'.job = run.job) \/ run' = run
    BY <2>0, Working
  <2>3. ToUse(d) => run # NoRun
    BY DEF ToUse
  <2> QED
    BY <1>8, <1>t, <2>1, <2>2, <2>3
<1>11. CASE Schedule \/ remove \/ UNCHANGED vars
  BY <1>8, <1>11 DEF Schedule, remove, vars, sending, pushing, history
<1>12. CASE Crash
  <2> DEFINE stopped == UNION {Unpushed(w) : w \in Senders}
  <2>1. /\ UNCHANGED <<notified, tried>> /\ stopped \subseteq forgotten' /\ forgotten \subseteq forgotten'
    BY <1>12 DEF Crash, sending
  <2>2. \A v \in Senders : \A u : u \in Unpushed(v) => u \in forgotten'
    BY <2>1
  <2>3. CASE run # NoRun /\ ~run.job.stalled
    <3>0. run.job \in Job
      BY <2>3 DEF TypeOK, Run
    <3>1. PICK j \in Job : j.users = run.job.users /\ queue' = <<j>> \o queue
      <4>1. [run.job EXCEPT !.stalled = TRUE] \in Job /\ [run.job EXCEPT !.stalled = TRUE].users = run.job.users
        BY <3>0 DEF Job
      <4>2. queue' = <<[run.job EXCEPT !.stalled = TRUE]>> \o queue
        BY <1>12, <2>3 DEF Crash
      <4> QED
        BY <4>1, <4>2
    <3>2. /\ 1 \in DOMAIN queue' /\ queue'[1] = j
          /\ \A i \in DOMAIN queue : i + 1 \in DOMAIN queue' /\ queue'[i + 1] = queue[i]
      BY <1>t, <3>1
    <3> HIDE DEF stopped
    <3> QED
      BY <1>f, <2>1, <2>2, <3>1, <3>2
  <2>4. CASE run = NoRun \/ run.job.stalled
    <3>1. queue' = queue /\ (run # NoRun => run.job.users \subseteq forgotten')
      BY <1>12, <2>4 DEF Crash
    <3> HIDE DEF stopped
    <3> QED
      BY <1>f, <2>1, <2>2, <3>1
  <2> QED
    BY <2>3, <2>4
<1> QED
  BY <1>2, <1>3, <1>4, <1>5, <1>6, <1>7, <1>9, <1>10, <1>11, <1>12 DEF Next, Send, Work

-----------------------------------------------------------------------------
(* The run *)

\* The tokens of the run are those of its users, each once, and their devices are still theirs,
\* unless they changed hands since.
RunKept ==
    run # NoRun =>
        /\ \A p \in run.todo \cup run.at : p \in Users \X Devices /\ p[1] \in run.job.users
        /\ run.at \cap run.todo = {}
        /\ \A p, r \in run.todo \cup run.at : p[2] = r[2] => p = r
        /\ \A p \in run.todo \cup run.at :
              p[2] \in run.moved \/ (device[p[2]].owner = p[1] /\ ~device[p[2]].revoked)

\* Every step keeps it: a device that is to be used and moves is in run.moved.
LEMMA RunsKept ==
  ASSUME TypeOK, RunKept, [Next]_vars
  PROVE  RunKept'
<1>t. /\ NoRun \notin Run /\ device \in [Devices -> DeviceRow]
      /\ run # NoRun => run \in Run /\ run.todo \subseteq Users \X Devices /\ run.at \subseteq Users \X Devices
  BY NoRequestAssumption DEF TypeOK, Run
<1>1. CASE StartJob
  <2>1. /\ run' \in Run /\ run'.job = Head(queue) /\ run'.todo = Tokens(Head(queue).users)
        /\ run'.at = {} /\ Head(queue) \in Job
    BY <1>1, Working
  <2>2. \A p \in run'.todo : /\ p \in Users \X Devices /\ p[1] \in run'.job.users
                             /\ device[p[2]].owner = p[1] /\ ~device[p[2]].revoked
    BY <2>1 DEF Tokens, Job
  <2>3. \A p, r \in run'.todo : p[2] = r[2] => p = r
    BY <2>2
  <2>4. device' = device
    BY <1>1 DEF StartJob
  <2> HIDE DEF RunKept
  <2> QED
    BY <2>1, <2>2, <2>3, <2>4 DEF RunKept
\* Tokens are taken from those that were read, and the devices stay.
<1>f. ASSUME run # NoRun, run'.job = run.job, run'.todo \cup run'.at \subseteq run.todo \cup run.at,
             run'.at \cap run'.todo = {}, run'.moved = run.moved, device' = device
      PROVE  RunKept'
  BY <1>f DEF RunKept
<1>2. CASE LogQueued
  <2>1. PICK p \in run.todo : /\ run'.job = run.job /\ run'.todo = run.todo \ {p} /\ run'.at = {p}
                              /\ run'.moved = run.moved
    BY <1>2, Working
  <2>2. run # NoRun /\ device' = device
    BY <1>2 DEF LogQueued, Running
  <2> QED
    BY <1>f, <2>1, <2>2
<1>3. CASE SendPush
  <2>1. run'.job = run.job /\ run'.todo = run.todo /\ run'.at = run.at /\ run'.moved = run.moved
    BY <1>3, Working
  <2>2. run # NoRun /\ device' = device
    BY <1>3 DEF SendPush, Running
  <2> QED
    BY <1>f, <2>1, <2>2 DEF RunKept
<1>4. CASE RecordPush
  <2>1. /\ run'.job = run.job /\ run'.todo = run.todo /\ run'.moved = run.moved
        /\ run'.at = run.at \/ run'.at = {}
    BY <1>4, Working
  <2>2. run # NoRun /\ device' = device
    BY <1>4 DEF RecordPush
  <2> QED
    BY <1>f, <2>1, <2>2 DEF RunKept
<1>5. CASE RevokeToken
  <2>1. /\ run' \in Run /\ run'.job = run.job /\ run'.todo = run.todo /\ run'.at = {}
        /\ run'.moved = run.moved
    BY <1>5, Working
  <2>2. run # NoRun
    BY <1>5 DEF RevokeToken, Running
  <2>3. \A p \in run.todo : device'[p[2]] = device[p[2]]
    <3>1. ASSUME NEW p \in run.todo, NEW u \in Users, <<u, p[2]>> \in run.at PROVE FALSE
      BY <2>2, <3>1 DEF RunKept
    <3>2. \A p \in run.todo : p[2] \in Devices
      BY <1>t, <2>2
    <3> QED
      BY <1>5, <3>1, <3>2 DEF RevokeToken
  <2> QED
    BY <2>1, <2>2, <2>3 DEF RunKept
<1>6. ASSUME NEW e \in Devices, (\E u \in Users : registerDevice(u, e)) \/ revokeDevice(e) PROVE RunKept'
  <2>0. Moves(e) /\ \A d \in Devices : d # e => device'[d] = device[d]
    BY <1>6, <1>t DEF registerDevice, revokeDevice
  <2>1. CASE /\ ToUse(e) /\ run' \in Run /\ run'.job = run.job /\ run'.todo = run.todo /\ run'.at = run.at
             /\ run'.step = run.step /\ run'.moved = run.moved \cup {e}
    <3>1. run # NoRun
      BY <2>1 DEF ToUse
    <3>2. \A p \in run.todo \cup run.at : p[2] \in Devices
      BY <1>t, <3>1
    <3> QED
      BY <2>0, <2>1, <3>1, <3>2 DEF RunKept
  <2>2. CASE ~ToUse(e) /\ run' = run
    <3>1. \A p \in run.todo \cup run.at : run # NoRun => p[2] \in Devices /\ p[2] # e
      BY <1>t, <2>2 DEF ToUse
    <3>2. \A p \in run.todo \cup run.at : run # NoRun => device'[p[2]] = device[p[2]]
      BY <2>0, <3>1
    <3> QED
      BY <2>2, <3>2 DEF RunKept
  <2> QED
    BY <2>0, <2>1, <2>2, Working
<1>7. CASE EndJob \/ JobFails \/ Crash
  BY <1>7 DEF EndJob, JobFails, Crash, RunKept
<1>8. CASE UNCHANGED <<run, device>>
  BY <1>8 DEF RunKept
<1>9. ASSUME NEW w \in Senders, BeginSend(w) \/ BeginDispatch(w) \/ Send(w) PROVE UNCHANGED <<run, device>>
  BY <1>9 DEF BeginSend, BeginDispatch, Send, DispatchSend, StoreSend, QueueMails, ReadNotified,
              StoreNotified, QueuePush, FailSend, sending, pushing
<1>10. ASSUME Schedule \/ remove \/ UNCHANGED vars PROVE UNCHANGED <<run, device>>
  BY <1>10 DEF Schedule, remove, vars, pushing
<1> QED
  BY <1>1, <1>2, <1>3, <1>4, <1>5, <1>6, <1>7, <1>8, <1>9, <1>10 DEF Next, Work

\* Only SendPush accepts a message, for the token of the run.
LEMMA PushGoesToOwner ==
  ASSUME TypeOK, RunKept, [Next]_vars, NEW p \in Users \X Devices, pushes'[p] # pushes[p]
  PROVE  p[2] \in run.moved \/ (device[p[2]].owner = p[1] /\ ~device[p[2]].revoked)
<1>1. pushes \in [Users \X Devices -> Nat]
  BY DEF TypeOK
<1>2. SendPush
  <2>1. ASSUME NEW w \in Senders, BeginSend(w) \/ BeginDispatch(w) \/ Send(w) PROVE pushes' = pushes
    BY <2>1 DEF BeginSend, BeginDispatch, Send, DispatchSend, StoreSend, QueueMails, ReadNotified,
                StoreNotified, QueuePush, FailSend, sending, pushing
  <2>2. ASSUME \/ Schedule \/ remove \/ UNCHANGED vars \/ Crash
               \/ \E d \in Devices : (\E u \in Users : registerDevice(u, d)) \/ revokeDevice(d)
        PROVE  pushes' = pushes
    BY <2>2 DEF Schedule, remove, vars, pushing, Crash, registerDevice, revokeDevice, Moves
  <2>3. ASSUME StartJob \/ LogQueued \/ RecordPush \/ RevokeToken \/ EndJob \/ JobFails
        PROVE  pushes' = pushes
    BY <2>3 DEF StartJob, LogQueued, RecordPush, RevokeToken, EndJob, JobFails
  <2> QED
    BY <2>1, <2>2, <2>3 DEF Next, Work
<1>3. PICK accepted \in BOOLEAN :
         pushes' = [r \in Users \X Devices |-> IF accepted /\ r \in run.at THEN pushes[r] + 1 ELSE pushes[r]]
  BY <1>2, Working
<1>4. p \in run.at /\ run # NoRun
  BY <1>1, <1>2, <1>3 DEF SendPush, Running
<1> QED
  BY <1>4 DEF RunKept

\* The token the worker is at has a log, and a message once the service said so.
RunLogged ==
    run # NoRun =>
        /\ run.step # "next" => \A p \in run.at : log[p] # "none"
        /\ run.step = "sent" => \A p \in run.at : pushes[p] > 0

\* Every step keeps it, and the logs tell the truth.
LEMMA LogsKept ==
  ASSUME TypeOK, RunKept, RunLogged, LogsTellTheTruth, [Next]_vars
  PROVE  RunLogged' /\ LogsTellTheTruth'
<1>t. /\ NoRun \notin Run /\ log \in [Users \X Devices -> LogStatus] /\ pushes \in [Users \X Devices -> Nat]
      /\ run # NoRun => run \in Run /\ run.todo \subseteq Users \X Devices /\ run.at \subseteq Users \X Devices
  BY NoRequestAssumption DEF TypeOK, Run
<1>1. CASE StartJob
  <2>1. run' \in Run /\ run'.at = {} /\ log' = log /\ pushes' = pushes
    BY <1>1, Working DEF StartJob
  <2> QED
    BY <2>1 DEF RunLogged, LogsTellTheTruth
<1>2. CASE LogQueued
  <2>1. PICK p \in run.todo : /\ run'.at = {p} /\ run'.step = "send"
                              /\ log' = [log EXCEPT ![p] = "queued"]
    BY <1>2, Working
  <2>2. pushes' = pushes /\ p \in Users \X Devices
    BY <1>2, <1>t DEF LogQueued, Running
  <2>3. \A r \in Users \X Devices : log'[r] = IF r = p THEN "queued" ELSE log[r]
    BY <1>t, <2>1, <2>2
  <2> QED
    BY <2>1, <2>2, <2>3 DEF RunLogged, LogsTellTheTruth
<1>3. CASE SendPush
  <2>1. PICK answer \in {"sent", "failed", "refused"}, accepted \in BOOLEAN :
           /\ run'.at = run.at /\ run'.step = answer /\ (answer = "sent" => accepted)
           /\ pushes' = [p \in Users \X Devices |->
                  IF accepted /\ p \in run.at THEN pushes[p] + 1 ELSE pushes[p]]
    BY <1>3, Working
  <2>2. run # NoRun /\ run.step = "send" /\ log' = log
    BY <1>3 DEF SendPush, Running
  <2>3. \A p \in Users \X Devices : /\ pushes'[p] >= pushes[p]
                                    /\ pushes'[p] # pushes[p] => p \in run.at
                                    /\ accepted /\ p \in run.at => pushes'[p] > 0
                                    /\ pushes[p] \in Nat /\ pushes'[p] \in Nat
    BY <1>t, <2>1
  <2>4. \A p \in run.at : p \in Users \X Devices /\ log[p] # "none"
    BY <1>t, <2>2 DEF RunLogged
  <2>5. LogsTellTheTruth'
    BY <2>2, <2>3, <2>4 DEF LogsTellTheTruth
  <2> QED
    BY <2>1, <2>2, <2>3, <2>4, <2>5 DEF RunLogged
<1>4. CASE RecordPush
  <2>1. /\ \/ run'.at = run.at /\ run'.step = "revoke"
           \/ run'.at = {} /\ run'.step = "next"
        /\ log' = [p \in Users \X Devices |-> IF p \in run.at THEN Outcome(run.step) ELSE log[p]]
    BY <1>4, Working
  <2>2. run # NoRun /\ run.step \in {"sent", "failed", "refused"} /\ pushes' = pushes
    BY <1>4 DEF RecordPush
  <2>3. \A p \in Users \X Devices : IF p \in run.at THEN log'[p] \in {"sent", "failed"} /\ (log'[p] = "sent" => run.step = "sent")
                                    ELSE log'[p] = log[p]
    BY <2>1 DEF Outcome
  <2>4. LogsTellTheTruth'
    BY <2>2, <2>3 DEF LogsTellTheTruth, RunLogged
  <2> QED
    BY <1>t, <2>1, <2>2, <2>3, <2>4 DEF RunLogged
<1>5. CASE RevokeToken
  <2>1. run'.at = {} /\ run'.step = "next" /\ log' = log /\ pushes' = pushes
    BY <1>5, Working DEF RevokeToken
  <2> QED
    BY <2>1 DEF RunLogged, LogsTellTheTruth
<1>6. CASE EndJob \/ JobFails \/ Crash
  <2>1. run' = NoRun /\ log' = log /\ pushes' = pushes
    BY <1>6 DEF EndJob, JobFails, Crash
  <2> QED
    BY <2>1 DEF RunLogged, LogsTellTheTruth
<1>7. ASSUME NEW d \in Devices, (\E u \in Users : registerDevice(u, d)) \/ revokeDevice(d)
      PROVE  RunLogged' /\ LogsTellTheTruth'
  <2>1. Moves(d) /\ log' = log /\ pushes' = pushes
    BY <1>7 DEF registerDevice, revokeDevice, Moves
  <2>2. \/ ToUse(d) /\ run'.at = run.at /\ run'.step = run.step
        \/ run' = run
    BY <2>1, Working
  <2>3. ToUse(d) => run # NoRun
    BY DEF ToUse
  <2> QED
    BY <2>1, <2>2, <2>3 DEF RunLogged, LogsTellTheTruth
<1>8. CASE UNCHANGED <<run, log, pushes>>
  BY <1>8 DEF RunLogged, LogsTellTheTruth
<1>9. ASSUME NEW w \in Senders, BeginSend(w) \/ BeginDispatch(w) \/ Send(w) PROVE UNCHANGED <<run, log, pushes>>
  BY <1>9 DEF BeginSend, BeginDispatch, Send, DispatchSend, StoreSend, QueueMails, ReadNotified,
              StoreNotified, QueuePush, FailSend, sending, pushing
<1>10. ASSUME Schedule \/ remove \/ UNCHANGED vars PROVE UNCHANGED <<run, log, pushes>>
  BY <1>10 DEF Schedule, remove, vars, pushing
<1> QED
  BY <1>1, <1>2, <1>3, <1>4, <1>5, <1>6, <1>7, <1>8, <1>9, <1>10 DEF Next, Work

-----------------------------------------------------------------------------
(* Pushed once *)

\* The push of u's notification waits in the queue.
Waits(u) == \E i \in DOMAIN queue : u \in queue[i].users
\* The worker has taken it.
Runs(u) == run # NoRun /\ u \in run.job.users
\* No device of u has had a message.
NonePushed(u) == \A d \in Devices : pushes[<<u, d>>] = 0
\* The worker has still to send to the device.
NextFor(u, d) == <<u, d>> \in run.todo \/ (<<u, d>> \in run.at /\ run.step = "send")

\* The push of a notification is in one place, and has not been made before the worker makes it.
OnItsWay(u) ==
    /\ \A v, w \in Senders : BeingNotified(u, v) /\ BeingNotified(u, w) => v = w
    /\ \A w \in Senders : BeingNotified(u, w) => u \notin notified
    /\ u \notin notified => /\ \A w \in Senders : u \notin Unpushed(w)
                            /\ ~Waits(u) /\ ~Runs(u) /\ NonePushed(u)
    /\ \A v, w \in Senders : u \in Unpushed(v) /\ u \in Unpushed(w) => v = w
    /\ \A w \in Senders : u \in Unpushed(w) => ~Waits(u) /\ ~Runs(u) /\ NonePushed(u)
    /\ \A i, j \in DOMAIN queue : u \in queue[i].users /\ u \in queue[j].users => i = j
    /\ Waits(u) => ~Runs(u) /\ NonePushed(u)
    /\ \A d \in Devices : pushes[<<u, d>>] \in {0, 1}
    /\ Runs(u) => \A d \in Devices : NextFor(u, d) => pushes[<<u, d>>] = 0

\* The same for everybody, unless two sends found them not notified or a job ran again.
OnTheirWay == \A u \in Users \ again : OnItsWay(u)

\* The sends keep it: whoever is found not notified twice is in again.
LEMMA SenderKeeps ==
  ASSUME TypeOK, NEW u \in Users \ again, OnItsWay(u), NEW w \in Senders,
         Send(w) \/ BeginSend(w) \/ BeginDispatch(w), u \notin again'
  PROVE  OnItsWay(u)'
<1>t. /\ NoRequest \notin Request /\ queue \in Seq(Job)
      /\ req[w] # NoRequest => req[w].to \subseteq Users
  BY NoRequestAssumption DEF TypeOK, Request
<1>p. \A v \in Senders : u \in Unpushed(v) <=> InStep(v, "push") /\ u \in req[v].to
  BY DEF Unpushed
<1>r. UNCHANGED <<run, pushes>>
  BY DEF Send, BeginSend, BeginDispatch, DispatchSend, StoreSend, QueueMails, ReadNotified,
         StoreNotified, QueuePush, FailSend, sending, pushing
<1>m. /\ Runs(u)' <=> Runs(u)
      /\ NonePushed(u)' <=> NonePushed(u)
      /\ \A d \in Devices : NextFor(u, d)' <=> NextFor(u, d)
      /\ \A d \in Devices : pushes'[<<u, d>>] = pushes[<<u, d>>]
  BY <1>r DEF Runs, NonePushed, NextFor
<1>b. ASSUME NEW q \in Request \cup {NoRequest}, Becomes(w, q)
      PROVE  /\ \A v \in Senders : v # w => /\ BeingNotified(u, v)' <=> BeingNotified(u, v)
                                            /\ u \in Unpushed(v)' <=> u \in Unpushed(v)
             /\ BeingNotified(u, w)' <=> q # NoRequest /\ q.step = "notify" /\ u \in q.to
             /\ u \in Unpushed(w)' <=> q # NoRequest /\ q.step = "push" /\ u \in q.to
  <2>1. /\ \A v \in Senders : v # w => /\ BeingNotified(u, v)' <=> BeingNotified(u, v)
        /\ BeingNotified(u, w)' <=> q # NoRequest /\ q.step = "notify" /\ u \in q.to
    BY <1>b DEF Becomes, BeingNotified, InStep
  <2>2. /\ \A v \in Senders : v # w => (u \in Unpushed(v)' <=> u \in Unpushed(v))
        /\ u \in Unpushed(w)' <=> q # NoRequest /\ q.step = "push" /\ u \in q.to
    BY <1>b DEF Becomes, Unpushed, InStep
  <2> QED
    BY <2>1, <2>2
\* w is neither about to store the row of u nor to queue its job, before or after.
<1>f. ASSUME NEW q \in Request \cup {NoRequest}, Becomes(w, q), UNCHANGED <<notified, queue>>,
             q = NoRequest \/ q.step \notin {"notify", "push"}
      PROVE  OnItsWay(u)'
  <2>1. ~BeingNotified(u, w)' /\ u \notin Unpushed(w)'
    BY <1>b, <1>f
  <2>2. Waits(u)' <=> Waits(u)
    BY <1>f DEF Waits
  <2>3. \A v \in Senders : /\ BeingNotified(u, v)' => BeingNotified(u, v)
                           /\ u \in Unpushed(v)' => u \in Unpushed(v)
    BY <1>b, <1>f, <2>1
  <2> QED
    BY <1>f, <1>m, <2>2, <2>3 DEF OnItsWay
<1>1. CASE BeginSend(w) \/ BeginDispatch(w) \/ DispatchSend(w) \/ StoreSend(w)
  <2>1. UNCHANGED <<notified, queue>>
    BY <1>1 DEF BeginSend, BeginDispatch, DispatchSend, StoreSend
  <2>2. \/ Becomes(w, NoRequest)
        \/ \E q \in Request : Becomes(w, q) /\ q.step \notin {"notify", "push"}
    BY <1>1, Drafting
  <2> QED
    BY <1>f, <2>1, <2>2
<1>2. CASE QueueMails(w) \/ FailSend(w)
  <2>1. UNCHANGED <<notified, queue>>
    BY <1>2 DEF QueueMails, FailSend
  <2>2. \/ Becomes(w, NoRequest)
        \/ \E q \in Request : Becomes(w, q) /\ q.step \notin {"notify", "push"}
    BY <1>2, Filling
  <2> QED
    BY <1>f, <2>1, <2>2
<1>3. CASE ReadNotified(w)
  <2>1. UNCHANGED <<notified, queue>>
    BY <1>3 DEF ReadNotified
  <2>2. CASE Becomes(w, NoRequest)
    BY <1>f, <2>1, <2>2
  <2>3. ASSUME NEW q \in Request, Becomes(w, q), q.step = "notify", q.to = NotNotified PROVE OnItsWay(u)'
    <3>1. u \notin Unpushed(w)' /\ \A v \in Senders : u \in Unpushed(v)' => u \in Unpushed(v)
      BY <1>b, <1>t, <2>3
    <3>2. BeingNotified(u, w)' => u \notin notified /\ \A v \in Senders : ~BeingNotified(u, v)
      <4>1. again' = again \cup {x \in NotNotified : \E v \in Senders : BeingNotified(x, v)}
        BY <1>3 DEF ReadNotified
      <4> QED
        BY <1>b, <1>t, <2>3, <4>1 DEF NotNotified
    <3>3. Waits(u)' <=> Waits(u)
      BY <2>1 DEF Waits
    <3>4. \A v \in Senders : v # w => (BeingNotified(u, v)' <=> BeingNotified(u, v))
      BY <1>b, <2>3
    <3>5. /\ \A v, x \in Senders : BeingNotified(u, v)' /\ BeingNotified(u, x)' => v = x
          /\ \A v \in Senders : BeingNotified(u, v)' => u \notin notified
      BY <3>2, <3>4 DEF OnItsWay
    <3> QED
      BY <1>m, <2>1, <3>1, <3>3, <3>5 DEF OnItsWay
  <2> QED
    BY <1>3, <2>2, <2>3, Filling
<1>4. CASE StoreNotified(w)
  <2>0. notified' = notified \cup req[w].to /\ queue' = queue /\ InStep(w, "notify")
    BY <1>4 DEF StoreNotified
  <2>1. PICK q \in Request : Becomes(w, q) /\ q.step = "push" /\ q.to = req[w].to
    BY <1>4, Filling
  <2>2. /\ u \in Unpushed(w)' <=> BeingNotified(u, w)
        /\ ~BeingNotified(u, w)' /\ u \notin Unpushed(w)
        /\ u \in notified' <=> u \in notified \/ BeingNotified(u, w)
    BY <1>b, <1>p, <1>t, <2>0, <2>1 DEF BeingNotified, InStep
  <2>3. \A v \in Senders : v # w => /\ BeingNotified(u, v)' <=> BeingNotified(u, v)
                                    /\ u \in Unpushed(v)' <=> u \in Unpushed(v)
    BY <1>b, <2>1
  <2>4. Waits(u)' <=> Waits(u)
    BY <2>0 DEF Waits
  <2>5. /\ \A v, x \in Senders : BeingNotified(u, v)' /\ BeingNotified(u, x)' => v = x
        /\ \A v \in Senders : BeingNotified(u, v)' => u \notin notified'
    BY <2>2, <2>3 DEF OnItsWay
  <2>6. /\ \A v, x \in Senders : u \in Unpushed(v)' /\ u \in Unpushed(x)' => v = x
        /\ \A v \in Senders : u \in Unpushed(v)' => ~Waits(u) /\ ~Runs(u) /\ NonePushed(u)
        /\ u \notin notified' => \A v \in Senders : u \notin Unpushed(v)'
    BY <2>2, <2>3 DEF OnItsWay
  <2>7. u \notin notified' => u \notin notified
    BY <2>0
  <2> QED
    BY <1>m, <2>0, <2>4, <2>5, <2>6, <2>7 DEF OnItsWay
<1>5. CASE QueuePush(w)
  <2>0. notified' = notified /\ InStep(w, "push") /\ Becomes(w, NoRequest)
    BY <1>5, Filling DEF QueuePush
  <2>1. PICK k \in Job : k.users = req[w].to /\ queue' = Append(queue, k)
    <3>1. [users |-> req[w].to, stalled |-> FALSE] \in Job
      BY <1>t, <2>0 DEF Job, InStep
    <3> QED
      BY <1>5, <3>1 DEF QueuePush, Queued
  <2>2. /\ DOMAIN queue' = DOMAIN queue \cup {Len(queue) + 1} /\ Len(queue) + 1 \notin DOMAIN queue
        /\ \A i \in DOMAIN queue : queue'[i] = queue[i]
        /\ queue'[Len(queue) + 1] = k
    BY <1>t, <2>1, AppendProperties
  <2>3. u \in k.users <=> u \in Unpushed(w)
    BY <1>p, <2>0, <2>1
  <2>4. Waits(u)' <=> Waits(u) \/ u \in Unpushed(w)
    BY <2>2, <2>3 DEF Waits
  <2>5. \A i, j \in DOMAIN queue' : u \in queue'[i].users /\ u \in queue'[j].users => i = j
    <3>1. u \in Unpushed(w) => \A i \in DOMAIN queue : u \notin queue[i].users
      BY DEF OnItsWay, Waits
    <3>2. \A i, j \in DOMAIN queue : u \in queue[i].users /\ u \in queue[j].users => i = j
      BY DEF OnItsWay
    <3> QED
      BY <2>2, <2>3, <3>1, <3>2
  <2>6. /\ u \notin Unpushed(w)' /\ ~BeingNotified(u, w)'
        /\ \A v \in Senders : v # w => /\ BeingNotified(u, v)' <=> BeingNotified(u, v)
                                       /\ u \in Unpushed(v)' <=> u \in Unpushed(v)
    BY <1>b, <2>0
  <2>7. \A v \in Senders : /\ BeingNotified(u, v)' => BeingNotified(u, v)
                           /\ u \in Unpushed(v)' => u \in Unpushed(v) /\ u \notin Unpushed(w)
    BY <2>6 DEF OnItsWay
  <2> QED
    BY <1>m, <2>0, <2>4, <2>5, <2>7 DEF OnItsWay
<1> QED
  BY <1>1, <1>2, <1>3, <1>4, <1>5 DEF Send

\* The worker keeps it: it takes the job out of the queue, and a token out of those to do.
LEMMA WorkerKeeps ==
  ASSUME TypeOK, RunKept, NEW u \in Users \ again, OnItsWay(u), Work
  PROVE  OnItsWay(u)'
<1>t. /\ NoRun \notin Run /\ queue \in Seq(Job) /\ pushes \in [Users \X Devices -> Nat]
  BY NoRequestAssumption DEF TypeOK
<1>s. UNCHANGED <<req, notified>>
  BY DEF Work, StartJob, LogQueued, SendPush, RecordPush, RevokeToken, EndJob, JobFails, sending, history
<1>m. \A w \in Senders : /\ BeingNotified(u, w)' <=> BeingNotified(u, w)
                         /\ u \in Unpushed(w)' <=> u \in Unpushed(w)
  BY <1>s DEF BeingNotified, Unpushed, InStep
\* The worker goes on with its job, or drops it.
<1>f. ASSUME UNCHANGED <<queue, pushes>>, Runs(u)' => Runs(u),
             \A d \in Devices : Runs(u)' /\ NextFor(u, d)' => NextFor(u, d)
      PROVE  OnItsWay(u)'
  <2>1. (Waits(u)' <=> Waits(u)) /\ (NonePushed(u)' <=> NonePushed(u))
    BY <1>f DEF Waits, NonePushed
  <2> QED
    BY <1>f, <1>m, <1>s, <2>1 DEF OnItsWay
<1>1. CASE StartJob
  <2>1. /\ queue # <<>> /\ Head(queue) \in Job /\ queue' = Tail(queue)
        /\ run' \in Run /\ run'.job = Head(queue)
    BY <1>1, Working
  <2>2. pushes' = pushes /\ run = NoRun
    BY <1>1 DEF StartJob
  <2>3. /\ \A i \in DOMAIN queue' : i + 1 \in DOMAIN queue /\ queue'[i] = queue[i + 1] /\ i \in Nat
        /\ 1 \in DOMAIN queue /\ queue[1] = Head(queue)
    BY <1>t, <2>1
  <2>4. Waits(u)' => Waits(u)
    BY <2>3 DEF Waits
  <2>5. Runs(u)' => Waits(u) /\ ~Waits(u)'
    <3>1. ASSUME u \in Head(queue).users, NEW i \in DOMAIN queue', u \in queue'[i].users PROVE FALSE
      <4>1. i + 1 = 1
        BY <2>3, <3>1 DEF OnItsWay
      <4> QED
        BY <1>t, <2>1, <2>3, <4>1
    <3>2. Runs(u)' <=> u \in Head(queue).users
      BY <1>t, <2>1 DEF Runs
    <3> QED
      BY <2>3, <3>1, <3>2 DEF Waits
  <2>6. \A i, j \in DOMAIN queue' : u \in queue'[i].users /\ u \in queue'[j].users => i = j
    <3>1. ASSUME NEW i \in DOMAIN queue', NEW j \in DOMAIN queue',
                 u \in queue'[i].users, u \in queue'[j].users
          PROVE  i = j
      <4>1. i + 1 = j + 1
        BY <2>3, <3>1 DEF OnItsWay
      <4> QED
        BY <2>3, <4>1
    <3> QED
      BY <3>1
  <2>7. NonePushed(u)' <=> NonePushed(u)
    BY <2>2 DEF NonePushed
  <2>8. NonePushed(u) => \A d \in Devices : pushes'[<<u, d>>] = 0
    BY <2>2 DEF NonePushed
  <2> QED
    BY <1>m, <1>s, <2>2, <2>4, <2>5, <2>6, <2>7, <2>8 DEF OnItsWay
<1>2. CASE LogQueued
  <2>1. PICK p \in run.todo : /\ run' \in Run /\ run'.job = run.job /\ run'.todo = run.todo \ {p}
                              /\ run'.at = {p}
    BY <1>2, Working
  <2>2. UNCHANGED <<queue, pushes>> /\ run # NoRun
    BY <1>2 DEF LogQueued, Running
  <2> QED
    BY <1>f, <2>1, <2>2 DEF Runs, NextFor
<1>3. CASE SendPush
  <2>1. PICK accepted \in BOOLEAN, answer \in {"sent", "failed", "refused"} :
           /\ run' \in Run /\ run'.job = run.job /\ run'.todo = run.todo /\ run'.at = run.at
           /\ run'.step = answer
           /\ pushes' = [p \in Users \X Devices |->
                  IF accepted /\ p \in run.at THEN pushes[p] + 1 ELSE pushes[p]]
    BY <1>3, Working
  <2>2. run # NoRun /\ run.step = "send" /\ queue' = queue
    BY <1>3 DEF SendPush, Running
  <2>3. \A d \in Devices : pushes'[<<u, d>>] = IF accepted /\ <<u, d>> \in run.at THEN pushes[<<u, d>>] + 1
                                               ELSE pushes[<<u, d>>]
    BY <2>1
  <2>4. \A d \in Devices : <<u, d>> \in run.at => Runs(u) /\ NextFor(u, d) /\ <<u, d>> \notin run.todo
    BY <2>2 DEF Runs, NextFor, RunKept
  <2>5. \A d \in Devices : pushes'[<<u, d>>] \in {0, 1}
    BY <2>3, <2>4 DEF OnItsWay
  <2>6. \A d \in Devices : NextFor(u, d)' => pushes'[<<u, d>>] = pushes[<<u, d>>] /\ NextFor(u, d)
    BY <2>1, <2>3, <2>4 DEF NextFor
  <2>7. (Runs(u)' <=> Runs(u)) /\ (Waits(u)' <=> Waits(u))
    BY <1>t, <2>1, <2>2 DEF Runs, Waits
  <2>8. NonePushed(u) /\ ~Runs(u) => NonePushed(u)'
    BY <2>3, <2>4 DEF NonePushed
  <2> QED
    BY <1>m, <1>s, <2>2, <2>5, <2>6, <2>7, <2>8 DEF OnItsWay
<1>4. CASE RecordPush
  <2>1. /\ run' \in Run /\ run'.job = run.job /\ run'.todo = run.todo
        /\ \/ run'.at = run.at /\ run'.step = "revoke"
           \/ run'.at = {} /\ run'.step = "next"
    BY <1>4, Working
  <2>2. UNCHANGED <<queue, pushes>> /\ run # NoRun
    BY <1>4 DEF RecordPush
  <2> QED
    BY <1>f, <2>1, <2>2 DEF Runs, NextFor
<1>5. CASE RevokeToken
  <2>1. run' \in Run /\ run'.job = run.job /\ run'.todo = run.todo /\ run'.at = {}
    BY <1>5, Working
  <2>2. UNCHANGED <<queue, pushes>> /\ run # NoRun
    BY <1>5 DEF RevokeToken, Running
  <2> QED
    BY <1>f, <2>1, <2>2 DEF Runs, NextFor
<1>6. CASE EndJob \/ JobFails
  <2>1. run' = NoRun /\ UNCHANGED <<queue, pushes>>
    BY <1>6 DEF EndJob, JobFails
  <2> QED
    BY <1>f, <2>1 DEF Runs
<1> QED
  BY <1>1, <1>2, <1>3, <1>4, <1>5, <1>6 DEF Work

\* A crash keeps it: the users of a job that runs again are in again.
LEMMA CrashKeeps ==
  ASSUME TypeOK, NEW u \in Users \ again, OnItsWay(u), Crash, u \notin again'
  PROVE  OnItsWay(u)'
<1>t. queue \in Seq(Job) /\ (run # NoRun => run.job \in Job)
  BY DEF TypeOK, Run
<1>1. /\ run' = NoRun /\ UNCHANGED <<notified, pushes>> /\ \A w \in Senders : req'[w] = NoRequest
  BY DEF Crash
<1>2. /\ ~Runs(u)' /\ (NonePushed(u)' <=> NonePushed(u))
      /\ \A w \in Senders : ~BeingNotified(u, w)' /\ u \notin Unpushed(w)'
  BY <1>1 DEF Runs, NonePushed, BeingNotified, Unpushed, InStep
<1>3. /\ Waits(u)' <=> Waits(u)
      /\ \A i, j \in DOMAIN queue' : u \in queue'[i].users /\ u \in queue'[j].users => i = j
  <2>1. CASE run # NoRun /\ ~run.job.stalled
    <3>0. u \notin run.job.users
      BY <2>1 DEF Crash
    <3>1. PICK k \in Job : u \notin k.users /\ queue' = <<k>> \o queue
      <4>1. [run.job EXCEPT !.stalled = TRUE] \in Job /\ [run.job EXCEPT !.stalled = TRUE].users = run.job.users
        BY <1>t, <2>1 DEF Job
      <4>2. queue' = <<[run.job EXCEPT !.stalled = TRUE]>> \o queue
        BY <2>1 DEF Crash
      <4> QED
        BY <3>0, <4>1, <4>2
    <3>2. /\ \A i \in DOMAIN queue : i + 1 \in DOMAIN queue' /\ queue'[i + 1] = queue[i]
          /\ \A i \in DOMAIN queue' : i = 1 \/ (i - 1 \in DOMAIN queue /\ queue'[i] = queue[i - 1])
          /\ \A i \in DOMAIN queue' : i \in Nat
          /\ queue'[1] = k
      BY <1>t, <3>1
    <3>3. \A i \in DOMAIN queue' : u \in queue'[i].users => i - 1 \in DOMAIN queue /\ queue'[i] = queue[i - 1]
      BY <3>1, <3>2
    <3>4. ASSUME NEW i \in DOMAIN queue', NEW j \in DOMAIN queue', u \in queue'[i].users, u \in queue'[j].users
          PROVE  i = j
      <4>1. i - 1 = j - 1
        BY <3>3, <3>4 DEF OnItsWay
      <4> QED
        BY <3>2, <4>1
    <3>5. Waits(u)' <=> Waits(u)
      BY <3>2, <3>3 DEF Waits
    <3> QED
      BY <3>4, <3>5
  <2>2. CASE run = NoRun \/ run.job.stalled
    <3>1. queue' = queue
      BY <2>2 DEF Crash
    <3> QED
      BY <3>1 DEF Waits, OnItsWay
  <2> QED
    BY <2>1, <2>2
<1>4. u \notin notified => NonePushed(u) /\ ~Waits(u)
  BY DEF OnItsWay
<1>5. Waits(u) => NonePushed(u)
  BY DEF OnItsWay
<1> QED
  BY <1>1, <1>2, <1>3, <1>4, <1>5 DEF OnItsWay

\* Every step keeps it for everybody.
LEMMA OnTheirWayKept ==
  ASSUME TypeOK, RunKept, OnTheirWay, [Next]_vars
  PROVE  OnTheirWay'
<1> SUFFICES ASSUME NEW u \in Users, u \notin again'
             PROVE  OnItsWay(u)'
  BY DEF OnTheirWay
<1>1. again \subseteq again'
  <2>1. ASSUME NEW w \in Senders, BeginSend(w) \/ BeginDispatch(w) \/ Send(w) PROVE again \subseteq again'
    BY <2>1 DEF BeginSend, BeginDispatch, Send, DispatchSend, StoreSend, QueueMails, ReadNotified,
                StoreNotified, QueuePush, FailSend, history
  <2>2. ASSUME \/ Schedule \/ remove \/ UNCHANGED vars \/ Crash
               \/ \E d \in Devices : (\E x \in Users : registerDevice(x, d)) \/ revokeDevice(d)
        PROVE  again \subseteq again'
    BY <2>2 DEF Schedule, remove, vars, history, Crash, registerDevice, revokeDevice, Moves
  <2>3. ASSUME Work PROVE again \subseteq again'
    BY <2>3 DEF Work, StartJob, LogQueued, SendPush, RecordPush, RevokeToken, EndJob, JobFails, history
  <2> QED
    BY <2>1, <2>2, <2>3 DEF Next
<1>2. u \in Users \ again /\ OnItsWay(u)
  BY <1>1 DEF OnTheirWay
<1>3. ASSUME NEW w \in Senders, BeginSend(w) \/ BeginDispatch(w) \/ Send(w) PROVE OnItsWay(u)'
  BY <1>2, <1>3, SenderKeeps
<1>4. CASE Work
  BY <1>2, <1>4, WorkerKeeps
<1>5. CASE Crash
  BY <1>2, <1>5, CrashKeeps
<1>6. ASSUME UNCHANGED <<req, notified, queue, pushes>>,
             \/ run' = run
             \/ run # NoRun /\ run'.job = run.job /\ run'.todo = run.todo /\ run'.at = run.at /\ run'.step = run.step
      PROVE  OnItsWay(u)'
  <2>1. \A w \in Senders : /\ BeingNotified(u, w)' <=> BeingNotified(u, w)
                           /\ u \in Unpushed(w)' <=> u \in Unpushed(w)
    BY <1>6 DEF BeingNotified, Unpushed, InStep
  <2>2. (Waits(u)' <=> Waits(u)) /\ (NonePushed(u)' <=> NonePushed(u))
    BY <1>6 DEF Waits, NonePushed
  <2>3. (Runs(u)' => Runs(u)) /\ \A d \in Devices : NextFor(u, d)' <=> NextFor(u, d)
    BY <1>6 DEF Runs, NextFor
  <2> QED
    BY <1>2, <1>6, <2>1, <2>2, <2>3 DEF OnItsWay
<1>7. CASE Schedule \/ remove \/ UNCHANGED vars
  BY <1>6, <1>7 DEF Schedule, remove, vars, sending, pushing, history
<1>8. ASSUME NEW d \in Devices, (\E x \in Users : registerDevice(x, d)) \/ revokeDevice(d) PROVE OnItsWay(u)'
  <2>1. Moves(d) /\ UNCHANGED <<req, notified, queue, pushes>>
    BY <1>8 DEF registerDevice, revokeDevice, Moves
  <2>2. \/ /\ ToUse(d) /\ run'.job = run.job /\ run'.todo = run.todo /\ run'.at = run.at
           /\ run'.step = run.step
        \/ run' = run
    BY <2>1, Working
  <2> QED
    BY <1>6, <2>1, <2>2 DEF ToUse
<1> QED
  BY <1>3, <1>4, <1>5, <1>7, <1>8 DEF Next

-----------------------------------------------------------------------------
(* Theorems *)

\* The inductive invariant.
IInv ==
    /\ TypeOK /\ DuesAreDue /\ SendsCounted
    /\ Reached /\ NotificationsArePushed
    /\ RunKept /\ RunLogged /\ LogsTellTheTruth /\ OnTheirWay

\* It holds at the start.
LEMMA InitIInv == Init => IInv
<1> SUFFICES ASSUME Init PROVE IInv
  OBVIOUS
<1>1. Reached /\ NotificationsArePushed /\ RunKept /\ RunLogged /\ LogsTellTheTruth
  BY DEF Init, Reached, NotificationsArePushed, RunKept, RunLogged, LogsTellTheTruth
<1>2. ASSUME NEW u \in Users PROVE OnItsWay(u)
  <2>1. /\ \A w \in Senders : ~BeingNotified(u, w) /\ u \notin Unpushed(w)
        /\ ~Waits(u) /\ ~Runs(u) /\ DOMAIN queue = {}
    BY DEF Init, BeingNotified, Unpushed, InStep, Waits, Runs
  <2>2. NonePushed(u) /\ \A d \in Devices : pushes[<<u, d>>] = 0
    BY DEF Init, NonePushed
  <2> QED
    BY <2>1, <2>2 DEF OnItsWay
<1> QED
  BY <1>1, <1>2, TypesBegin, SendsBegin DEF IInv, OnTheirWay

\* The invariant holds in every behaviour.
THEOREM PublishingInductive == Spec => []IInv
<1>1. IInv /\ [Next]_vars => IInv'
  BY TypesKept, DuesKept, SendsKept, ReachedKept, PushedKept, RunsKept, LogsKept, OnTheirWayKept DEF IInv
<1> QED
  BY <1>1, InitIInv, PTL DEF Spec

\* Every variable keeps its type.
THEOREM PublishingTypeCorrect == Spec => []TypeOK
<1>1. IInv => TypeOK
  BY DEF IInv
<1> QED
  BY <1>1, PublishingInductive, PTL

\* An announcement is sent once for every time somebody sent or scheduled it, unless two dispatches
\* found it due before either had sent it (send and sendDueScheduled).
THEOREM SendsStayAsked == Spec => []SentOncePerAsking
<1>1. IInv => SentOncePerAsking
  <2> SUFFICES ASSUME IInv, ~doubled PROVE sends <= asked
    BY DEF SentOncePerAsking
  <2>1. sends \in Nat /\ asked \in Nat /\ IsFiniteSet(Begun) /\ Owed \in {0, 1}
    BY DEF IInv, TypeOK, SendsCounted, Owed
  <2>2. Cardinality(Begun) \in Nat /\ sends + Cardinality(Begun) + Owed <= asked
    BY <2>1, FS_CardinalityType DEF IInv, SendsCounted
  <2> QED
    BY <2>1, <2>2
<1> QED
  BY <1>1, PublishingInductive, PTL

\* Whoever an announcement is addressed to gets the mail, the notification and the push, unless a
\* send was cut short or a job failed (queueEmails, queueInAppNotifications, createManyAndQueue).
THEOREM EverybodyStaysReached == Spec => []EverybodyReached
<1>1. IInv => EverybodyReached
  <2> SUFFICES ASSUME IInv, ~cut, \A w \in Senders : req[w] = NoRequest
               PROVE  recipients \subseteq mailed \cap notified
    BY DEF IInv, EverybodyReached, NobodyForgotten
  <2>1. \A w \in Senders : \A s, u : ~InStep(w, s) /\ ~BeingNotified(u, w)
    BY DEF InStep, BeingNotified
  <2> QED
    BY <2>1 DEF IInv, Reached
<1> QED
  BY <1>1, PublishingInductive, PTL

\* No device gets a notification twice, unless two sends found its user not yet notified or the
\* process died on the job, and the logs tell of the messages (the push worker).
THEOREM PushesStayAccounted == Spec => []PushesAccounted
<1>1. IInv => PushesAccounted
  <2> SUFFICES ASSUME IInv, NEW p \in Users \X Devices, p[1] \notin again
               PROVE  pushes[p] <= 1
    BY DEF IInv, PushesAccounted, PushedOnce
  <2>1. OnItsWay(p[1]) /\ p[2] \in Devices /\ p = <<p[1], p[2]>>
    BY DEF IInv, OnTheirWay
  <2>2. pushes[<<p[1], p[2]>>] \in {0, 1}
    BY <2>1 DEF OnItsWay
  <2> QED
    BY <2>1, <2>2
<1> QED
  BY <1>1, PublishingInductive, PTL

\* A message goes only to a device of its recipient, unless the device changed hands or was revoked
\* after the job had read the tokens (the push worker).
THEOREM PushesGoToOwners == Spec => PushedToOwner
<1>1. IInv /\ [Next]_vars => [\A p \in Users \X Devices :
          pushes'[p] # pushes[p] =>
              \/ p[2] \in run.moved
              \/ device[p[2]].owner = p[1] /\ ~device[p[2]].revoked]_vars
  <2> SUFFICES ASSUME IInv, [Next]_vars
               PROVE  \A p \in Users \X Devices :
                        pushes'[p] # pushes[p] =>
                            \/ p[2] \in run.moved
                            \/ device[p[2]].owner = p[1] /\ ~device[p[2]].revoked
    OBVIOUS
  <2> QED
    BY PushGoesToOwner DEF IInv
<1> QED
  BY <1>1, PublishingInductive, PTL DEF Spec, PushedToOwner
=============================================================================
