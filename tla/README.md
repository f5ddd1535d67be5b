# Formal models of the Delta school administration API

TLA+ modules, model-checking configurations and machine-checked proofs for the
API in `src/src` (NestJS, Prisma on PostgreSQL with one schema per tenant, Redis, BullMQ).
Paths below are relative to the repository; `announcements.service.ts:192` is line 192 of
`src/src/announcements/announcements.service.ts`.

1. [The system](#1-the-system)
2. [How the code is modelled](#2-how-the-code-is-modelled)
3. [Modules](#3-modules)
4. [Runs: what is checked](#4-runs-what-is-checked)
5. [Fairness](#5-fairness)
6. [Proofs](#6-proofs)
7. [Where code and comments disagree](#7-where-code-and-comments-disagree)
8. [Not modelled](#8-not-modelled)
9. [Plan](#9-plan)

Everything runs from this directory: `tlc -config MCContracts.cfg MCContracts`,
`tlapm ContractsProofs.tla`. `PROJECT.json` lists components, runs, mutants, the lines each
definition models, hazards and theorems.

## 1. The system

A tenant is a school or a foundation with its own database schema. Requests are served
by stateless handlers: a controller checks the role and calls a service, which reads rows,
checks them, and writes them, an `await` between any two. The state is in PostgreSQL
(per tenant, READ COMMITTED), Redis (codes, refresh tokens, queues) and object storage
(files). Two BullMQ workers, for mail and push messages, run in the same process.

What makes the system hard is the same in nearly every component: **the check and the
write are two queries, the write names its row by id only, and few rules have a constraint
in the database behind them.** Two requests, or a request and a crash, can come in between.

| Component | State it keeps | Operations that change it | Interacts with | What makes it correct |
|---|---|---|---|---|
| Documents (`contracts`) | contract rows: status, approver, signer, rejection; templates; files | create, update, submit, publish, reject, approve (sign), remove | on signature: teaching or homeroom assignments; notifications to approvers and the recipient | only the authorised decide; decision columns agree; side effects exactly for signed documents; documented lifecycle |
| Timetables (`schedules`) | timetables with a status; blocks (teacher, room, slot) | create, update, publish, archive, remove; add, update, remove a block | contracts in force authorise teachers; publishing notifies | no teacher or room twice at once; one block per cell |
| Admission stages and applications (`admissions`) | stages with roles; applications naming a stage by key; documents | seed, create, update, delete stages; submit, place, move (one or many), choose a package, remove | roles drive side effects; invoices and the public portal read applications | singleton roles; stages exist; a role's side effects done; parents only accept an open offer |
| Registration numbers (`admissions`, `ppdb`) | a number and access code per application, a number per invoice | numbering at creation, change of the year, public lookup | invoices are numbered by their application's year | a number is given once; number and code find the application |
| Admission invoices (`admissions/invoices`) | total, paid amount, status, payment date, claim | create, record payment, cancel, remove, claim | the portal claims payments | amount, status and date agree; nothing counted twice or lost; settled stays settled |
| Homeroom teachers (`homeroom-assignments`) | assignments, one active per class; a copy of the teacher on the class | create (replacing), update, deactivate, remove; a signed letter | attendance and enrolment ask who the homeroom teacher is | at most one active; the copy names it |
| Academic years | terms, one of them active | create, activate | classes, timetables, numbers refer to a term | one active term |
| Classes and enrolment (`classrooms`) | classes, enrolments | create, update, remove; assign one or many, unassign | announcements resolve to enrolments, attendance requires one | a student is in one class |
| Attendance | one record per student, day and lesson (or homeroom) | save the marks of a class | reads enrolment and homeroom assignments | one record each |
| Announcements | announcement with a status, recipients, delivery logs | create, update (schedule), send, dispatch what is due, remove | enrolments; mail queue; notifications | sent once per asking, to everybody |
| Notifications and push queue | events, recipients, devices, logs, queue jobs | create and queue, register and revoke a device; the worker | FCM; every component that notifies | every notification gets its push, once, to its owner's devices |
| Mail queue | jobs | add; the worker | SMTP | - |
| Tenants and provisioning (`tenants`, `tenant`) | tenant rows with a type and a parent, a schema for each school | create, register, update, remove, provision, migrate | platform users; every schema is made by a child process | a school has its schema; the parent of a school is a foundation |
| Tenant clients (`prisma`) | at most 50 database clients, one per schema | look up, evict the one looked up least recently | every request picks its client by tenant | bounded; a client that was closed is not forgotten while open |
| Authentication (`auth`, `redis`) | refresh tokens and one-time codes in Redis | log in, act as a user, refresh, log out; ask for and use a code | platform users, tenants, users | a refresh token is used once and keeps its scope; a code is used once, within its attempts |
| Networks (`networks`) | settings of schools, policies, the audit log | update a branch or its status; create, change, delete a policy; dashboard | tenants; reads every school's schema | a foundation changes its own schools; the log tells what was done |
| Superadmin dashboard | none | - | tenants | the counts add up |
| Users and import, profiles, rooms, unavailability | rows with a unique key | create, update, remove; import row by row | platform users | one row per key; conflicts are answered, not crashed into |
| Guardians (`student-profiles`) | guardians of a student, one primary | add, change, remove | notes and attendance read them | one primary guardian |
| Files (`storage`, photos, notes, templates, entries, documents, letters) | rows with a URL, objects in the store | upload, replace, delete | object store | a row's file exists; an object belongs to a row |
| Seeds (`prisma/tenant`) | the fixtures of a schema | three scripts, run by hand, again and again | the same tables as the school | running again changes nothing; one active term, one homeroom teacher, one class |

Hard behaviours, all in PROJECT.json under `hazards` at the line where they bite:
check-then-write races of two requests (most components); a handler that writes a row from
a copy that is out of date (decisions on documents, payments); several writes without a
transaction, of which one fails (side effects of a signature, homeroom letters); rows
committed before the jobs they need are queued, and a crash in between (announcements,
notifications); a job that runs again; long legal sequences that leave a checked state
(an application moved to another year, a timetable taken back out of the archive, a
removed class with its enrolments); a file and the row that points to it, written by two
systems without a transaction; a schema and its tenant likewise; counts taken while what is
counted changes.

## 2. How the code is modelled

* **Handlers are split at their awaits.** A handler that reads, checks and later writes is
  `Begin...` (the read with every check and early return) and `Commit...` (the write, with
  the copy it read). What is one database transaction is one action, unless the
  transaction itself reads first and writes later at READ COMMITTED. A handler that only
  asks whether a row exists and then writes a constant is one action.
* **`req[w]`** is what request `w` is doing and holds in local variables. The number of
  workers bounds the requests in flight. Handlers are also in flight together with crashes
  (`Crash`, or a `Fail...` action where dying and throwing have the same effect): the
  database keeps what was committed and the requests are gone.
* **Data is cut down to what properties tell apart.** People, classes and rows are model
  values, an application number is the pair that its text is made of (the first part of the
  academic year, up to letter case, and the sequence), a timestamp is whether it is set.
* **History variables** record what the code does not: whether what a request read still
  stands when it writes (`fresh`), and which rows were written otherwise. No action depends
  on them. They make it possible to state what the code *does* guarantee: the plain rule
  ("one active term") is false, and the property says exactly which interleaving breaks it.
  Every one of these escape clauses is needed: without it TLC finds the interleaving.
* `Mutant:` definitions are plausible bugs. Replacing the definition after them by the
  mutant makes the run violate the property that PROJECT.json pairs with it.

## 3. Modules

| Module | Models | Correspondence |
|---|---|---|
| `DocumentLifecycle` | what the document workflow promises of one document, without requests and awaits | abstract specification: drafted, submitted, rejected or signed for good, soft-deleted for good |
| `Contracts` | `contracts.service.ts`: create, submit, publish, reject, approve, remove, side effects, notifications | `contract` is the row's workflow columns, `applied` the side-effect writes done, `inbox` the notifications; `Arrive` are the requests that come in, `Advance(w)` the awaits of one going on; `Lifecycle` is the refinement mapping (status and deletion mark) |
| `Schedules` | `schedules.service.ts`: timetables, blocks, the clash rules | `BeginAdd`/`BeginUpdate` check the merged block, the commits write only the fields of the request; the unique index is a guard of the commit |
| `Invoices` | `invoices.service.ts`, `ppdb.service.ts` `claimPayment` | `BeginPayment` reads the paid amount, `CommitPayment` writes the sum with the status that follows |
| `AdmissionPipeline` | `stages.service.ts`, `admissions.service.ts` (submission, placement, transitions), `ppdb.service.ts` (package) | `stage` by key, `app` with its stage's key and the marks transitions leave |
| `Registration` | numbering in `admissions.service.ts` and `invoices.service.ts`, `update` of the year, `lookup` of `ppdb.service.ts` | a request counts the rows of the whole year, then inserts a number made of `StartOf[year]`, its part before the first dash, and one more; `lookup(no, code)` is the set of answers the unordered `findFirst` can give |
| `Homeroom` | `homeroom-assignments.service.ts`, the homeroom effect of a letter in `contracts.service.ts` | `assignment` rows, `homeroom` the copy on the class; a letter is three actions, as it is three writes |
| `SchoolYear` | `academic-years`, enrolment in `classrooms`, `createAttendance` | `term`, `enrolment`, and how many `marks` a student has for each lesson of a day |
| `Publishing` | `announcements.service.ts`, `notifications.service.ts`, the push worker, the mail jobs | `announcement`, `recipients`, `mailed`, `notified` rows; `queue` and `run` the push worker; `device`, `log`; `pushes` what FCM accepted |
| `TimetableNews` | `publish`, `create`, `update` of `schedules.service.ts` and whom they tell | read, write, read the class and tell, as three awaits; `told` is who heard since the timetable was last made public |
| `CategoryProofs` | `verifyDocument` and the category of the applicant in `admissions.service.ts` | the document's write and the applicant's are two actions; staff may set the category by hand in between |
| `Sums` | the sums that properties speak of | the sum of a table of figures is the size of a set of pairs, so that it can be reasoned about without induction |
| `Requests` | the requests in flight, shared by `Invoices`, `Registration` and the back office modules | `req[w]` is a record of local variables with the await it is at |
| `Provisioning` | `tenants.service.ts` (create, register, migrate), `tenant-provision.service.ts` | `owner` is the tenant's row, `schema` how far its schema is; every roll-back is a step that may be lost |
| `Foundations` | the hierarchy in `tenants.service.ts`, the tree, `superadmin-dashboard.service.ts` | `tenant` rows; the validation and the write of one tenant are two awaits |
| `Clients` | `prisma-tenant.service.ts` | `clients`, `lastAccess` are the two maps, `pool` the connection pool of each client, `now` the clock in milliseconds |
| `Sessions` | `auth.service.ts`, refresh tokens in `redis.service.ts` | `refreshToken` is the stored payload; login, impersonation, refresh and logout by Redis command; `networkOf` is the parent of a school, which `moveSchool` (the update of a tenant) may change, and nothing stored with a session follows |
| `ResetCodes` | `forgotPassword`, `resetPassword`, `saveOtp`, `verifyOtp` | `otp`, `attempts` are the two keys; every command is an action, and each key may expire |
| `Records` | users, platform users, profiles, rooms, unavailability, `users.import.service.ts` | one machine for seven services, each a record of what it looks among; the unique index is a guard of the commit |
| `Guardians` | guardians in `student-profiles.service.ts` | clearing the others and setting the new one are two actions |
| `StoredFiles` | `storage.service.ts` and its callers | one action per handler and one per await; `file` is the rows, `stored` the objects and for which row they were made; `setAvatarUrl` is the account handlers that take any address, `removeProfile` the deletion of a student's row with its photo, `createDocument` and `signDocument` the generated PDFs |
| `AttendanceReports` | the pages read from the marks in `attendance.service.ts` | the five pages as operators over `marks`, `enrolments`, `classroom`, `timetable`, `lesson`, `activeYears`; the state is changed by marking (two marks of one homeroom day, if they were saved at once), by enrolling and leaving (two classes, likewise), by editing and removing classes, timetables and lessons, and by activating a year |
| `Branches` | `networks.service.ts`: branches, policies, log | the settings, the name, the status and the log entry are writes of their own |
| `Dashboards` | `networks.service.ts`: the dashboard's figures, scores, levels, flags | scores as operators on figures; the fifteen counts of a school, of which three are windows of the attendance, are queries of their own, and a report mixes those from before and after a change |
| `SampleData`, `SampleYear` | `seed.ts`, `seed-schools.ts`, `seed-attendance-feature.ts` | `Table` records say what each table looks for and does with what it finds, whether a second key (`nisn`, `nik`) is unique too, and whether the key follows the day of the run; the rows that belong together (term, homeroom teacher, class) are in `SampleYear` |
| `MC...` | instances for TLC | constants and symmetry; `MCBackOffice` runs the modules from `TimetableNews` on, one part per behaviour |
| `ContractsProofs`, `InvoicesProofs`, `HomeroomProofs`, `SchoolYearProofs`, `SchedulesProofs`, `AdmissionProofs`, `PublishingProofs` | theorems and proofs, a module each; that of the invoices is about their numbers (`Registration`) too | see section 6 |
| `BackOfficeProofs` | theorems and proofs about the fifteen parts of the back office, a section each, and about `MCBackOffice` as a whole | see section 6 |

Abstractions worth knowing:

* `Contracts`: what a side-effect write stores is left out (`EffectWrites` says how many
  awaited writes there are); the homeroom effect, which has most to go wrong, is modelled
  write by write in `Homeroom`. Templates, rendering and upload are one await that may fail.
* `Schedules`: the three clash queries of one check run at one instant. The code awaits
  between them, which can only make the check older; the history variable already treats
  every write since the check as a race.
* `AdmissionPipeline`: the order of stages is left out. Where the code takes the first
  stage with a role, the model takes any, so it has every behaviour the order allows.
* `Homeroom`: a teacher profile and its user are one (they are one to one).
* `SchoolYear`: READ COMMITTED is modelled by what an UPDATE may find: the rows that match
  when it begins. It does not find a term that another transaction makes active meanwhile.
  All students are active, so the bulk and the single handler check the same.
* `Records`, `SampleData`: what services or tables have in common is written once, and a
  record per service or table says how it differs. A behaviour is about one of them.
* `StoredFiles`: a key is new when it is a random name, the applicant's number for a letter,
  and the name its uploader chose for a document, so that two may be the same.
* `Registration`: two first parts that differ in letter case only count as one, as the lookup
  compares numbers without regard to it.
* `AttendanceReports`: a mark is one step here (how it is written is in `SchoolYear`). A page is
  read at one instant, although its queries are several; so the properties do not compare a
  figure of a page with that of another of its queries (the day with the week), and where two
  pages are compared, nothing is saved in between. Filters that a caller may add, which only
  narrow a page, are left out, and so are the unique names of classes and timetables: the model
  edits more than the school can.
* `Dashboards`: a figure is 0, 1 or 2 and is changed by one at a time; what is counted is left
  out, except what holds of any school at one time (`Consistent`); the arithmetic (rounding,
  weights, thresholds) is the code's.
* `Publishing`: BullMQ is external: a job whose process died is taken up once more, a job
  that threw is not (no `attempts` are configured, against the comment in
  `send-mail.processor.ts:38`). Every user has an account and an address.

## 4. Runs: what is checked

`TypeOK` (`RegistrationTypeOK`) is the type invariant of each module. Sizes are distinct states.

| Run | Property | In words |
|---|---|---|
| `documents` (120 thousand, with liveness) | `DecisionsAuthorised` | whoever is recorded as approver or signer was allowed to decide |
| | `CleanRecordCoherent` | signature, approval and rejection columns agree, unless a decision was taken from a stale copy |
| | `EffectsMatchSignature` | side effects in force belong to a signature, and a signature has all of them unless it is still running or a write was lost |
| | `FollowsLifecycle` | the handlers implement `DocumentLifecycle` (refinement) |
| | `SignatureTakesEffect` | a signature is eventually in force, or a write of it is lost (liveness) |
| `timetable` (950 thousand) | `TimetableSound` | a cell holds one block, always (unique index: `OneBlockPerCell`); no teacher and no room is booked twice across timetables in force, except by a write from a stale check or in a reopened timetable (`NoDoubleBooking`) |
| `invoices` | `LedgerCoherent` | paid amount, status and payment date never contradict each other |
| | `PaymentsCounted` | no payment counts twice; only a stale write loses one |
| | `SettledStays` | without a stale write the paid amount never shrinks and paid or cancelled is not undone (action property) |
| `pipeline` (2.2 million) | `SingletonRoles` | an automation role belongs to one stage unless its check was overtaken |
| | `ApplicationsStand` | applications stand in stages that exist, unless their stage was written unchecked or checked too early (`StageExists`), and carry the marks of their stage's role (`RoleEffects`) |
| | `StepsAllowed` | the entry stage is not deleted, and a parent's choice moves an application only from an open offer to acceptance (action property: `EntryStays`, `ParentsOnlyConfirm`) |
| `registration` | `NumbersGivenOnce` | a number of an application or an invoice is given once within the year it was counted in, unless counted stale or after an application left the year; two years that begin alike give the same numbers |
| `homeroom` (880 thousand) | `HomeroomCoherent` | one active homeroom teacher per class, always (partial unique index: `OneHomeroomTeacher`); the copy on the class names that teacher, unless its writer was overtaken, half done, or an edit (`ShowsHomeroomTeacher`) |
| `school_year` (300 thousand) | `OneActiveTerm` | one active term, unless two activations overlap |
| | `OneClassPerStudent` | one class per student, unless two enrolments overlap; removed classes count |
| | `OneMark` | one mark per student and lesson, always; of the homeroom unless two saves overlap |
| `publishing` (2.7 million) | `SentOncePerAsking` | sent once per send or scheduling, unless two dispatches overlap |
| | `EverybodyReached` | everybody addressed was mailed and notified once no send runs, unless one was cut short (`NobodyForgotten`); whoever has a notification row has a job waiting, running or done, unless the send stopped in between or the job failed (`NotificationsArePushed`) |
| | `PushesAccounted` | a log that says sent stands for an accepted message and no message is without a log (`LogsTellTheTruth`); no device is pushed twice, unless two sends overlap or the job ran again after a crash (`PushedOnce`) |
| | `PushedToOwner` | messages go to a device of their recipient that is in use, unless it changed after the job read it (action property) |
| `back_office` (1.7 million in fifteen parts) | `TenantsKept` | a school that no request is making, undoing or migrating has its schema, migrated, and a schema has its tenant, unless a crash, a failed roll-back or a change of type left them apart (`Provisioning`); the parent of a school is a foundation unless that one was one once, and every tenant is in the tree (`Foundations`) |
| | `ClientsBounded` | never more clients than the limit, no two schemas with one client, and a client that left the map is being disconnected, unless a request that had looked it up before used it afterwards |
| | `SessionsSound` | a session is one chain of refresh tokens that keeps its scope and ends with the logout, unless two of its requests overlap; the scope of a foundation's user, acting or not, names that foundation and a school that is its own, unless the school has been moved to another since it was let in |
| | `CodesUsedOnce` | a code changes the password once and is compared at most as often as allowed, unless it was stored or current while two requests were in flight |
| | `RecordsAnswered` | one row per key, removed ones included; why the index may refuse what a service let through; every row of an import is counted once |
| | `StudentsKept` | one primary guardian, unless two were chosen at once (`Guardians`); the category follows the proof decided last (`CategoryProofs`); a published timetable was announced once to everybody who was in the class (`TimetableNews`) |
| | `FilesKept` | a row's file is there and was stored for it, and an object has a row, except what a lost or overtaken request left, rows that share a file, an avatar's address given by hand, and the objects whose row was signed, given another address or deleted |
| | `NetworkChangesScoped` | a foundation changes only its schools and policies, except a school that left in between; the log tells of what was done |
| | `SeedsSettle` | run again, alone, a seed leaves every fixture once (a mark, once for the day of the run) and ends without an error; after the school has removed or changed the fixture it may fail for the causes the property names (a removed row that the index still knows, a changed row that kept its key, a `nisn` or `nik` that another row has). It leaves one active term (the demo's and the schools' may add one), one homeroom teacher whom the class shows (the schools' may show its own), one class per student (none for a demo student whom the schools' seed took for its own of old), unless it was killed half way or something else wrote at the same time |
| | `FiguresAgree` | the figures of every attendance page add up, and pages read together agree with one another but for pupils who have left a class, lessons, timetables and classes that were changed or removed, and second marks; a rate is 0 to 100 % and 100 only if one mark at most in 20,000 was missed (`AttendanceReports`, `RateSound`); a dashboard is right about a school that nobody changes, and off only where two of its counts, or two windows of its attendance, saw different schools (`Dashboards`); the superadmin's counts every school under its foundation or under none (`Foundations`, `SchoolsAddUp`) |
| `reject_after_signature`, `notified_approver`, `lookup` | | expected violations, section 7 |

Deadlock checking is off in all of them: the modelled clients may run out of requests
(every row used, every bound reached), and the real system may idle.

**Bounds and why they suffice.**

* `documents`: one document, because no two documents share a row; two requests, because a
  stale write needs one request to read and one to overtake it; two effect writes, so that
  one can be done and one lost; users of every role that decides, and a delegate.
* `timetable`: two blocks are a clash, and two requests can change different fields of one
  block, each correct for the copy it merged with. One slot: blocks in different slots do not
  meet. Teachers and rooms are two each, plus a teacher without a contract.
* `invoices`: three payments at once, so that two stale ones can follow a full one; a total of three
  admits partial payments, over-payments and zero.
* `pipeline`: two stages and one application with two requests: every rule relates two
  stages, or a stage and an application. Applications share nothing but stages.
* `registration`: three applications, since a number repeats only after two were counted and
  one left; two years, which begin alike here and apart in `lookup`; two requests.
* `homeroom`: two of everything; a letter needs an active row of another year to fail.
* `school_year`: three terms, as two activations overlap over a third; two classes; one
  student, since rules never relate two.
* `publishing`: two recipients who share one device, two sends, `MaxAsked` = 2 (send again,
  dispatch twice, or schedule what was sent) and `MaxMoves` = 2 (the device is registered
  and changes hands or is revoked).

* `back_office`: a behaviour is about one part, and all parts have two requests in flight
  (one that checks and one that comes in between; the counts of the dashboard have none).
  One slug, because tenants share no schema; two tenants, a foundation and its school. Two
  clients for three schemas instead of fifty for more: eviction needs the limit and one more,
  and a clock that two look-ups may share. Two codes, so that the second replaces the first,
  and two attempts. Three rows for two keys, so that a removed row keeps one, and an import
  with a repeated key. Three guardians of two students; two rows and three objects, so that
  two rows share an object and one is replaced. One school
  that joins and leaves the one network. Two pupils in two classes of one grade, with another
  grade to be moved to; one lesson and its timetable, which may go to the other class; two marks
  (of two pupils, of two days, or two of one homeroom day) and `MaxAltered` = 2 changes of what
  they refer to, so that one can change what another has made; two years of which the first is
  active, with a month that begins within the days of the marks. One branch between two
  foundations. Two classes of the demo's student, one of them the schools'. A seed's fixture in every table that is seeded in a way of its own,
  with three rows for what the school adds or removes; two readers of a timetable; two
  proofs.

Symmetry over identifiers is used where no liveness is checked; no constant is distinguished
by a definition there.

## 5. Fairness

Only `documents` checks liveness. `FairSpec` of `Contracts` asks weak fairness of
`Advance(w)` for every request `w`: an awaited call settles, with success or failure, and
Node continues the handler that awaits it. Nothing is asked of clients (no request need ever
come), and nothing makes a failed write succeed or a crash not happen, which is why
`SignatureTakesEffect` allows for a lost write. Safety is checked and proved without fairness.

## 6. Proofs

Every safety and action property that a passing run checks is stated by a theorem. The theorems hold for every value of the constants that satisfies the named
assumptions (`ContractsAssumption`, `SchoolYearAssumption`, `NoRequestAssumption` and the like). These
type the constants and keep null values apart from ids, requests and rows, and TLC evaluates
them in every run. The bounds of a run (`MaxAsked`, `MaxMoves`, `MaxCodes`, ...) stay constants
in the proofs: a theorem is about any bound.

All the arguments have one shape. The property alone is seldom inductive, because it depends
on what the requests under way are going to write. The inductive invariant adds what each of
them may rely on between its read and its write (`ReadInv` and its relatives), *as long as it
is fresh*: a write by another request that its check depends on clears `fresh`, or puts what
is crossed into a history variable. A fresh write keeps the rule; any other one is in the
history, and the property excepts it. TLC finds every inductive invariant true on the instance
of its run as well. Each proof has one lemma or step per action.

**`ContractsProofs`.** `TypeCorrect`, then `Inductive`: `Spec => []IInv`. None of the three
safety invariants is inductive, because each depends on what a request that is under way
will write. `IInv` adds what every waiting handler may still rely on: the user deciding was
checked against the approver roles, which never change, and so was the approver it saw; a
request whose copy is `fresh` still sees the row in the status it checked; a request that
applies effects belongs to a signed document, and all its earlier effects are in force.
`DecisionsAreAuthorised`, `CleanRecordsAreCoherent` and `EffectsFollowSignatures` follow.
`ImplementsLifecycle` shows that initial states map to initial states and that every step
is a lifecycle step of one document or leaves its status, deletion mark and `clean` alone;
it uses `IInv` to know that a fresh decision finds the status it was checked against.

**`InvoicesProofs`.** `InvoicesInductive`: `IInv` joins the type invariant, the two state
properties and `credited[i] <= Total[i]` with `PaymentInv(w)`: what a payment under way has read was really credited, and
while nobody else writes the invoice it is the current paid amount of an invoice that is not
cancelled. The rest is arithmetic on `PaidAfter` (lemmas `PaidAfterBounded` and
`PaidAfterMonotone`): capped by the total, never more than credited, never less than what it
started from. `SettledInvoicesStay` proves the action property from the same invariant.

A second part is about `Registration`. `NumbersStayGivenOnce` needs that no number is beyond the
count of the year it was counted in (`NumbersCounted`), so that one more than the count is new to
that year; counts only grow (`CountsGrow`, from the library's facts on cardinality).

**`HomeroomProofs`.** `HomeroomInductive`: `IInv` joins the type invariant and
`HomeroomCoherent` with `HeldInv(w)`: an assignment that a request is to replace or end is
stored, and one that it found ended has not become active since. Without the second half a
`deactivate` that read an ended row could empty a class and leave the copy. There is one lemma
for each action; each says how the active rows of a class may change, and `ClassUndisturbed`
settles the classes that the action does not touch. `HomeroomStaysCoherent` is the property.

**`SchoolYearProofs`.** `SchoolYearInductive`: `IInv` is the type invariant, the three rules and
`ReadInv(w)`: a fresh request has read what it would read now: the active terms, that no
student is enrolled, the marks that exist. `ActiveTermUnique`, `ClassUnique` and `MarkUnique`
follow. The mark of a lesson needs no such clause, because its unique index is in the guard.

**`SchedulesProofs`.** `SchedulesInductive`: the block that a fresh request is about to write
(the fields it changes over the stored ones, `Written`) clashes with none in force but those
of reopened timetables. `Placed` says that stored blocks belong to timetables that exist,
without which a timetable could be created around blocks that nobody checked.

**`AdmissionProofs`.** `AdmissionInductive`: what a request of each kind has checked about stages
and applications still holds (`Holds`). `RolesStaySingle` and `ApplicationsKeepStanding` follow,
and `StepsStayAllowed` proves the action property: the removal of a stage and the choice of a
parent write only under what `Holds` says.

**`PublishingProofs`.** `PublishingInductive` follows a recipient through the two queues. Every
recipient of a dispatched announcement is mailed and notified, or the request that is to do
it is at work, or the send was cut short (`Reached`); whoever is notified has a job, a run
or is done (`NotificationsArePushed`); the run has logged a push before it sends it (`RunLogged`); and
a recipient is in one place only before the push: unnotified, with the sender, in the queue
or in the run (`OnTheirWay`), from which no double push follows. Sends are counted against
what was asked for (`SendsCounted`). `SendsStayAsked`, `EverybodyStaysReached`,
`PushesStayAccounted` and the action property `PushesGoToOwners` are proved from it.

**`BackOfficeProofs`.** A section per part; its theorem is about the part's own specification.

| Part | Theorem | What the inductive invariant adds |
|---|---|---|
| `ResetCodes` | `CodesOnce` | the counter has seen every comparison with the stored code, unless requests overtook one another |
| `Sessions` | `SessionsStaySound` | a session has one token, or one request that is about to store it (`ChainsKept`); the scope of each is sound, or its school has been moved since (`ScopesKept`), and a sign-in under way knows whether it has |
| `Clients` | `ClientsStayBounded` | no two schemas have one client and every open client is in the map; the client that a request holds is its schema's, or closing or closed (`ClientsHeld`) |
| `Records` | `RecordsStayAnswered` | no two rows have a key; an import has counted every row before the one it is at (`RecordsKept`) |
| `Guardians` | `OnePrimaryStays` | a request that has cleared the others sets the only primary there will be, or the student is disputed (`PrimaryKept`) |
| `CategoryProofs` | `CategoryFollows` | who is between the two writes of a decision, and that it is the last one (`CategoryRead`) |
| `TimetableNews` | `TimetablesAnnounced` | while requests come one after the other, the status that one read stands, and who is in a published class has been told, has joined since or is about to be told (`StatusRead`, `Announced`) |
| `Branches` | `BranchesStayScoped` | the branch of a request is its foundation's still, or has slipped, and its policy is too, or is deleted (`ScopeRead`) |
| `Provisioning` | `SchemasStayMatched` | one request at most makes the schema of a slug; without one, schema and tenant match, or the slug is broken (`SchemasKept`) |
| `StoredFiles` | `FilesStayKept` | the object that a request replaces is out of the store when the row is written, or is deleted right after; the new object of an attachment is nobody's yet, and attachments share none (`FileRead`, `AttachmentsApart`) |
| `Foundations` | `HierarchyStaysKept`, `SchoolsStayCounted` | the parent that a request checked is a foundation, was demoted, or is gone (`ParentRead`); tenants are finitely many, as they are made one at a time (`CountedInv`) |
| `AttendanceReports` | `ReportsStayAgreed` | the marks of a pupil, lesson and day are told apart by their number (`OneRow`), a lesson has one; each is of the class of its lesson's timetable unless that was given to another, and its pupil is in its class unless he has left one (`OfItsClass`); marks are finitely many |
| `Dashboards` | `DashboardsStaySound` | the types of the figures; every figure of a report is that of some time since it was begun (`ReportsTyped`), windows of one time nest (`SettledNests`), and the rest is arithmetic, for mixed reports too |
| `SampleData` | `SeedStaysIdempotent` | a run that is alone knows whether its row is there (`FixtureRead`), and each failure has its cause, a second key that another row has included; every table that is seeded is a sound one (`TablesSound`) |
| `SampleYear` | `SampleStaysSettled` | what is half done, and by whom (`Unsettled`); who was dropped has no class until the seed or the school gives one |

`BackOfficeTypeCorrect`, `TenantsStayKept`, `StudentsStayKept`, `SeedsStaySettled` and
`FiguresStayAgreed` are about `Spec` of `MCBackOffice`, where a behaviour is about any one of
the parts: `BackOfficeInv` is the invariant of the part that runs, and a step of the whole is a
step of that part.

`FiguresStayAgreed` is about the sums. A sum of natural numbers is the number of pairs that its
tally has (`Sums`), so that two sums agree when their sets do, and the library's facts on
cardinality replace an induction over the rows. `SumOfParts` is the fact they all rest on: the
sizes of disjoint parts add up to the size of the whole. `RowsAddUp` states it for the rows of a
page, `RowsByKey` for marks divided by whatever a page groups them by (class, grade, lesson,
pupil), `DaysAddUp` and `WeekAddsUp` for days. The marks of removed classes, which the principal's
page leaves out and the pupils' own count, are a part of their own. `ParentAgrees` also needs the months:
`AttendanceReportsAssumption` says that a day of a mark has a month start at or before it and one
after it, as a calendar has.
The rates rest on what `Math.round` does (`RoundedBounds`, `RoundedAtMost`, `RoundedAtLeast`): a score
is the weighted sum of parts of which each has its bound (`AttendanceScored` to `SetupScored`), and a
merged rate lies between those that are merged, as a mediant does (`MergedBetween`).
`SchoolsAddUp` is a partition of the stored schools by foundation (`SumOfParts`), whose parts the
hierarchy invariant keeps apart.

Only model-checked, and why:

* `SignatureTakesEffect`: liveness; `ENABLED` and fairness are out of the proof system's reach.
* The three violations of section 7, which are counterexamples.

## 7. Where code and comments disagree

* `reject_after_signature`: "Reject a submitted document" (`contracts.service.ts:561`).
  `reject` checks a copy and writes by id; a signature in between, which takes its time
  rendering a PDF, is overwritten, and the active document is rejected with its signature
  and side effects kept.
* `notified_approver`: "Notify the configured approver role" (`contracts.service.ts:512`).
  The category's role is notified even when the document has approver roles of its own, which
  are the ones that may approve.
* `lookup`: "resolve an application's tracking link from its number + access code"
  (`ppdb.service.ts:171`). Moving an application to another year keeps its number, so the
  next number repeats one, and the lookup compares the code with one of the two only.

Seen while modelling and covered by escape clauses rather than runs of their own:
"the single active one" (`academic-years.service.ts:73`) does not hold for two overlapping
activations, and "BullMQ will retry" (`send-mail.processor.ts:38`) has no attempts configured.
Others, each excepted by a history variable of its module:

* `Provisioning`: a slug is refused by `create` when a removed tenant has it, and reported
  free by the validation (`tenants.service.ts:372`).
* `Clients`: a client closed while a request holds it reconnects at the next query, and is
  then in nobody's map.
* `Registration`: a number has the first part of the academic year only
  (`academicYear.split('-')[0]`, `admissions.service.ts:209`, `invoices.service.ts:28`), while the
  count is of the whole text, which nothing constrains: "2026-2027" and "2026" (or
  "2026-2028") are counted apart and give the same numbers.
* `Sessions`: two overlapping refreshes of one token both get a new one. A refresh stores the old
  payload again, so that a foundation's user stays in a school that has left the foundation for
  as long as the session is refreshed.
* `ResetCodes`: saving a code resets the count of attempts in a second command, and an old
  code's attempt may fall in between.
* `Records`: a name of a removed room cannot be given again, and the answer is an internal
  error, because only live rooms are looked at.
* `StoredFiles`: acceptance letters of two applications with one number (see `lookup`)
  overwrite each other; so do documents uploaded under one name. An account takes any text as
  the address of its avatar (`users.service.ts:203`, `:273`): the row may name what nobody
  stored, and the object it named before stays. Deleting a student's profile deletes its row
  (`student-profiles.service.ts:174`) and leaves the photo. Signing gives a document a new PDF
  and leaves the unsigned one. Rows that are only marked as removed keep their pointers.
* `Branches`: the audit entry is the last write, and a crash loses it.
* `AttendanceReports`: marks may be made on a day without that lesson, which no subject page
  shows; a mark outside the year of its class is missing from the termly page. A pupil who has
  left a class stays in the sums of its lessons, in no row of a page; a timetable that is given
  to another class takes the marks of the first with it; the second homeroom mark of a day is
  summed up and not shown; and the pupils' own pages count marks of removed classes, which the
  principal's does not.
* `Dashboards`: the three windows of the attendance are three queries (`networks.service.ts:555`),
  so that a day may show more marks than its week.
* `AttendanceReports`: a rate is rounded to hundredths of a percent, so that 100 % does not mean
  that all came once there are 20,000 marks, as of a hundred pupils in two hundred days. TLC
  cannot see it with few marks; the proof of `RateSound` found where it begins.
* `CategoryProofs`: deciding a proof "pending" makes the applicant `non_kf`, and a preschool
  applicant (`not_applicable`) gets a category.
* `TimetableNews`: a timetable created as published is announced to nobody.
* `SampleData`, `SampleYear`: the seeds stop with an error, every time, once the school has
  removed a room or class they look for among the live ones; the schools' and demo seeds may
  leave two active terms; the schools' seed keeps another teacher's assignment and still
  shows its own on the class. Once an account of a student has been renamed, a run makes another
  account, and fails every time on the `nisn` of the profile (a teacher's `nik` only if another
  row has taken it, as teachers are looked up by e-mail, which nothing changes). A run on another
  day makes another set of marks. The schools' seed ends the enrolments, in its own classes, of
  whoever has a username that its students had before they got a prefix
  (`seed-schools.ts:649`); some of the demo's students have these names, and one whom the
  school has moved there is left in no class.

## 8. Not modelled

* Settings, levels and features of tenants, level settings of admissions, fees, texts of
  notes and entries, pins and reading marks of announcements: one row per request that is
  stored and read back, and no rule that relates two.
* Read endpoints that list or page through one table. Pages with arithmetic (attendance,
  dashboards) are modelled.
* Addresses of files that a client gives and nobody stores (attachments of announcements).
  Of generated and signed PDFs, `StoredFiles` has the file and `Contracts` what a signature does.
* The values of the seeds' fixtures (most of the lines of the three scripts).
* The labels and variables of document categories (`document-categories.ts`), apart from the
  roles and effects that `Contracts` reads.
* Rendering, PDF conversion, storage, SMTP, FCM, password hashing, token signing: libraries
  and services.
* Guards and middleware: stateless. Who may call a handler is a guard where a property needs it.

## 9. Plan

Done, most important behaviour first: `DocumentLifecycle`, `Contracts` and its proofs (the
workflow everything legal hangs on); `Schedules` (double booking); `Invoices` and its proofs
(money); `AdmissionPipeline`, `Registration`, `Homeroom` and its proofs, `Publishing`, `SchoolYear`; then the
back office: tenants, clients, sessions, codes, keyed records, guardians, proofs, files,
timetable news, branches, dashboards, attendance pages and seeds.

Proved, in the order of section 6: every safety and action property of the runs, each from an
inductive invariant that says what a request under way may rely on.

Not done: two more refinements. Neither adds a property to those above.

1. A refinement between `Homeroom` and the effect writes of `Contracts`: a letter's three
   writes are the `EffectWrites` of its document.
2. An abstract specification of a keyed table (one live row per key, answers of create,
   update and remove), which `Records` and the rooms, users and profiles in it implement.
