# NIB Control360: a TLA+ model of the finding workflow and what surrounds it

NIB Control360 (ICFMS) is a bank's register of internal-control findings. A
branch registers a finding (so many cases, so much money), head office reviews
it, the branch rectifies it piece by piece, the district verifies, a controller
closes, and what is not closed moves from one reporting period to the next. The
figures of a period - how much was found, rectified, closed - are what branches
and districts are graded by.

The program is a Next.js application over PostgreSQL, with Redis for login
counters and a folder for uploaded files. It has no queue and no scheduler:
everything happens inside API routes, and all of them have the same shape.

    const { session } = await requirePermission(...)   who asks, with which role
    const db = await readDb()                          25 queries, no transaction
    if (...) return error                              the checks
    await updateDb((draft) => { ... })                 reads everything again,
                                                       mutates the copy, writes
                                                       the rows that differ

So every route is a check on one read followed by a write on another, and what
other routes commit in between is not seen by the check. This shape decides how
the project is built.

1. What do the routes do when they run one at a time? (`FindingWorkflow`,
   `Access`, `Organisation`)
2. What is left of that when they overlap? (`ConcurrentRequests`,
   `OverlappingAccess`, `Scoring`, `EvidenceFiles`, `ImportHistory`, `Reminders`)
3. What does the write itself guarantee? (`AuditedStore`)
4. Do the pages, which repeat the routes' rules by hand, and the reports, which
   add the routes' figures up, agree with them? (`FindingViews`,
   `FindingDashboards`, `Reports`, `ReportPages`, `AdminForms`, `CsvImport`,
   `DraftAutosave`)


## Inventory

| Part | State | Operations | Modelled by |
|---|---|---|---|
| Finding workflow (`app/api/findings/**`, `lib/findings.ts`, `lib/findingReopen.ts`) | `findings`, `finding_cases`, the ledgers `rectification_entries`, `closure_entries`, `finding_transfers`, who signed what (read back from the audit log) | create, edit, delete, submit, three reviews, rectify, verify, close, return, resubmit, reopen, transfer | `FindingHandlers`, `FindingWorkflow`, `FindingLifecycle` |
| Reporting periods (`app/api/admin/reporting-periods/**`) | status, drafts flag, dates, submission window | create, patch (with the sweep a lock sets off), delete | `FindingHandlers`, `FindingWorkflow` |
| Period residency (`findingResidencyInPeriod`, `closedInPeriod`) | none: computed from the ledgers | the share of a finding each period answers for | `PeriodResidency`, `Sums` |
| Finding pages, queues, dashboards | none: computed in the browser | buttons, forms, bulk bar, queues, cards, headline figures | `FindingViews`, `FindingDashboards` |
| Overlapping requests (every finding and period route) | a decision taken and not yet written | the two halves of each route | `ConcurrentRequests` |
| Data layer (`lib/db.ts`), audit log (`lib/audit.ts`) | the copies a request has read; `audit_logs` | readDb, updateDb, persistChanges, append, verify | `AuditedStore` |
| Historical import (`lib/import*.ts`) | batches, their numbers and original files; the findings they create | validate, commit, reverse, re-import, delete the record | `FindingImport` (what becomes of a row), `ImportHistory` (what becomes of a batch) |
| Reference numbers (`nextFindingReference`) | numbers held, numbers retired | next number of a branch and month | `ImportHistory` |
| Login, lockout, rate limits (`lib/rateLimit.ts`, login) | Redis counters and locks with a time to live | attempt, count, lock, expire | `LoginThrottle` |
| Sessions, roles, users (`lib/session.ts`, `lib/permissions/**`, `app/api/admin/{roles,users}`, `app/api/auth/**`) | accounts, roles, grants, cookies, reset links | every route that changes one of them | `Access`, `OverlappingAccess` |
| Evidence files | a row and an encrypted file | upload, download, remove, delete with the finding or import, cleanup script | `EvidenceFiles` |
| Notifications and reminders (`lib/notifications.ts`) | times of the last scan and of each last reminder | poll, scan, save settings | `Reminders` |
| Support threads | a conversation, its status and rating | write, answer, rate; two polling pages | `SupportThreads` |
| Organisation (`lib/org.ts`, districts, branches, departments) | units, who is placed in them, what is filed under them | create, edit, move, deactivate, delete | `Organisation` |
| Scoring rules, sources, categories, template sources | one row each; one version live, one source the default | create, edit, activate, delete | `Scoring` |
| Reports and exports (`lib/reportTemplates.ts`) | none: computed | the templates' figures, their pages and export | `Reports`, `ReportPages` |
| Administration pages, CSV import | a list loaded once, a form, a dialog | toggle, edit, save, delete; rows sent one by one | `AdminForms`, `CsvImport` |
| Autosave of a registration (`NewFindingForm.tsx`, `draft-autosave/route.ts`) | the form on the screen, a timer, a copy in Redis for a day | type, autosave, restore, discard, register, leave | `DraftAutosave` |
| Comments, single-event notifications, mail, error mapping, seed and reset, layout | rows no rule reads; none | - | not modelled, below |

### How the parts meet

- A finding has a **current period**, and its three ledgers stamp every row
  with the period of that moment. Only `findings.periodId` has a foreign key;
  the period columns of the ledgers are plain strings, protected by counting
  in the DELETE route.
- A period's **status** decides what may happen to its findings
  (`assertPeriodWritable`), and locking a period may **sweep** its unfinished
  findings into the next open one.
- A **return for correction** asks who verified or closed the finding last,
  and learns it from the audit log, relative to the latest rectification row.
- An **import** puts findings straight into the middle of the workflow, in any
  period; its **reversal** takes them out again, their files with them, and
  retires their numbers.
- Every route of the finding workflow but one **appends to the audit log** in
  the same `updateDb`; the exception creates a draft. The UNIQUE index on the
  sequence number makes two overlapping requests collide, and so serialises
  writers - a side effect nothing in the code relies on. Reminder scans,
  notifications and support messages append nothing, and nothing serialises
  them.
- A **cookie** carries what the login route read; `sessionVersion` in the
  account is the only thing that takes it back. Routes that must end sessions
  raise it, some on the value of their first read.
- A **file** is written before its row and removed after it, outside any
  transaction.
- **Pages** poll or load once; what they offer is decided by copies of the
  routes' rules and by lists that may be old.
- **Reports** are functions of findings, ledgers, calendar, organisation and
  scoring rule as they are now, also for days that are past.

### What is hard

`PROJECT.json` lists the hazards one by one with the line where each bites.
They are of these kinds.

- *Two reads.* The bounds of rectify, verify, close and transfer, the status a
  review decides on, the period lock, the next reference number, the next
  session version, the rule that an administrator remains: all are checked on
  the first read and applied to the second.
- *Long sequences.* Counters, status and three ledgers are maintained by
  different routes, and reopening resets some of them and not others. What a
  period is credited with after close-transfer-reopen-close is nothing a test
  of one route can show.
- *Two dimensions.* A finding has a case count and an amount, either may be
  exhausted first, a case may cost nothing, and a breakdown may be off by a
  hundredth. Rules that are too strict strand a balance, rules too lax leave
  money no case accounts for.
- *One write.* Atomicity, a commit that is refused, a process that dies
  between the file and the row, or between INCR and PEXPIRE.
- *Copies.* Rules written twice (route and page), figures computed twice
  (period and lifetime, screen and export), lists that are out of date.

### What makes each part correct

| Part | It is correct when |
|---|---|
| Workflow | closed <= verified <= rectified <= registered; the status tells the story the counters tell; the ledgers are the counters' history; nothing the branch owes is stranded; only a reopening undoes progress, and it undoes all of it; only the reversal of its import removes a finding the branch has |
| Periods | a locked period is frozen but for the drafts it allows and the history that is imported; no row names a period that is gone; transfers run forward |
| Residency | every case belongs to exactly one period; no period closes more than its share (where nothing is reopened) |
| Pages, dashboards | what is offered is accepted and what is accepted is offered; work is in somebody's queue; periods add up to the lifetime |
| Overlapping requests | no history is lost, a reopening is whole, the ledgers still match the counters |
| Data layer, audit log | one unforked chain without gaps; all of a request or nothing; no lost update; every request is answered |
| Import, numbers | a batch has its file, an imported finding its batch; the history offers what its routes accept; a retired number is not reissued |
| Logins | overlapping guesses are bounded, counters expire, a lockout lifts |
| Access | somebody can always give access back; one session a user, under the current password, in a live role; a revoked session stays revoked |
| Evidence | every row has its file |
| Reminders, support | a waiting finding is reminded of again and again, not twice in one window; a conversation's status changes by what its owner rates |
| Organisation, scoring | nothing new in a deactivated unit; a moved user fits the new place; one live version, never rewritten |
| Reports | rows, months, weeks and sources add up; what was reported of a past day stands until it is reopened; a branch that reported stays covered |
| Administration pages, CSV | nothing happens that no page announced; what the dialog says was added was, once |
| Autosave | the copy is what was typed, and nothing is left of what was registered |


## Modules

    Sums -- PeriodResidency -- FindingHandlers -- FindingWorkflow -- ConcurrentRequests
                                                    |   (refines FindingLifecycle)
                                                  FindingViews
                                                    |
                                                  FindingDashboards
                                                    |
                                                  FindingImport -- MCFindingWorkflow

    AuditedStore           Access -- OverlappingAccess

    Organisation, Scoring, Reports -- ReportPages       composed in Administration
    EvidenceFiles, ImportHistory, LoginThrottle,
    Reminders, SupportThreads, AdminForms, CsvImport,
    DraftAutosave                                       composed in Services

    PeriodResidency_proofs -- FindingWorkflow_proofs -- FindingBooks_proofs
                       \                          \- ConcurrentRequests_proofs
                        \- Administration_proofs
    Access_proofs     AuditedStore_proofs     Services_proofs

`CanX` is everywhere the conjunction of the early returns of a route on what it
read, `DoX` the mutator it passes to `updateDb`. Whatever the mutator takes
from the first read (`closable` in close, `isStatusChange` in the period PATCH,
`nextSession` in login) is a parameter of `DoX`, so a module may let time pass
between the two.

A few definitions are *faults*: `SwappedMove`, `UnverifiedClosable`,
`SetPasswordOnly` and so on sit just before the definition they imitate and
carry a mistake one could make there. Nothing uses them; putting one in the
other's place must break the property `PROJECT.json` pairs it with.

### FindingHandlers, FindingWorkflow

The tables and the handlers, then one action per route, `CanX /\ DoX`, on
behalf of any user, with the invariants and action properties.

| Here | In the code |
|---|---|
| `finding[f]` | a row of `findings` with its `finding_cases`; `total`, `rectified`, `verified`, `closed` are the pairs `caseCount`/`amount`, `rectifiedCases`/`rectifiedAmount`, `districtVerified...`, `closed...`; `items` and `done` are the amounts of the case rows and the ones ticked off |
| `period[p]` | a row of `reporting_periods`; `at` stands for `startsAt` and the year and month derived from it, `window` for the submission window being open now, `drafts` for `draftsAllowedWhileLocked` |
| `rectifications[f]`, `closures[f]`, `transfers[f]` | the ledger rows of `f`, oldest first. A rectification row's `after` says how many transfers preceded it, which is what comparing the timestamps of the two tables tells |
| `signed[f][u]` | what `userPerformedApprovalOrVerifyAction` finds in the audit log: whether `u`'s latest verify or close of `f` is before or after its latest rectification |

The two settings the handlers read (`hoApproval.required`,
`autoTransferOnLock`) are nondeterministic choices; the list of approvers and
everybody's grants and scope are constants.

### FindingLifecycle

What the workflow promises someone who sees neither periods nor
rectifications: a finding is registered, amended until submitted, reviewed,
then owed until all of it has been settled; only a reopening takes back what
was settled, and takes back all of it. A finding that was *backfilled*, the
record of a time before the system, may be withdrawn at any point; one that was
registered here may not. `ImplementsLifecycle`, through the mappings `record`
and `imported` in `FindingImport`, says that every step of the workflow,
imports and their reversals included, is one of these or invisible.

### PeriodResidency and Sums

`findingResidencyInPeriod` as operators on the transfers of one finding: its
*stays* (the origin, then one per transfer), what arrived with each and was not
carried onward, the sum of that over the stays in one period. `Sums` is
`reduce((a, b) => a + b, 0)` as a recursive function, so that proofs can unfold
it.

### FindingViews, FindingDashboards

What the browser computes from the same tables. `Shows(u, f, b)` is the
condition under which a finding's page renders a button (`FindingDetailClient`
and the permissions object the server hands it), `BulkShows` that of the list's
bulk bar, `FormEntries` what the rectification form lets through, `Queued` the
work queue; `Accepts(u, f, b)` is whether some request behind the button passes
its route. The dashboards' cards and totals are set operators over the findings
in the viewer's scope, for one period or all of them.

### FindingImport

`ImportRow(u, f)`: a validated row of a historical sheet becomes a finding at
the place its record had reached elsewhere, with the ledger rows that account
for it, in any period, locked or not. `ReverseImport(u, S)`: the findings of an
import go, whatever has become of them, with their ledgers and whatever else
names them. `imported` is which findings carry an `importBatchId`; the batch
itself is `ImportHistory`'s, so `S` may be any of them in the user's scope.
`ImportSpec` is `FindingWorkflow` with these steps added. The properties that
imports touch (`BranchSideIsFinal`, `OnlyReopenUndoes`,
`LockedRectificationsFrozen`, `ImplementsLifecycle`) are stated here, over
`ImportSpec`, and name what an import or a reversal may do. That a row's period
may be locked is meant: it "is usually *why* it's backfilled now" (`import.ts`).

### ConcurrentRequests

`Begin(w)` evaluates a `CanX` and remembers the request with what it took from
the read; `Commit(w)` applies `DoX` to the tables as they are by then, under
the checks the code repeats there - reopen evaluates `CanReopen` again inside
`updateDb` - and those the database makes: the foreign key of
`findings.periodId`, the UNIQUE period code, a row that is gone. `Fail(w)` is a
write that is refused or a process that dies. Findings of this module are plain
and its windows stay open. With one worker it implements `FindingWorkflow`
(`SequentialWhenAlone`): splitting the handlers adds nothing by itself.

### AuditedStore

One `updateDb` call per request: two reads in either order (the log, and the
row it will change: two of the 25 parallel queries), then one commit that
either writes the row and the new entries or is refused because a sequence
number is taken. A row's value is the set of requests whose effect it carries,
so a lost update is a request that disappears from it.

### Access, OverlappingAccess

Accounts, roles with their grants, cookies on devices and reset links, through
login, logout, the three ways a password changes, and the routes of users and
roles. A cookie keeps what login read, `Live(d)` is `getSession`'s verdict on
it. Passwords are counted, so that a cookie can say under which it was
obtained. Users and roles are patched field by field or in combinations of
`PatchFields` fields. `OverlappingAccess` splits every route in two, the reset
route in three (look up, consume, write).

### Organisation, Scoring, Reports, ReportPages, Administration

`Organisation` moves districts, branches, departments, users and findings under
each other; a session's `badge` is the place its user had at login, so that an
edit may come from somebody since moved. `Scoring` runs the routes of rule
versions, categories, sources and template sources whole, and lets any one of
them wait between its checks and its write. `Reports` has, reduced from their
handlers, the actions that change what a report can see: a finding is drafted,
edited while it is a draft or returned, submitted (which is when it is decided
whether that is on the branch's behalf), reviewed, deleted, imported, withdrawn
with its import, closed, transferred, reopened. Every template's figures are
operators over that; `ReportPages` is what pages make of them. `rewound` marks a
finding reopened after a transfer, which is when the rows kept and the figures
reset begin to disagree. The three share
no table; `Administration` composes them, `part` choosing which one moves.

### EvidenceFiles, ImportHistory, LoginThrottle, Reminders, SupportThreads, AdminForms, CsvImport, DraftAutosave, Services

Each is one small protocol around the findings, described at its head.
`Services` composes them as `Administration` does: they meet in the storage
folder and the server only, each has its own part of these, and `part` chooses
which moves. The variable `calm`, chosen once per behaviour, says whether the
thing each module names is left out: the cleanup script meeting an upload
(files) or an import, a registration overtaken between read and commit
(imports), the server stopping (logins), two scans overlapping (reminders), a
request lost or overtaken and a user who does not wait for the timer and the
answers (autosave). A property that says `calm => ...` is checked with the rest
of the protocol's faults present, and the behaviours without `calm` show what is
lost. `SupportThreads` needs none: a message and a rating each go through a
check, a read and a commit of the whole row, and what `ResolvedStands` says is
what is left of the promise then.


## Runs

Every run finishes in less than four minutes with two workers.

| Run | Shows | States |
|---|---|---|
| `FindingWorkflow` | every route, import and reversal, one finding, two periods, three roles as seeded, plain and itemised: counters, status, ledgers, shares, pages, queues, dashboards, refinement | 23 163 |
| `NoReopen` | three periods, nobody may reopen: transfers run forward, no period closes more than its share, a locked period's rectifications are frozen but for what is imported or withdrawn | 67 723 |
| `Registration` | registration and review against periods that are locked with and without drafts, moved in the calendar, and whose windows open and close | 14 905 |
| `AuditedStore` | three overlapping `updateDb` calls, two on one row: the chain is whole, all or nothing, the log-first lock, every request ends | 3 214 |
| `Concurrent` | any two routes at once on one finding and two periods: the ledger still matches the counters, the current period exists, no history is lost, a reopening is whole | 256 288 |
| `Access` | two users, two roles, two devices, a reset link, every route of theirs | 109 982 |
| `Administration` | organisation, scoring and reports | 175 646 |
| `Services` | evidence, import history, login throttle, reminders, support, administration pages, CSV import, autosave | 849 201 |
| `CloseTwice`, `ParallelLogins`, `ReissuedNumber`, `ReminderTwice` | one disagreement each, below | violated |

What the properties take to violate. `ResidencyAddsUp` and
`ClosedWithinEligible` relate the transfers to the current period over several
requests; `BooksAgree` relates three tables that different routes write;
`BalanceReachable` judges the rules of rectify together;
`StatusMatchesCounters` relates the status to counters other routes maintain;
`PagesMirrorRoutes`, `QueueLeadsOn` and `TotalsAddUp` relate two copies of the
same rule or figure. Each fails as soon as the fault beside it in
`PROJECT.json` is in the code.

Definitions that no run names either make a run's property up
(`NoOrphanBalance`, `NeverStuck`, `DistrictRowsCoverBank` and the like), or say
something the code does not have, listed under *Disagreements*, or hold on the
same instances and are kept for the reader: the modules' types,
`LinkUsedOnce`, `OneLinkAtATime` (two links), `RoleNeverDangles` and
`NoSecondHolderMovesIn` in `Access`, and `SequentialWhenAlone` (one worker),
which is proved.

### Bounds

| Bound | Value | Why it is enough |
|---|---|---|
| `Findings` | one (two in `Services`) | handlers touch one finding; only the sweep and a period's deletion see several, and treat each alike (the theorems hold for any number). A file's owner may be confused with another's: two |
| `Periods`, `Dates` | two or three | three make a chain with a middle; two make every return trip |
| `MaxRows` (workflow) | 0 to 6 ledger rows a finding | rectify, close part, transfer, rectify, close the rest is five; with six a transfer out, back and out again still has room for work in between. 0 where registration alone is asked about. A guard (`HasRoom`), not a truncation: `NeverStuck` excuses exactly it |
| `Totals` | at most 2 cases, 0 to 2 units of money | two cases make partial work possible in both dimensions, 0 is the finding that costs nothing, and (1, 2) has fewer cases than money |
| `EntryBound` | 2 (1 in the concurrent runs) | the largest number a user types: everything up to the total |
| `Breakdowns` | `<<0, 2>>`, `<<2, 2>>` | a case that costs nothing; a breakdown the registration must refuse |
| `Repeats` | 1 | each case picked once. See *Further disagreements* for 2 |
| `NewDates`, `DraftFlags`, `MovingWindows` | empty but in `Registration` | independent of rectification: they only matter for what a period accepts |
| `Workers`, `Requests` | two (three in `AuditedStore`) | pairs of requests; a finished one starts again, so any number follow each other |
| `Users`, `Roles`, `Devices`, `Links` | two, two, two, one | an administrator and somebody else, either of whom may become the other; two sessions are what single session is about |
| `PatchFields` | 1 | fields of a user or role changed in one request; the theorems about `Access` hold for any number |
| `MaxVersion`, `MaxPassword` | 3, 2 | a version given, taken back and given again; the password before and after |
| `LastPeriod`, `LastDay`, `MaxCases` | 3, 2, 2 | a chain of two hops, a yesterday and a today, a finding that splits |
| `MaxNumber` | 3 | a number retired, one issued after it, one to spare |
| `MaxRows` (services) | 2 | rows of one import file: some of them, all of them, none |
| `MaxAttempts`, `RateWindow`, `MaxFailures`, `Window` | 2, 2, 2 and 4, 2 and 4 | an account's limit below its address's, as in `rateLimit.ts`, both within reach of two overlapping logins |
| `MaxCount` | 6 | above every limit; a counter stops there because nothing asks for more |
| `Threshold`, `Cooldown` | 2, 1 | a window longer than the throttle, as the defaults are |
| `MaxMessages` | 3 | a question, an answer, and a message on its way over the rating |
| `Admins` | two | one whose list is old |
| `Words`, `MaxSent` | two, two | an old draft and what is typed now; two requests are enough to overtake one another |

Symmetry is used where only equality tells things apart: periods and workers
(their place in the calendar is data), devices and links, districts and rules.
Users are not symmetric: their grants differ. `Services` has liveness
properties and uses none.

The deadlock check is off in `Access`, `ParallelLogins`, `Administration` and
the `Services` configurations: there the bounds on versions, days, numbers and
messages end behaviours. The workflow, `ConcurrentRequests` and `AuditedStore`
never stop.

### Fairness

- `AuditedStore`: weak fairness of each request's own steps. The event loop
  runs every handler to its end, and the database answers each query and each
  commit, with success or a refusal. A crash is possible at any time and never
  owed. `EveryRequestEnds` rests on it.
- `LoginThrottle`: strong fairness of `Tick`, since time passes whatever goes
  on; strong because logins that are between two Redis calls take no time here
  and disable it for a moment. Weak fairness of `FollowUp(r)`: a login that has
  counted goes on to lock or answer. `LocksLift` rests on both.
- `Reminders`: weak fairness of `Pass` (time) and of `Poll(p)`: the bell of an
  open page polls by a timer. That somebody keeps a page open and somebody is
  there to be told is not assumed but a premise of `WaitingIsReminded`.

There is no fairness in the other specifications: people decide whether a
finding is ever rectified, and no liveness is claimed of it. What replaces it
is `NeverStuck`: some step is always possible.


## Disagreements between the code and what it says of itself

Four have a run that must find its property violated; `PROJECT.json` quotes the
lines.

1. **Two overlapping closes double the closed figure** (`CloseTwice`): the
   difference is computed on the first read and added to the second.
2. **Two overlapping logins leave one user two live sessions**
   (`ParallelLogins`): the version is computed on the first read, where a
   comment says it is computed inside `updateDb`.
3. **A retired reference number is reissued** (`ReissuedNumber`): a
   registration reads, an import takes its number and is reversed, the
   registration commits.
4. **Two overlapping reminder scans tell a branch twice** (`ReminderTwice`):
   the scan appends no audit entry, so nothing serialises it.

### Further disagreements

Found while modelling. A name in parentheses is a definition that states what
is missing; TLC finds it violated in the instance of its module, with the
constants changed as said.

*The workflow.*

- A locked period can still be closed in: close never calls
  `assertPeriodWritable` (`LockedClosuresFrozen`).
- A transfer, by hand or by the sweep, lifts a return for correction, which is
  documented to block transfers (`ReturnedAwaitsBranch`).
- After close, transfer, reopen, close, a period has closed more than its
  share: the transfer rows kept describe figures the reopening reset
  (`ClosedWithinEligible` with `GrantsAll`). A reopening also deletes rows
  stamped with locked periods (`LockedRectificationsFrozen` with `GrantsAll`).
- A breakdown that is a hundredth too high strands its last case: the bound
  that "can never fire" does (`NeverStuck` with `LooseBreakdowns` and
  `Tolerance = 1`).
- A period findings have left can be moved past the one they went to: only the
  current period of findings is checked (`TransfersForward` with `NewDates`).
- A `caseIds` list that names one case twice counts it twice and ticks it once
  (`ItemsMatchCounters` with `Repeats = 2`).
- `StatusMatchesCounters`, `TransfersForward`, `NoDanglingPeriod` and
  `CurrentStayIsHome` do not hold in `Concurrent.cfg`, nor does it keep the
  branch's findings from going back into review or a locked period's
  rectifications as they are: the checks behind them are made on the first
  read.
- A TRANSFERRED import row that costs nothing and has 0 rectified is refused,
  which a comment of `import.ts` calls valid. A commit validates again, but
  commits the batch even if rows have become duplicates since.
- A reversal deletes findings the branch has worked on since, whatever became
  of them and in locked periods too; the panel that announces its impact may be
  out of date.
- The highest number of a branch is reissued when its draft is deleted.

*Pages and dashboards.*

- The bulk bar offers what the routes refuse (`BulkOffersAccepted`): it lacks
  gates the comment above it claims to share. Under a period filter a list
  row's closed figure is the period's slice, so its bulk offers to close are
  wrong.
- A transferred finding is in no branch queue until something more is
  rectified. The close queue, and head office's card, keep findings that were
  returned for correction, though a comment promises otherwise.
- The status chart omits findings awaiting bank approval and lists statuses
  that no longer occur (`EveryStageShown`); the district's "approved" card omits
  returned ones and names a dead status.
- Category and source tables of one period use raw case counts beside a
  headline that is residency-aware; the age statistics count findings not yet
  approved; the outstanding amount per currency subtracts what was rectified,
  the period's what was closed.
- The edit form of a returned finding lists locked periods that accept drafts;
  the close dialog calls closing terminal, though reopening exists.

*Autosave.* Without `calm`, `CopyFollowsForm` does not hold, although the copy
is to be "cleared the moment a real Draft save/Submit succeeds"
(`NewFindingForm.tsx:366`):

- Whoever saves within 0.8 s of the last key stroke may meet the timer between
  the DELETE and the next page: what was registered is stored again, and offered
  for restoring the day after. No request has to be lost for it.
- So it is when the DELETE overtakes a PATCH, is lost, or is never sent because
  the tab was closed over the answer. A draft that arrives late replaces what
  was typed meanwhile, and is not saved back.

*Access.*

- Two users may come to hold a singleton role in one branch
  (`OneHolderPerBranch` with `AdminAndManager`): the rule is checked when they
  move, not when a role becomes singleton or an account is reactivated.
- Two overlapping edits may together remove the last who can give access back
  (`KeepersRemain` under `OverlappingSpec`). `SessionsUnderCurrentPassword`,
  `LiveRoleActive` and `RevokedStaysRevoked` do not hold there either: a login
  writes a version it read before the password or the role changed.
- After a stale session the proxy may send the browser in a circle, since it
  trusts the cookie alone.
- A counter stays for ever if the process stops between INCR and PEXPIRE,
  though each "is a real Redis key with its own TTL"
  (`CountersExpire` without `calm`).

*Organisation and scoring.*

- After a branch has moved to another district, a finding can be filed under
  the old one (`FiledUnderBranchDistrict`), and its users cannot edit a
  returned finding. A department's change of scope leaves its users unmatched;
  its units have no foreign keys.
- A live scoring rule version can be rewritten by an edit that was checked
  while it was a draft (`LiveVersionFrozen`).
- Performance thresholds are not checked against each other. A template naming
  a deleted source yields an empty sheet, and its settings no longer save.

*Reports.*

- The export of the monthly detail differs from its screen once a district is
  chosen (`ExportMatchesScreen`).
- After close, transfer, reopen, close, the first month has closed more than it
  answers for, its percentage passes 100, and the months no longer add up to
  the lifetime (`HistoryAddsUp` and `NoPercentageAbove100` without
  `NeverRewound`).
- A branch that had reported counts as uncovered again when its returned
  finding is edited into another period or source, or submitted again by head
  office (`CoverageStands` without its second half).
- What was resolved before a hop is wrong from the second hop on
  (`ResolvedWhereItSays`); the Monthly District Detail counts Internal Audit
  twice if the rule scores it (`DetailCountsOnce`).
- The snapshot differs from the official figure while no rule is active, and
  leaves out findings dated in the future.
- The Category Performance Summary shows all cases as "Unrectified"; the
  reports page counts rectified cases over all periods but closed ones in one.
- `docs/deactivation.md` has deactivated districts leave the templates; the
  code keeps those with findings.
- Week ends and "today" mix UTC and local dates.

*Files, reminders, support, administration.*

- An upload that overlaps the deletion of its finding leaves a file nobody
  names (`NoOrphans`); the cleanup script takes away the file of an upload or
  an import under way (`RowsHaveFiles`, `BatchesHaveFiles` without `calm`), and
  the history then offers a re-import its route refuses. Evidence of a finding
  closed in between may still be removed by its uploader. The development reset
  deletes files before it commits.
- A reminder that reaches nobody still counts as one; saving the settings
  rewinds the time of the last scan.
- "A 5-star rating closes the thread", but a message whose `updateDb` read the
  thread before the rating and commits after writes the whole row back and opens
  it again, its rating gone with it: neither appends an audit entry, so nothing
  refuses it (`Makes` in `ResolvedStands`, whose second half is this case).
- A follow-up nobody has answered can be rated, the page not having been
  refreshed; the answerer's list keeps a thread's old status; an owner who may
  answer is notified of the own messages.
- Whole-row forms undo what somebody else has changed meanwhile
  (`OnlyWhatWasTyped`). Cancelling a CSV import does not stop it
  (`CancelStops`), and a row whose answer was lost is reported failed though it
  was created. Editing a period re-links its submission date to its start
  whenever the two happen to be equal.


## Proofs

TLAPS checks every theorem to its last leaf, for all values of the constants
that satisfy the assumptions stated with them (`ConstantsAssumption`,
`InputsAssumption`, `RequestsAssumption`, `AccessAssumption`, `StaffAssumption`,
`NamesAssumption`, `LimitsAssumption`, `PeriodNames`, `ReportsAssumption`),
which every run evaluates. Some theorems of `FindingBooks_proofs` have a
hypothesis besides; each is named, defined where it is first needed and
satisfied by the run that checks the property, and each is necessary: without it
the code does something else, listed under *Further disagreements*.

| Hypothesis | Says | Without it |
|---|---|---|
| `ExactItems` | a request names a case once, a breakdown adds up to the hundredth | cases are counted twice and ticked once; a last case is stranded |
| `Workable` | somebody may rectify each finding, and the form can take its total | nobody is there to work the balance off |
| `NoReopening` | no user has `findings.reopen` | a period closes more than it was handed; a reopening deletes rows of locked periods |
| `FixedDates` | no period's dates are changed | a period findings have left is moved past the one they went to |
| `Staffed` | each duty has somebody, and bank-wide users do what bank-wide users are seeded for | a finding waits for nobody; a card leads to what its viewer cannot do |

`LimitsAssumption` has one value per key for the window of failures and the
length of the lock, as the two constants of `auth/login/route.ts` have.
`PeriodNames` keeps the filter's *all periods* apart from the ids of periods,
and `ReportsAssumption` says that tables are finite and that a scoring rule and
a template name sources there are. Finiteness is assumed because a sum over an
infinite table has no value; how many rows there are is left open.

### AuditedStore_proofs

The inductive invariant is `IInv`: types, *the log is a chain*, and *every copy
a request holds is a chain and part of the log*. The step that matters is the
commit. If the first sequence number a request wants is free, then no entry of
the log has a number above those it has read: an entry with a higher number
would, the log being gapless, bring one with exactly that number. So its copy
is the whole log (`FreeMeansWhole`), its new entries continue the log rather
than an older version of it, and the result is a chain again (`AppendChain`).

- `TypeCorrect`, `ChainStaysValid`: however many requests overlap, the log is
  one chain.
- `EntriesAllOrNothing`: a request's entries are in it all or not at all.
- `LogFirstIsALock`: if all writers append, then a request that read the log
  before its row overwrites nothing. The invariant `FreshRow` says why: as long
  as its copy of the log is the log, its copy of the row is the row; and once
  the log has moved on, the commit will be refused.

The last theorem is also a warning: `readDb` issues its queries in parallel and
promises no order.

### PeriodResidency_proofs

What the figures are made of, for any findings and periods; the modules below
cite it. `SumOf` adds up a sequence by a recursive function on its length, and
`SumFunction` folds a function over a finite set, in an order nobody knows.

- The library's induction theorems take an operator and cannot be instantiated
  by the provers at hand; `NatSetInduction` states induction about a *set* of
  naturals, proved from well-foundedness. That is enough to show that partial
  sums exist at every index (`PartialSumsSolve`) and that whatever solves their
  equations is the sum (`SolutionsAreSums`).
- A fold over a set is a sum in *some* order (`SumOnInOrder`), and the order
  makes no difference. Each fact about sums over sets is therefore one about
  sequences: zero outside a part (`SumOnPart`), term by term (`SumOnSame`), rows
  or columns first (`SumOnExchanged`).
- The stays of a finding: each follows from the one before (`StaysFollow`), a
  transfer leaves the earlier ones as they were (`StaysRemain`), and what all of
  them kept telescopes to what was registered (`KeptIsTotal`).

### FindingWorkflow_proofs

One inductive invariant, `FInv`, carries all four theorems. `FindingsOK` says
that every finding is a `GoodRow`: counters ordered, status in agreement with
them, at least one case registered. It is not inductive alone, because a
transferred finding forgets which of the branch's statuses it had:
`TRANSFERRED` fits any counters, yet after a rectification it may be returned,
and a returned finding must have something rectified on record. That it has is
a fact about ledgers: `CanReturn` demands a rectification row made after the
last transfer. So `LedgersMatch` is part of the invariant: a transferred
finding has a transfer row, a rectification row means rectified figures that
are not zero, and the rows add up to the counters.

- `WorkflowTypeCorrect`, `CountersStayOrdered`, `StatusFitsCounters`,
  `LedgersAddUp`: for any number of findings, periods and users, any inputs and
  any length of ledger.

There is one lemma per handler; the PATCH of a period, whose sweep moves any
number of findings at once, has the longest.

### FindingBooks_proofs

`ImportsFitIn`: the same invariant holds with imports and their reversals among
the steps, because what a row declares fits what it registers (`DeclaredFits`)
and a reversal leaves nothing of a finding (`ReversalIs`).
`ImportedStayWithBranch` keeps track of the imported ones: they exist and are at
the branch, because no route but the reversal takes a finding from there.
`WorkflowImplementsLifecycle` is the refinement; a reversal is the lifecycle's
`Withdraw`, which may take what `ImportedStayWithBranch` says was backfilled.
`record` is a function of each row by itself (`Shown`), so a step that changes
one row maps to one step of the lifecycle on one record; each handler has a
lemma naming that step, or showing that phase, debt and payment stay. The
invariant is needed twice: a row shown must be a record of the lifecycle
(`ShownRow`), and a finding is shown as settled exactly when its closed figures
cover it. A sweep of many findings is invisible. `BranchSideStaysFinal` follows
from the refinement: the lifecycle has no way back from owing to registering,
and none out of owing but `Withdraw`.

A section of its own is about what a step may do, rather than what a state may
be. `EveryStep` says that to a finding the branch has, a step adds to counters
and ledgers (`Grown`), or wipes them as `reopenFinding` does, or leaves them.
`OnlyReopeningUndoes` is that, with imports and reversals. `PeriodsAlwaysGuard`
is the same for the findings before the branch and needs no invariant on
findings: every route that touches such a finding asks its period first, and the
period's own PATCH touches none (`Held`, `Arrivals`, `Submissions`).

Then come the books: what the periods, the pages, the queues and the dashboards
make of a finding. Looking at every route once for each of these would be
tedious; instead every step is shown, once, to have for each finding one of a
few *shapes* (`Shaped`, `StepsAreShaped`): the row is entered, restated,
dropped, gets a rectification or a closure together with its ledger row, is
carried on with a transfer row, or is started over. Everything after that is
about shapes.

- `ResidencyAlwaysAddsUp`. The invariant `RInv` adds to `FInv` that the
  transfers of a finding are a connected path that ends in its period
  (`PathStep`) and that a row names no period that is gone (`NamesStep`, which
  needs that a period's deletion counts the rows of all three ledgers). The
  shares are then a telescope: what a transfer carries out of a stay is what the
  next one starts with (`KeptIsTotal`), and every stay is in one period
  (`SharesOfOne`).
- `BooksAlwaysAgree`. `ItemsFit`: the ticked cases of an itemised finding add
  up to its counter, in number and in money.
- `NoBalanceOrphaned`, `BalanceAlwaysReachable`. For a plain finding the rule
  about the last case and the last unit of money is inductive (`OrphanStep`);
  with it, the entry of *everything outstanding* passes every check of the
  route (`PlainSettles`), and so does the selection of all open cases
  (`ItemisedSettles`).
- `ClosedStaysWithinEligible`. `Credited` is exact: what a period has closed of
  a finding is what the stays that ended there kept, and, in the period the
  finding is in, what arrived with the last transfer less what is still open.
  A transfer ends a stay and starts one (`EndedMore`); a closure belongs to the
  last.
- `TransfersRunForward`, `LockedRectificationsStayFrozen`: from the shapes and
  from the guards on periods. An import and a reversal touch the rows of their
  own findings only, which is all the second theorem asks of them.
- `PagesAlwaysMirrorRoutes`: button by button, what the page computes is what
  the route asks, given the invariants - that a returned finding has something
  rectified, for instance, is what makes two different conditions agree.
- `QueuesAlwaysLeadOn`: status by status, whose turn it is.
- `TotalsAlwaysAddUp`, with no hypothesis: the dashboards of all periods against
  the lifetime view. A finding is dealt out over the periods it stayed in, so
  each sum of a period's figures is a sum over findings and periods taken column
  by column, and the lifetime figure is the same table taken row by row
  (`SumsSpread`). That the rows come out right is `EligibleSpreads`,
  `ClosedSpreads`, `ClosedFindingsSpread` and `TransfersSpread`: cases and money
  are what the shares of `RInv` add up to; a finding is closed in one period
  only; each hop left one period. For what was closed, `RInv` is not enough: a
  closure row might name a period the finding never stayed in, and no dashboard
  would count it there. `AllClosedOnStay` says that none does, and that nothing
  is closed before the branch has it. It is inductive because a stay is never
  lost - a transfer ends it, a reopening drops the closures and keeps the
  transfers - and a closure is made in the period the finding is in.

### ConcurrentRequests_proofs

Hardly any invariant of `FindingWorkflow` survives overlapping requests: a
counter may pass the one it should stay under. What does survive needs figures
that may be any integer (`LooseRow`), and an invariant `CInv` that says of each
request under way only that what it is about to write is shaped well
(`WellAsked`): the amounts are integers and an edit or transfer names a period.
Each commit has a lemma, and each commit adds to a counter what it adds to the
ledger - which is why the two agree whatever was decided on.

- `OverlappingLedgersAddUp`: rows add up to counters, at any overlap of any
  number of requests.
- `PeriodsOutlastFindings`: the foreign key refuses whichever of a move and a
  deletion comes second.
- `HistoryIsKept`, `ReopeningIsWhole`: every commit extends the ledgers of a
  finding or wipes them as a whole (`Traced`).
- `AloneIsTheWorkflow` is the other direction: with one worker the module
  implements `FindingWorkflow`, so everything proved there holds of routes that
  decide first and write later, and whatever goes wrong here takes a second
  request. `Meant` says that what a request asks for would pass its checks now
  and that the figures it took are the ones it would take; a request that begins
  is meant, with nobody else nothing changes that (`FindingChecksStand`,
  `PeriodChecksStand`), and a commit of what is meant is a step of the workflow
  (`CommitsAStep`, for any number of workers).

### Access_proofs

The inductive invariant `AccessInv` has four parts. `CookiesFit` is the one the
sessions rest on: a cookie's version is never above the account's, and while
the two agree the account still has the cookie's password and its role is
active. `VersionsDiffer`: no two cookies of one user carry one version.
Every step fits one description (`StepFits`): an account keeps or raises its
version, and raises it if its password or its role's status changes; a cookie
is kept, dropped, or sealed anew with a version its user never had. From there
`OneSessionPerUser`, `NoSessionOutlivesPassword`, `NobodyWorksInDeadRole` and
`SignedOutForGood` follow without looking at a route again.
`KeepersAlwaysRemain` is inductive by itself: the guard of `lockout.ts` is
evaluated on the tables as they will be. These hold for any `PatchFields`,
where the run tries one field at a time, and for requests that do not overlap:
`ParallelLogins` shows the second to fail when they do.

### Services_proofs

- `RowsKeepTheirFiles`. For evidence, `FilesConsistent` says what each request
  under way knows: an upload's file is in the folder, in no row yet, and in
  nobody else's hands; a removal's file is in no other row; an unlinking's in
  none; while the cleanup script runs nothing else does. For imports,
  `BatchesKnown` says of a batch who may still write it, and `OriginalsKept` says
  the same of originals as of evidence; the second is needed, and holds, in
  behaviours whose cleanups meet no import (`CalmStays`).
- `NumbersAreNotReissued`. `NumbersRetired`: every withdrawn number is reserved
  - listed in a kept record, or belonging to a reversed batch - and held by
  nobody; and the next number is above every number in use or reserved
  (`NextIsNew`), which is a fact about the maximum of a finite set.
- `LimitsAlwaysHold`. For logins, `CounterFits` says of each key: while it is
  not locked, what it counts beyond its limit belongs to logins that have yet to
  set the lock; once it is, only those that were admitted before can still
  count, and there are no more of them than logins; and a counter at its limit
  goes before its lock does, so that the two never let anybody in at a full
  counter. That is why lock and window have to be equally long. A counter
  without a time to live has a login that is about to give it one. For
  reminders, `QuietFollowsLast`: whoever may not be reminded of for `n` more
  ticks was reminded of at most `Threshold - n` ago.
- `WordIsKept`, the four parts of `FormsKeepTheirWord`.
  - Conversations (`ConversationsStand`): a status and a rating; a commit writes
    the status its own update read (`Threads`, `StatusStands`), so whatever
    changes a status is a rating or a message that read it differently.
  - Forms (`FormsAreHonest`): what is open over a list is nothing, the form with
    what the page sends, or the switches of one click (`FormsInv`); what a step
    writes into a row that is there is what was open on that page, and no step
    brings a row back.
  - The CSV dialog (`ResultsStayTrue`): the run under way has heard of no row
    beyond those it sent, and what it heard of each is so (`CsvInv`).
  - The autosaved copy (`CopiesFollow`): `Ends(under, copy, x)` says that the
    copy will be `x` when all requests under way have arrived, in order. `Fits`
    says of a form that is loaded that what is under way ends with what the form
    holds, unless the timer still runs; that a form without a copy to its name
    ends without one; that the one GET is the last request sent, so that its
    answer is still the copy when the form takes it; and that nothing that was
    registered is what it will end with. An empty queue is the property. Each
    step adds one request at the end (`SendingFits`), takes the first one off
    (`AnsweringFits`, `WritingFits`), or edits the form alone (`EditingFits`).

### Administration_proofs

- `DeactivatedReceivesNothing`, `StaffStayWhereTheyFit`, `NothingNamesDeleted`.
  `NothingDangles` is the invariant behind the others: no branch, user or
  finding names a unit that was deleted. It holds because each deletion counts
  what still refers to the unit and each placement looks the unit up. The steps
  are sorted by the table they write (`UnitStepFits` and its three siblings).
- `OneIsSingledOut`, `LiveVersionsAreKept`. A request may wait between its
  check and its write, and nothing is assumed of what it found then. One version
  is live all the same, because the write that makes one live turns the others
  off itself (`GoneLiveFacts`, `MadeDefaultFacts`); and only the one request that
  waited can touch what has gone live meanwhile (`WriteStands`).
- `ReportsAlwaysAddUp`. The invariant `ReportsInv` says of each finding that its
  transfers lead on in the calendar, one from where the other went, and end
  where the finding is (`LeadsOn`); that it closed only in months it was in
  (`ClosedWhereItStayed`); that, unless it was reopened after a transfer, what
  each month closed is what the stays that ended there kept and, in the month
  the finding is in, what arrived less what is still open (`ClosedWhereItWas`);
  that closures are not of the
  future and no more than what was registered; and that what is not approved has
  moved nowhere. The reports need the third part exactly where they drop a
  month with nothing eligible: a month that answers for nothing has closed
  nothing, so dropping it loses no closed case (`HistoriesAddUp`), and a month
  closes no more than it answers for (`PercentagesFit`). That is why both are
  claimed where no finding was rewound (`NeverRewound`), a premise of the
  property itself; the lifetime, the listed districts, the snapshot and the
  balance of a week do without. Calendar order makes
  the stays of a finding different months. The tables of districts, categories,
  sources and periods all add up by exchanging the order of summation over a
  finite set that each finding is in one part of.
- `WhatWasReportedStands` is about steps. A closure is stamped with today, so it
  changes no sum over the closures up to an earlier day (`ClosedThenStands`),
  only a reopening takes closures from an approved finding, and a finding that
  was once in a month has been there ever since (`StaysKnown`), though it has
  moved. A step writes one approved finding, or one that is not yet approved, or
  takes away those of an import (`OfficialWritten`, `UnofficialWritten`,
  `ImportedGone`); only the second can uncover a branch, and the third never
  covered one.

### Only model-checked

- Liveness: `EveryRequestEnds`, and `WaitingEnds` of the services (a lock lifts,
  a waiting finding is reminded of). The prover has no rules for fairness and
  ENABLED.
- Each listed disagreement's run, and the definitions no run names.


## What is not modelled

- Inside one commit: row locks, the order in which a transaction updates rows,
  and deadlocks PostgreSQL resolves by aborting one of them (`db.ts:1034`). A
  refused commit is a step of every concurrent module, whatever refused it.
- Postgres gives each of `readDb`'s queries its own snapshot. `AuditedStore`
  has that for two tables; the others read all tables in one step.
- Comments, notifications of single events and mail: appended or sent, and read
  by no rule. The notes beside an uncovered branch are free text.
- Descriptive fields and the transition trail of a finding.
- Parsing of sheets and the duplicate heuristics of imports; encryption, type
  and content checks of evidence; the backoff delay of logins, and a Redis that
  fails (which admits everybody).
- Creation forms and reordering on the administration pages, the suggestion of
  similar findings, layout, PDF and spreadsheet formatting. A second tab over
  the same autosaved copy.
- Clocks: days and periods are in order, time zones are not modelled. Money is
  a natural number in a unit below the tolerance of 0.01; the rounding of
  floating-point sums is not modelled.
- `proxy.ts`, the error mapping of `handler.ts`, the seed and the development
  reset: they keep no state of their own.


## What could follow

1. `LoginThrottle` composed with `OverlappingAccess`: a lockout that runs out
   while its login is between its two reads.
2. `ConcurrentRequests` with imports, reversals and two findings, for the sweep
   of one period under a deletion of another.
3. What `OverlappingAccess` guarantees: a login writes the version it read and
   one, over whatever the account has by then, so the theorems of
   `Access_proofs` would need a version computed at the write.
