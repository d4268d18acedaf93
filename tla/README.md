# Verification of SESCCO MS

TLA+ models of the parts of SESCCO MS whose correctness depends on the order in
which things happen: stock, Trash, employees and salaries, payroll and its
payment, rental months, supplier settlements, documents and their delivery,
imports, accounts, the sourcing directory and the pages of the payroll
workspace. The models are translated from the services under `src/apps` and
from `src/static/payroll/js/app.js`; TLC checks small instances of them, and
TLAPS proves central facts for every instance.

## The system

SESCCO MS is a Django 5.2 application on PostgreSQL that runs one company's
inventory, internal payroll, rental manpower and sourcing. Every state change
is a service function under `@transaction.atomic` that locks rows with
`select_for_update`, checks, writes and appends an audit event; there is no
`ATOMIC_REQUESTS`, and the isolation level is READ COMMITTED. A statement
therefore sees what was committed when it began, two reads of one transaction
may differ, and only locked rows hold still. There are no queues, workers or
background threads: concurrency is that of requests, and the only failures
inside the program are refused (rolled back) and dying transactions. What
remains hard is listed under *Hazards*.

| Component | State | Operations | Interacts with |
|---|---|---|---|
| Inventory ledger (`inventory/services/stock.py`, `transfers.py`) | stock rows with a cached balance, an append-only movement history, transfers with lines, idempotency keys | receive, open, use, adjust, reverse, transfer, reverse a transfer | locations of projects; stock lifecycle |
| Stock lifecycle (`inventory/services/lifecycle.py`) | status and Trash columns of a stock row | archive, restore, trash, restore from Trash | ledger, Trash |
| Projects (`projects/`) | status and Trash columns; a location created by a signal | create, edit, change status, delete, restore | ledger (empty before completion), Trash |
| Trash and cascades (`core/trash.py`, `trash_purge.py`) | Trash columns of every record, cascade links parent to child | delete with children, restore with children, restore one, dismiss, purge | stock, projects, branches, departments, employees, suppliers |
| Attendance (`internal_payroll/services/attendance.py`) | a month: status, entries, overtime, policy | edit, submit, approve, lock, reset, return | payroll run |
| Organization and employees (`organization.py`) | branches, departments, employees; effective-dated postings | create, edit, move, put on leave, terminate, archive, delete, restore | salary setup, Trash, attendance |
| Salary setup (`salary.py`) | components, overtime policies, effective-dated salary structures | create, edit, archive, delete; assign a salary from a day on | employees, payroll run |
| Payroll run (`payroll.py`) | the run of a month, its lines, source and snapshot fingerprints; adjustments; policy | calculate, submit, review, approve, return, reset; draft, submit, approve an adjustment; change policy | attendance, salary setup, payment |
| Salary payment (`payment.py`) | batches, rows, claims of lines, attempts, reconciliation files; status of the run | prepare, export, start, import results, retry, cancel, close, reopen | payroll run |
| Rental masters, assignments, timesheets (`rental_manpower/services/`) | suppliers, workers, effective-dated assignments, months of a project | assign, transfer, re-rate, release, cancel; save, submit, approve, lock, return | settlements |
| Supplier settlements and payments (`settlements.py`) | settlements with a snapshot, adjustments, payments with allocations | calculate, submit, approve, return, close; pay, settle, fail, cancel, reverse, retry | timesheets, invoices |
| Documents (`documents/`) | final documents with their numbers; packs, links, evidence of delivery | create one, create a batch; issue, send, revoke, reissue, confirm, open, acknowledge | payroll, settlements, numbering, mail |
| Numbering, audit, settings (`core/services/`) | counters, journal, one settings row | allocate, append, update | all |
| Data exchange (`data_exchange/`) | import jobs and their rows | preview, confirm, fail | inventory |
| Accounts (`accounts/`) | users, memberships, access profiles, sessions | create, suspend, change profile, reset, restore, revoke | all (permissions) |
| Sourcing (`sourcing/`) | vendors, manpower suppliers, subcontractors; contacts, offers, revisions, verifications, qualification files | edit, verify, archive, delete, restore, import, upload, review | file storage |
| Browser front end (`static/payroll/js/app.js`) | per surface: the page shown, the page awaited, calls under way, authority tickets | turn the page, read, save, supersede, forget | the APIs of payroll and rental |
| Explorer, selectors, pages, exports | none | read | all |

What makes each component correct:

* *Ledger*: a balance is never negative and is explained by its history; a
  form that is submitted twice, in parallel or again later, is carried out
  once; a transfer happens as a whole or not at all; a reversal undoes exactly
  one movement, once; every request ends.
* *Trash*: a parent takes its children with it and brings back exactly those;
  nothing deleted on its own is brought back or hidden by a parent; nothing
  expired comes back.
* *Payroll*: what is approved is what was reviewed and is still true of the
  inputs; three people are involved; inputs hold still while a run is under
  review.
* *Payment*: a salary is in at most one live claim and is sent again only when
  its last transfer came back; the cached amounts and statuses of batch and run
  follow the rows; a closed batch does not change.
* *Settlements*: a supplier is never paid more than the payable, the status
  follows the allocations, an approved settlement contains every approved
  adjustment.
* *Timesheets and assignments*: no two assignments of a worker overlap, a
  saved day agrees with the assignment in force, a month under review is
  complete and does not change.
* *Employees and salaries*: every day of an employee since the first has one
  place and one salary; a new salary changes no day before its own; what a
  policy is computed from exists and may be paid.
* *Documents and numbering*: one document per source, no number twice, no gap.
* *Delivery*: a pack is recorded as sent once, and mailed with a link that stands.
* *Imports*: a workbook is applied whole or not at all; opening stock is posted
  to a record that has no history, whatever the preview believed.
* *Accounts*: there is always an owner; whoever works has a profile in force; a
  session ends with the authority it was given.
* *Sourcing*: what is shown as confirmed, verified or reviewed is what was.
* *Front end*: a slow read never overwrites what a later change has shown.

## Modules

| Module | Models | Kind |
|---|---|---|
| `StockLedger` | `stock.py`, `transfers.py`, the lifecycle of rows and the project's completion as the ledger meets them | detailed |
| `StockAccount` | what a storekeeper may believe: forms carried out whole, once, and undone once | abstract |
| `StockPromise` | the mapping of the ledger to the account (`INSTANCE StockAccount`) | refinement |
| `TrashCascade` | `core/trash.py`, `core/trash_purge.py`, `projects/services.py`, the Trash page and the forms that write whole rows | detailed |
| `PayrollRun` | attendance, adjustments, policy and the run up to approval | detailed |
| `SalaryPayment` | batches, rows, claims and attempts; the run after approval | detailed |
| `SalaryPromise` | what an employee may believe: a salary is sent again only if it came back | abstract |
| `SalaryPayout` | the mapping of batches to that promise | refinement |
| `SupplierSettlement` | `settlements.py` of rental manpower: adjustments, the month, invoices and payments | detailed |
| `SupplierPromise` | what a settled month promises its suppliers: what is approved is owed once and not overpaid | abstract |
| `SupplierPayout` | the mapping of the settlements to that promise | refinement |
| `RentalMonth` | assignments, timesheets and masters of rental manpower | detailed |
| `EmployeeFile` | `organization.py` and `salary.py` of internal payroll | detailed |
| `PayrollMonth` | the days, overtime and lines of a month in `attendance.py` and `payroll.py`, over `EmployeeFile` | detailed |
| `AccessControl` | accounts: members, profiles, sessions, requests | detailed |
| `AccessUpgrade` | the data migrations of accounts, the catalog of the built-in profiles, `merge_access_report` | detailed |
| `StockImport` | `importing.py`: preview, confirmation, failure | detailed |
| `DocumentLibrary` | creation of documents over the counters of `numbering.py` | detailed |
| `DocumentDelivery` | packs, links, dispatch and evidence in `documents/api.py` and `delivery.py` | detailed |
| `PayrollDesk` | the requests of a payroll month and what its pages offer: `payroll_api.py`, `attendance_api.py`, their selectors | detailed, over `PayrollRun` |
| `SupplierDesk` | the requests of a month of settlements in `rental_manpower/api.py`, the invoice generator, what the selectors offer | detailed, over `SupplierSettlement` |
| `SourcingDirectory` | the services and imports of `sourcing/` | detailed |
| `SourcingDesk` | `sourcing/views.py`, the rows and exports of `exchange.py`, the buttons of the pages | detailed, over `SourcingDirectory` |
| `WorkspaceClient` | the page-shaped surfaces of `app.js` and the server's answers | detailed |
| `Absence` | the value of a row or column that is not there | shared |
| `BackOffice` | the eight modules of the back office side by side | composition |
| `StockLedgerProofs` | the ledger, and its refinement of `StockAccount` | proofs |
| `SalaryPaymentProofs` | the batches, and their refinement of `SalaryPromise` | proofs |
| `PayrollRunProofs` | `PayrollRun` under `PayrollDesk` | proofs |
| `RentalProofs` | `SupplierSettlement` under `SupplierDesk`, its refinement of `SupplierPromise`, and `RentalMonth` | proofs |
| `SourcingProofs` | `SourcingDirectory` under `SourcingDesk` | proofs |
| `TrashCascadeProofs` | `TrashCascade` | proofs |
| `BackOfficeProofs` | `AccessControl`, `WorkspaceClient`, `DocumentLibrary`, `DocumentDelivery`, `StockImport`, `EmployeeFile`, `PayrollMonth`, `AccessUpgrade`, and `BackOffice` | proofs |
| `SumTheorems` | sums over finite sets, for the balances and the amounts | proofs |
| `MC...` | instances for TLC | |

### StockLedger

`stock[i]` is the row of an item (a material in a condition at a location) with
its cached balance and its history `log`; `site[l]` is the status of a project,
`transfers[k]` the transfer of a form's key, `form[k]` the form that the
holder of key `k` submits. A request `c` runs in steps: `Submit` is the lookup
of the idempotency key *before* any lock, after which the row may change;
`PostSingle` and `ReverseMovement` lock one row, check and commit, and are one
step because they hold their lock from the first read they act on to the
commit. Transfers and their reversals lock several rows and write line by line:
`BeginTransfer`, `MoveLine`, `CommitTransfer` and `BeginUndo`, `UndoLine`,
`CommitUndo`, with the uncommitted rows in `held[c]`, which is also what the
request has locked. `Refuse`, `RefuseLine` and `RefuseUndoLine` are the
`ValidationError`s, `Abort` a transaction that dies anywhere. The unique
constraint on the key is `KeyUnused`. `ArchiveItem`, `TrashItem`, ... are the
lifecycle actions; `CheckCompletion` and `CompleteProject` are two steps,
because the view checks and writes without a transaction.

### TrashCascade

`rec[x]` holds the Trash columns of a record (`deleted_at`, the end of its
window, the record whose delete it belongs to, whether it was purged), `links`
the cascade rows, `horizon` what has expired. Parents and children are generic
and `Owns` says who takes whom; `PageChild` are the children that the Trash
page and not a service restores (stock rows and locations), `Project` the
parents that forms write as a whole. The services lock and are one step.
The Trash page (`OpenPage`, `SavePage`, `RefusePage`, `ReleasePage`,
`CrashPage`) and the project forms (`OpenSave`, `WriteSave`) read without a
lock and write later; these are separate steps. `TrashInv` joins the types with
three statements: cascades stay whole, links are current, and nothing is hidden
by a parent that did not take it. They speak of the records that only the
locking services write; `RestoresRight` (a restore revives what it should, and
nothing that expired) of all. What the project forms do to a cascade is the run
`trash_stranded`. Ending the recoverability of an entry by hand is not an
action: `TrashDismissView` raises a `NameError` (`trash_purge.py:28`) before it
changes anything.

### PayrollRun

One month: `attendance` (status and a value for its contents), `terms` and
`policy` (values), `adj` and `run`. A fingerprint is modelled by the record of
what it hashes, so two fingerprints are equal exactly when their inputs are.
Services that lock what they read are one step. Two are not: an adjustment
locks the run only if there is one (`CheckMutable`, `ApproveAdjustment` or
`DropApproval`), and a policy update takes its lock after its check
(`CheckPolicy`, `WritePolicy`). Both may be in the middle when the run is
approved, so an approval has two steps as well: `VerifyApproval` compares the
fingerprint with rows it locks, and `Approve` commits. In between `RowsFree` is
false, for which those two and the other transitions of the run wait: an adjustment for
the row of its employee, a policy update for that of the policy. The row exists
only once a policy was set; before that (`NotConfigured`) there is nothing to
wait for. `unlocked` are the adjustments whose approval looked for a run and found
none to lock; those that a run stopped looking at before they were approved
stay in it.

The code hashes `run.revision` into the snapshot and then increments it
(`payroll.py:962` and `1378`), so every later verification fails. `SealsRevision`
says whether the snapshot covers the revision. It is TRUE in the runs that show
what that leads to (`payroll_review`) or that do not depend on it. As nothing
after submission is reachable with it, the runs that ask about review, approval
and payment set it to FALSE, which is the workflow that the tests and
documents of the repository describe; their results are about the code without that one field.

### SalaryPayment

`row[b][l]` is the row of line `l` in batch `b` with its claim and the list of
its attempts; `batch[b]` has the status, the cached amounts and the result
files it has seen; `run` is the status of the payroll run. Every service locks
run and batch first and is one step. A result file gives each line a result
or nothing; the same file may come again (`files` is what its hash remembers).
Zero salaries have no row (`Payable`).

### SupplierSettlement

One month of a project whose timesheet is locked, which is final. `settlement[s]`
is the row of a supplier: its status, the adjustments that its source
fingerprint covers (`source`) and those that its lines contain (`lines`), so a
fingerprint is again what it hashes. `adj[a]` is the status of an adjustment,
`invoice[s]` the total of the supplier's invoice, `payment` the payments in the
order of their numbers. Transitions of the month lock the project and its
settlements, payments lock their settlement before they add up its
allocations; each is one step. A calculation reads the adjustments twice
(`ReadSource`, `Calculate`), and the approval of an adjustment looks for an
approved settlement to lock, finds none and therefore locks nothing
(`CheckAdjustment`, `ApproveAdjustment`). A check that is never committed is the
approval not happening, so there is no action for it.

`SupplierPayout` maps the month to `SupplierPromise`: what everybody has earned is
the net of the statements once they are approved, what is owed the total of the
invoice, and the money sent or received the sums of the payments that are
processing or paid. Adjustments, calculations, statuses, closing and reopening
are invisible there, a failed payment is money that came back, and its retry is
money sent again.

### RentalMonth

`segs[w]` are the assignments of a worker in the order they were made, `rows`
the saved rows of the timesheets, each with the segment whose terms it copied,
`sheet` the status of a project's month, `master` the status, archive and Trash
columns of workers and suppliers, `ended` the completed projects. Days are
numbers, so effective dates, backdated terminations and changes scheduled for
the future are all there. Every transaction is one step. This is an abstraction
that the locks justify within a family only: assignment services and masters
lock the worker, timesheet services lock the period, and nothing is locked by
both. A timesheet transaction that overlaps a change of assignments can
therefore break `RowsInForce` and `ReviewedComplete`; run and proof show that nothing
else can.

### EmployeeFile

`employee[e]` is the master record, `posting[e]` and `structure[e]` the sets of
effective-dated assignments and salaries, `office` the branches and
departments, `component` and `policy` the salary setup. A salary is inserted
anywhere in the history: it ends the one before and ends itself the day before
the next. Everything is one locked step except the deletion of an office, whose
employees are found (`Sought`, kept in `clearing`) before they are locked and
written (`Cleared`).

### PayrollMonth

`PayrollRun` takes the inputs of a run as values; here they are what the
employee file says. `entry[e]` are the marks of the days of the month,
`extra[e]` the salary that the overtime of an employee was computed from,
`granted[e]` the approved advances and recoveries, `proration` the policy, and
`run` the run with its lines and with what its source fingerprint hashes
(`PrintOf`, which names a posting by its number and not by its branch). A line
says which salary pays which days (`Shares`), so that proration by calendar
days, a change of salary inside the month and a month of partial employment are
all there without amounts. All actions of `EmployeeFile` go on meanwhile.

### AccessControl

`member`, `profile` and `session` are rows; `request[m]` is what the middleware
loaded when the request of `m` began, so a service may be run by an actor who
has since been demoted (`BeginRequest`, the services, `EndRequest`). The
services of `user_management.py` lock the company's members and are one step;
the bulk actions of the admin site are not (`BulkCheck`, `BulkDeactivate`), and
`bulk` remembers whom they wrote, since nothing is promised after that.
`accounts/services.py` is called by tests only.

### AccessUpgrade

What a built-in profile grants is written twice: `permissions_for_legacy_role`
states it (`Template`), and the migrations 0004 to 0014 arrive at it, giving and
taking grants of profiles that exist. Each migration is an action and may be
the last for a while; two are on branches and run in either order. A permission
stands for those that all these sets treat alike, which leaves 26 of them. The old
system has any accounts, its company may exist and be closed. `UpgradeTrue`
compares the result with the catalog in the way the command
`merge_access_report` does.

### StockImport

`rows[j]` is the preview of job `j`: per row what it plans (create, update,
open, skip), whether it asks about look-alikes, and what became of it. Others
create, move, archive, trash and delete records between preview and confirmation.
`ConfirmImport` locks the job and applies all rows or none; `FailConfirm` rolls
back, and `RecordFailure` is the update that the handler makes after the
rollback, under no lock.

### DocumentLibrary

A call reads its candidates (`BeginCreation`), loads each source, draws the
number of the series, which it then holds to the end of its transaction
(`LoadSource`), inserts (`InsertDocument`), and commits or fails as a whole. Sources finish and, for
payments, are reversed meanwhile. The unique constraints are `Clashes`. A batch
of any kind is one transaction over its documents in the order the client gave,
and one of the generator draws a number for its report at the end.

### DocumentDelivery

The journal is the state: `pack[p]` counts the events of a pack and carries the
generation of its link and the revoked ones. A dispatch checks before the lock
(`CheckPack`), locks and checks again (`LockPack`), sends the mail while
holding the lock (`SendMail`) and records it (`RecordMailed`), or loses its
transaction after the mail was accepted (`LoseMailed`). It reads the link at both
checks (`link`), and the mail carries what it has read (`mailed`). The supplier's side
(`ResolveShare`, `RecordShareOpened`, `AcknowledgeShare`) is judged before it locks.

### SourcingDirectory

Three kinds of provider with nearly the same services: what they share is one
operator (`Archived`, `Trashed`, `Edit`, ...), each service is an action.
Contents are versions, so "verified" can be compared with what was there when
it was verified: `shown` is the newest revision of an offer, `confirmed` the
newest confirmation of a provider. A form may have read a master as active
before it was switched off (`picked`), and a file is stored before its row
commits and removed after (`stored`, `uploading`, `removing`), with crashes in
between (`CrashFiling`).

### The desks: PayrollDesk, SupplierDesk and SourcingDesk

Between a user and a service there are two more layers with rules of their own:
the view, which checks a permission and sometimes looks at the record before the
service locks it, and the page, whose selector or template decides which actions
to offer. An action of a desk is a request, named after its view, by somebody
with certain permissions (`May`, `Rights`); it takes the step of the service.
`Shown`, `allowed_actions`, `SheetActions` and `Buttons` are what the pages
offer. That the two layers agree is `OffersWork` and `ButtonsWork`: what is offered
would be accepted (`ENABLED` of the request), except for the reasons named in
`OwnStep` and `Objection`. `WayForward` says that a payroll month that is not
approved never runs out of offers; together they are `PagesOffer`. In the directory `opened` is a request that
the view of an edit or a contact has let through: the service does not look
again whether the entry was archived since. `SupplierDesk` has both layers of
permissions, that of the view and the coarse capability that the service asks
for (`CanApprove`, `CanPay`), which the selectors ask for too; `ListsAgree` compares
the page's list of payable settlements with the lookup of the payment drawer, and
`WayForward` says that a month not yet paid never comes to a stop. A row of a workbook is a step of its
own, and `ExportsComeBack` says that what an export contains can be imported.
`DirectoryOffers` is it with `ButtonsWork`, and `DesksOffer` of `MCDesks` what the
pages of both of its desks promise.

### WorkspaceClient

One surface: `page` the reader is on, `pending` the page awaited, `key` and
`drawn` what the surface believes it shows and what its rows belong to, `value`
how many changes those rows contain; `reads` and `saves` are calls under way,
served and answered at any time, in any order, or failed. Tickets are `Stale`
and `Superseded`. The three kinds of surface differ in what supersedes what, as the
code does.

### MCBackOffice

`EmployeeFile`, `PayrollMonth`, the two modules of access, `StockImport`, the two
of documents and `WorkspaceClient` share no variable, except that
`PayrollMonth` moves together with the file it extends. `BackOffice` composes them:
its specification is the conjunction of theirs, in which parts move alone or
together. `MCBackOffice` checks them in one run, one part at a time: `part` says which of them (of the employee file which
half) takes the steps of a behaviour.
Since no step of one can touch the state of another, every property of one of
them holds in all interleavings if it holds in these behaviours. The operators
`Small...` are bounds of the search, conjoined to the steps. `MCDesks` does the same with the desks of the
payroll month and of the directory.

## Runs

| Run | Question | Bound | Result |
|---|---|---|---|
| `stock_rows` | balance and history of one row under double submission and retirement | 2 requests, 4 forms of 9 kinds on one item, project status and Trash | holds |
| `stock_transfers` | multi-line transfers and reversals happen as a whole, history is only appended to | 2 requests, 4 forms, two locations and conditions | holds |
| `stock_promise` | the ledger implements `StockAccount`; every request ends | 2 requests, 3 forms, strong fairness | holds |
| `stock_completed` | completed projects are empty | 2 requests, 2 forms | **violated** |
| `trash` | cascades stay whole, nothing comes back that should not | a branch and a department sharing an employee, a project with a stock row, 2 open pages, 4 deletes | holds |
| `trash_stranded` | project cascades stay whole with unlocked forms | a project with two stock rows, 2 open pages, 4 deletes | **violated** |
| `desks` | only true inputs are approved, by three people; the directory shows what was confirmed; pages offer what services accept | officer, reviewer and owner, 2 values of each input, 8 revisions; one provider of each kind with two contacts, a master, an offer and a file, in two versions, two access profiles | holds |
| `payroll_review` | a run in review can be approved | as the code is | **violated** |
| `salary_batches` | claims, attempts, caches and run agree; the batches implement `SalaryPromise`; closed means closed | 3 lines, 2 batches, 3 attempts, 3 files | holds |
| `supplier_month` | what is approved is true, nobody is overpaid, statuses follow payments, the month implements `SupplierPromise`, pages offer what services accept | 2 suppliers, 2 interchangeable adjustments of one amount, 3 payments, a reviewer, a manager and an assistant | holds |
| `rental_month` | histories are one line, rows are of segments in force, reviewed months are complete and stay | a worker of a supplier, 2 projects, a month of 2 days, 3 segments, 2 changes of overtime, masters and projects | holds |
| `back_office` | the evidence of access and its upgrade, imports, documents, deliveries, pages, employee file and payroll month | below | holds |

`back_office`: three members, the owner's profile and another, four changes; two
workbooks (one that names an identity twice, one that updates and creates) and
two edits meanwhile; two callers and four documents of two series, one of them a
reference that must be unique; three packs, a mailed one and a batch of two by
hand, two generations of a link, one transaction lost after a mail; two pages, two mutations under way and two committed; one employee, two
branches and a department over three days, or one employee, two components and
a policy; a month of two days for an employee who is posted and paid at first,
in which at most two things differ from that at a time; an old system of two accounts. The `Small...` operators of `MCBackOffice` and `MCDesks` say which combinations
are not searched (for instance a provider with contacts *and* files).

Why the bounds are enough. The ledger's conflicts are between two requests over
one row or one pair of locations: a third request adds no lock order that two do
not have, as every transfer takes its locations in one order and then its rows
in one order. Quantities 1 and 2 give all comparisons (too much, all, part).
Two parents of one child and a parent of another give a shared and an exclusive
child, one restored by a service and one by the page; four deletes allow
delete, restore, delete again and an independent delete in between. Eight
revisions allow calculate, submit, return, edit, recalculate, submit, review and
approve. Two batches, two payable lines of different amounts and three attempts
allow a claim to move, a partial batch, a failed retry and a retry that
succeeds. One supplier of a month always has something to be paid, the other
may end at one, at nothing or below it, according to which deductions are
approved; three payments of one or two allow a part, a failure, a retry and a
payment beside it. Three segments allow an assignment, a scheduled revision,
its cancellation and a termination before either; a month of two days has a row
before and one after a change. The pairs of the back office are pairs that
race: two members who act on each other, two confirmations of one job, two
creations of one document, a dispatch and a revocation, a read and a mutation.
Deadlock is checked except where the system may rest:
`MCSalaryPayment` and `MCSupplierSettlement`, where everything is closed and the
bounds are used up, `MCTrash*`, where everything has been purged, and
`MCRentalMonth`, `MCBackOffice` and `MCDesks`, where the bounds on changes are used up.

The violated runs state what a message, comment, document or test of the
repository says, each quoted in the findings of `PROJECT.json` with its line:

* `stock_completed`: a receipt between check and write leaves stock in a
  completed project.
* `trash_stranded`: an old project form revives the project but not its stock.
* `payroll_review`: the revision in the snapshot makes every review fail.

Other observations, made while modelling and not kept as runs:

Stock, Trash, payroll and settlements:

* `restore_stock_item` (`lifecycle.py:132`) locks with
  `select_for_update().select_related("location", "project", "unit")` and names no
  table, although `StockItem.project` is nullable; PostgreSQL refuses `FOR UPDATE`
  on the nullable side of an outer join. `RestoreItem` is what the function is
  written to do.
* Reversing a transfer posts to rows that were archived or trashed in the
  meantime (`reverse_transfer` does not look); `RetiredRowsQuiet` holds of the
  services of one record and is checked in `stock_rows`, where there are no
  transfers.
* The second of two parallel submissions of one stock form is refused rather
  than answered with the movement of the first. It is never carried out twice.
* Two restores on the Trash page around a delete, one dying half way, leave a
  link that hides a later delete.
* An adjustment or a policy change whose check came before a submission may
  commit after it. Before the run is approved, the source then no longer fits and it cannot
  be. After it, the adjustment is approved and in no payroll: `ApprovesWhatIs`
  says that only such an adjustment (one of `unlocked`) is missing from an
  approved run, and that whatever the run pays stands.
* A salary structure given to a new employee, or a policy set for the first time,
  is not stopped by an approval that has verified its inputs and not committed yet.
* Recoveries are compared with the balance of the advance as of their own date
  (`payroll.py:290`), so two of them approved out of order may recover more than
  was advanced.
* The page of a run offers *Recalculate* only while nothing has changed
  (`source_clear`); when something has, the run must be reset first. It offers
  review and approval to who submitted, and the attendance page offers the return
  of a month that a calculated run holds (`OwnStep`, `OffersWork`). A review or
  approval names no revision: it is of the run as it is, not as the page showed it.
* A rental adjustment whose check came before the approval of its settlement
  may commit after it. It is then approved, in no settlement, and no later
  month takes it up.
* A payment that is reversed after its month was closed takes one settlement out
  of Closed; paid again it is Paid while the others are Closed, and closing
  demands that all are Paid (`settlements.py:1043`).
* A settlement of net zero is Paid on approval; the service (though not the
  list that the page offers) still accepts an invoice for it whose VAT is
  positive. `StatusAgrees` is therefore about settlements with something to pay.
* Settlements are guarded twice: the view asks for one permission, the service for
  a coarse capability that permissions of the internal workspace also give. The
  page asks the coarse question, and sends *Return* for a month, which the view
  takes for a preparation: the built-in Finance Reviewer is offered it and
  refused. An adjustment is *rejected* by who may approve it and *returned* by who
  may manage it, with one result (`rental_adjustment_workflow_api`).
* The page of a month does not see that an adjustment was approved after the
  calculation, nor that a retry is for more than is left (`OffersWork`).
  Deductions approved beyond what a supplier earned stop the month until another
  adjustment is written (`WayForward`).
* Attendance entries on days outside an employment that was shortened later
  cannot be cleared, since saving refuses such days, and payroll counts them.
  The count of missing days that the page shows counts them too
  (`attendance_period_summary`), so it may say 0 while submission is refused.
* The source fingerprint covers a posting by its number. A correction on the day
  of the posting changes its branch under a calculated run, whose lines keep
  the old one (`LinesAsPosted`).
* Overtime and recoveries are accepted of employees who get no line: those who
  left before the month, were archived, or whose office was. They count as
  recovered and are never paid or deducted (`OvertimePaid`,
  `RecoveriesDeducted`).
* An adjustment that is a draft or under review when the run of its month is
  approved can never move again.
  Overtime that a salary change made stale blocks the submission, and of an
  archived employee it cannot be saved again.

Rental months:

* A termination as of an earlier day cancels an assignment that has begun as if
  it were scheduled and leaves its rows under review on it (`masters.py:415`
  against 390). Cancelling a scheduled transfer reopens the assignment at a
  project that was completed meanwhile (`assignments.py:551`).
* The segment that is retained for a terminated worker stays open, and the
  later months of that project can never be submitted.
* Rows left on a cancelled segment cannot be cleared. Overtime is not looked at
  before an assignment changes. A worker restored from Trash after the supplier
  was terminated is active.
* Assignment and timesheet services take their locks in different orders; the
  policy of timesheets is changed outside a transaction.

Employees and salaries:

* The form (`update_employee`) makes a terminated employee active again, or
  terminates one and leaves the posting open; a second termination moves the
  end of the employment but not of the posting. The docstring of
  `change_employee_lifecycle` excludes both.
* Joining and end dates may be moved past existing salaries. From then on a new
  salary is refused, because the previous one no longer validates.
* An office found inactive, archived or empty may have an active employee in it
  through the form, or through the unlocked check of the lifecycle.
* Deleting a branch takes an employee along who moved to another branch between
  the search and the lock (`organization.py:375`). Moving an employee locks the
  employee before the branch, deleting a branch the other way round.

Accounts:

* Two bulk deactivations, or one beside a demotion, can leave no owner, and a
  bulk activation ignores a retired profile.
* A password change writes the row that its request loaded (`views.py:44`), with
  the version number it computed from it, so a session that was revoked in
  between survives.
* An actor who was demoted completes the request under way; one who was given a
  profile may still edit it in the same request.

Imports and documents:

* The failure of a confirmation is recorded after its rollback and under no
  lock, and may overwrite the COMPLETED of another (`importing.py:795`).
* A record in Trash blocks the identity although the preview plans to create it,
  and the whole job fails. The plain import updates archived and trashed records
  without asking; look-alikes that appear after the preview are not asked about.
* `created_count` of a batch includes documents that another call made. Two
  batches in different orders wait for each other's series. The payment behind
  a document may be reversed between the read and the insert.
* The response to a dispatch, and the handoff to WhatsApp, carry the link as it
  was read before the lock (`api.py:1857`); only the mail carries the one read under it.
* A rollback after the mail was accepted leaves no event, and a retry mails
  again. A confirmation by hand does not look at revocation or expiry; an
  opening of a link may be recorded after it was revoked.
* The attachment of an invoice is deleted when anything fails after the commit
  and is orphaned by a crash.

Sourcing:

* Deactivating or deleting the primary contact of a vendor or a manpower
  supplier leaves its name in the summary. Their offers stay verified when a
  form or an import changes the rate without verifying it; those of
  subcontractors do not.
* A reviewer approves a document that was edited after the page was loaded. An
  import updates the first of several specifications of a material and dies on a
  vendor in Trash; its audit entry is outside the transaction.
* What an export contains comes back changed: a value that begins with `+` gets a
  quote before it (`exchange.py:690`), which the import keeps, so an unchanged
  phone number takes a subcontractor's verification back. A row for a vendor or
  supplier in Trash is not refused but fails (`update_vendor` raises
  `DoesNotExist`, which the import does not catch).
* Pages offer what services refuse: verifying an inactive workforce offer,
  activating or verifying the service of an inactive master, deleting a
  subcontractor with offers or documents, restoring one after the retention
  (`Objection` of `SourcingDesk`).
* Deleting a material and saving an offer lock each other's rows; a crash
  orphans an uploaded file; the restore of a vendor ignores the retention.

Front end:

* `app.js:131` says that a newer payload supersedes older reads "so a slow GET
  cannot overwrite a mutation that already completed". The page of a payroll
  run and the details of settlements take no ticket.
* A superseded read of a sheet is dropped without clearing what is awaited, so
  the sheet is not read again until the page or a filter changes.
* The rows that answer a calculation are filed under the page current when they
  arrive, not the one they were asked for; forgetting a payroll context does not
  forget its key, and the page then shows an empty draft.
* A reload that a mutation forces is swallowed by a load under way. While a
  read fails, attendance and the run page reload without pause.

### Claims that fail and are not among the runs

These statements stay in their modules, each with the sentence of the code it
comes from where there is one. To see one fail, put it in place of the INVARIANTS or PROPERTIES
of the configuration.

| Statement | Module | Configuration |
|---|---|---|
| `RecoveredWithinAdvanced` | `PayrollRun` | `MCPayrollReview.cfg`, with `Adj = {advance, early, late}`, `Kind <- RecoveryKind`, `Date <- RecoveryDate` |
| `PaidMonthCloses` | `SupplierSettlement` | `MCSupplierSettlement.cfg` |
| `EvidenceRetained`, `CompletedUnstaffed` | `RentalMonth` | `MCRentalMonth.cfg` |
| `TerminatedStay`, `EndTogether`, `SalariesWithin`, `StaffedOffices`, `DeletedWhereTheyWork` | `EmployeeFile` | `MCBackOffice.cfg` |
| `LinesAsPosted` | `PayrollMonth` | `MCBackOffice.cfg` |
| `RecoveriesDeducted`, `OvertimePaid` | `PayrollMonth` | `MCBackOffice.cfg` with two employees, from `part = "month"` |
| `RevokedStay` | `AccessControl` | `MCBackOffice.cfg` |
| `FailedImportedNothing` | `StockImport` | `MCBackOffice.cfg` |
| `NeverMailedTwice` | `DocumentDelivery` | `MCBackOffice.cfg` |
| `SheetsArrive`, `RunReadsLose`, `RowsAsKeyed` | `WorkspaceClient` | `MCBackOffice.cfg` |

## Fairness

Safety needs none. `stock_promise` assumes strong fairness of every request's
next step (`FairSpec`; the run starts it from a form that receives stock): once started, a request runs in a worker of the web
server and takes its next step unless it waits for a lock, and PostgreSQL hands
a released row to a waiting transaction, so a request that finds its locks free
again and again gets them. Lifecycle actions and new submissions are not fair.
No other liveness is claimed: everything else waits for a person, and
`purge_trash` is scheduled nowhere in the repository.

## Proofs

TLC finds out whether a formula holds of a small instance; the theorems hold
for every value of the constants that satisfies the named `ASSUME`s. Each result
follows the same argument: what a run checks is seldom inductive, so a
strengthening (`IInv` and the like) is shown to hold initially and to be kept by
every action, one lemma per action, and what is checked follows from it. An
action property is shown of a step from a state in which the invariant holds, and a
refinement by mapping each step to a step of the abstract specification or to a
stutter.

| Theorem | Property | The invariant adds |
|---|---|---|
| `LedgerAlwaysReconciles` | `LedgerInv` | uncommitted rows reconcile too |
| `HistoryAlwaysExact`, `TransfersAlwaysWhole` | `HistoryExact`, `TransfersWhole` | what a request holds extends what is committed, by its own key only; locks exclude |
| `HistoryOnlyGrows`, `OnlyReversalsDisturb`, `RetiredRowsStayQuiet` | `HistoryAppendOnly`, `RetiredRowsQuiet` | a transfer holds no retired row |
| `PromiseAlwaysKept` | `KeepsPromise` | what a transfer has moved so far is a partial sum of its lines |
| `SalaryAlwaysSound`, `OutcomesAlwaysStand`, `AlwaysPaysAsPromised` | `SalaryInv`, `OutcomesStand`, `PaysAsPromised` | a row is of its batch's age |
| `RunAlwaysSound`, `AlwaysThreePeople`, `ApprovalsStand` | `DeskInv`, `ThreePeople`, `ApprovesWhatIs` | a run in review was submitted by somebody; who approves it is none of those who signed, and it is still in review |
| `MonthAlwaysSound`, `NobodyOverpaid`, `ApprovalsCurrent`, `ClosedStaysPaid` | `SupplierDeskInv`, `NeverOverpaid`, `ApprovedTrue`, `ClosedUntilReversed` | how a statement came to be; statuses that tell the payments |
| `AlwaysSettlesAsPromised` | `SettlesAsPromised` | (the same) |
| `HistoriesAlwaysOneLine`, `ReviewedMonthsStand` | `RentalInv`, `ReviewedRowsKept` | segments in force are apart; a revision in force continues one |
| `DeletionAlwaysWhole`, `RestoresAlwaysRight` | `TrashInv`, `RestoresRight` | a child that may come back has its link; no two deletes share a date |
| `OwnerAlwaysRemains`, `ProfilesAlwaysInForce`, `SessionsAlwaysCurrent`, `OwnersOnlyByOwners` | `OwnerRemains`, `ProfilesInForce`, `SessionsCurrent`, `OwnersByOwners` | open requests have read no closed account |
| `AwaitedAlwaysComing`, `SlowReadsAlwaysLose` | `AwaitedIsComing`, `SlowReadsLose` | one read at a time, nothing ahead of the database |
| `NumbersAlwaysWhole` | `NumbersWhole` | what a call has inserted continues its series, whose row it holds |
| `EvidenceAlwaysTrue`, `MailedLinksStand` | `EvidenceTrue`, `MailedLinkStands` | who mails a pack holds its row and has read its link under that lock, and mails are those recorded, lost or about to be either |
| `ImportsWhole` | `BooksTrue` | a record occurs once among the rows that apply; what is opened has moved |
| `FilesAlwaysSound`, `PastPayKept` | `FilesSound`, `PastSalaryKept` | each history is in order and has no gap |
| `RunsTellTheMonth` | `RunTellsTheMonth` | lines and fingerprint are of one calculation, attendance under it is closed |
| `UpgradeEndsRight` | `UpgradeTrue` | what each profile grants after the migrations that have run |
| `BackOfficeAlwaysTyped` | `BackOfficeTypeOK` | the invariants of the parts |
| `DirectoryAlwaysSound` | `DirectoryTrue` | an offer has a provider; a file that is uploaded or removed is of no row |

**The ledger** (`StockLedgerProofs`). `LedgerInv` speaks of committed rows
only and is not inductive: a commit publishes what a transfer has written line
by line. `IInv` adds that the uncommitted rows reconcile (`HeldReconciles`),
what a request may rely on in the middle of a transfer (`Started`) and that a
recorded transfer was asked for as one (`TransfersAsked`). For this the mutual
exclusion of locks is not needed, since a request publishes only rows it has
checked itself.

For the histories it is. `HInv` adds `LocksExclusive`; that the keys of a row fit
their form, line and leg, occur once, and that what is undone is undone once
(`HistorySound`); that a held row extends the committed one, and only by
keys of the request's own form (`ClientSound`, `LinesSound`, `UndoSound`); and
that a recorded transfer has all its legs (`Whole`). Two requests with one key
cannot both publish: the second finds the key when it has the lock.
`QInv` adds that a transfer in the middle of its lines holds no row that is
archived or in Trash. `OnlyReversalsDisturb` says for all forms that only the
commit of `reverse_transfer` writes to such a row; `RetiredRowsStayQuiet` states the
property the run checks, and like that run it is about forms without such a
reversal, its one hypothesis.

**The promise** (`StockLedgerProofs`). `PInv` says that in the view of a
transfer each balance is the committed one plus the sum of the lines done so far
(`LinesBalance`), and likewise for its reversal (`UndoBalance`). A commit then
changes all balances by the whole form, which is a step of `StockAccount`, and
every other step is a stutter. The sums are folds over finite sets. `SumTheorems`
shows what they return for every finite set: each fact holds of the
smallest subset that would be a counterexample, as the library's induction
theorems, which take an operator, cannot be instantiated here.

**Salaries** (`SalaryPaymentProofs`). `RowsOfAge` ties each row to the status of
its batch (waiting, with the bank, cancelled), on which starting a batch relies;
`UnpaidUntilStarted` says that the paid total of a batch is zero before. That
claims exclude and totals agree is proved per batch. The refinement maps a row to
due, on its way or paid; importing a file is the only step that moves several at once.

**The payroll run** (`PayrollRunProofs`). `Submitted` is all that `ThreePeople`
lacks, together with the typed month, `SignOffCurrent` and `ApprovalSigned` (who is
about to approve a run has signed nothing of it, and it is in review). For `ApprovesWhatIs`
the two halves of an approval need a lemma each: `RunVerified` shows that what is
verified is what is there, `RunApproved` that it still is at the commit.
`AdjustmentsApproved` is the hard one: after that an adjustment can be approved only by a request
that had seen no run, and it stays in `unlocked`. `RequestsKeepTheMonth`
shows that the requests of the pages only take steps of the services, so the
theorems are about `DeskSpec`, under which the run checks them.

**Rental manpower** (`RentalProofs`). In the settlements, that nobody is overpaid
and that a status says what the payments are need each other: what may be paid
depends on the status and what is left. The invariant follows the order in which a
statement comes to be: a calculation is in an open month and holds approved
adjustments (`CalculatesOpen`, `LinesApproved`), all settlements of the month
move together, payments are of an invoice that covers them (`PaymentsInvoiced`). The refinement needs
nothing more. The statements of a month are approved at one step, and their
lines change in an open month only, so `EarnedBy` never changes again; an
invoice is entered once, on that net; and a step on a payment changes the totals
of its supplier by its amount (`TotalsWith`, `TotalsSettled`), with what is
`Available` as the guard that the promise asks for. Everything else is a stutter.
For assignments, `Lines` says that segments in force share no day and that a
revision in force continues one; that no day is covered twice and at most one
segment is open (`HistoryContiguous`, which the run checks) follows. The proof has a lemma for each way a
history is changed: cut, split, extended, cancelled together with what follows.

**Trash** (`TrashCascadeProofs`). `TrashInv` says which children share the fate of
their parent, but a restore brings back those with a link and with the parent's
date. `LinkedWhole` gives them the link, `OneDelete` and `Dated` say that a date is
that of one delete, `InHand` what an open form or page may still write over.

**The directory** (`SourcingProofs`). `DirectoryTrue` lacks two facts only: an offer
that is there has its provider (`Owned`), so that an entry whose place was
another's finds no offers of that one, verified or not; and a file that is being
uploaded or whose deletion waits for a commit is of no qualification row
(`FilesApart`), so that neither a crash nor the clean-up takes a document away
that can still be downloaded. The length is in the number of paths: forms,
imports and services of three kinds of provider. A few lemmas say when a rewritten entry
keeps the invariant (`EntryRewritten`, `StatusKeeps`, `ProfileKeeps`, ...), and
each request is then one use of them.

**Accounts** (`BackOfficeProofs`). The code that keeps an owner looks at
memberships only, never at accounts. The invariant adds `Opened` (outside a bulk
action no active membership, now or in the rows that open requests have read,
has a closed account or a retired profile; this is why looking at memberships is
enough), `Signed` (who has a session or a request has signed in, hence is never
deleted) and `Versioned` (a session's stamp is not ahead of the version of its
member, and while the two are equal the authority is the one it was given).

**The page and the library** (`BackOfficeProofs`). `OneRead` and `NeverAhead`: one
read is under way at a time, of the page in view, and nothing shown, served or
answered is ahead of the database. `CallsContinue` and `NumberedOnce`: the numbers
a call has inserted are the next ones of the series, its row is held to the end
of the transaction, and committed numbers have no gap.

**Packs and imports** (`BackOfficeProofs`). From the check under the lock to the
record, `Sending` says, a pack is locked by the call that mails it, is not sent and
has a link in force, which is the one that the call has read; as neither a
revocation nor a reissue gets that row before the record, the mailed link stands when
the mail goes out.
`MailsCounted` is the exact count behind `MailAccounted`: a mail is recorded, lost, or
its transaction is open. For imports, `RowsDistinct` is what makes the order in which a
workbook is applied not matter; `RowsMatched` holds because deleting a record
clears the match of its rows; `NothingBefore` says that what a book has opened has
moved, so that no later book opens it again.

**Employees** (`BackOfficeProofs`). `HistoriesSeamless` counts the periods that cover a
day. `History` says the same of neighbours: the earlier one ends before the later one
begins (`InOrder`), and no day is left out (`NoGap`). The one hard step enters a
salary: `CutIs` shows that every other salary keeps the days the new one does not
cover, `UntilIs` that the new one reaches exactly to the next. `PastPayKept` follows
from the first alone. That a set of days has a latest one is a lemma
too (`LastDayOf`), shown with `SmallestSubset` of `SumTheorems` instead of an
induction.

**Days and lines** (`BackOfficeProofs`). A run keeps the lines of the day it was
calculated, while the file goes on changing. `LinesPrinted` ties the two halves of
one calculation: what a line pays is what the fingerprint hashes, and the days it
pays are those still recorded, since attendance under a run that left draft is
approved or locked. When the fingerprint matches, the lines are therefore what a
calculation would write now, and `FileIInv` of the employees gives each of
those days one salary.

**Migrations** (`BackOfficeProofs`). `Given` writes out what a built-in profile grants
after any of the sets of migrations that can have run (`Ordered`), `Admitted` what the
constraint admits; each migration is shown to lead from one to the next,
on either branch, and the last set gives the catalog. `AccountsMoved` does the same
for the accounts.

**The whole** (`BackOfficeProofs`). `BackOfficeSpec` is the conjunction of the
specifications, so the theorem about each part holds of it unchanged, whichever
others move at the same step; the types of all parts are `BackOfficeTypeOK`.

The assumptions are those of the modules: the days of the employee file, the
generations of a link and the lost mails are bounded by a number; sets of lines and adjustments
are finite, there is a payable line and an amount, calendar days fall into
months in order, the children of a project are those that the Trash page
restores, a batch of documents has a series of its own, forms are
operations of the services (a transfer names two locations and some lines), the
owner's profile is a profile, and `None` is none of the values it stands beside
(of a settled month it is no function of what each supplier has earned, which
`NoStatementAssumption` of `SupplierPayout` adds).

Only model-checked:

* `RequestsEnd`: liveness under fairness is out of reach of the prover.
* `PagesOffer` and `DesksOffer` (`OffersWork` and `WayForward` of the payroll month and
  of the settlements, `ButtonsWork` and `ExportsComeBack` of the directory): they compare what pages offer with
  what is `ENABLED`, which the prover cannot reason about.

All other properties of the passing runs are theorems.

## Hazards

`PROJECT.json` lists what in this code is hard to test, at its line, with the
properties that cover it. Those without a property are what the code leaves
open and the observations above describe, and the lock orders that PostgreSQL
resolves by aborting one transaction, where an aborted call is the call not
happening. `purge_trash` is scheduled nowhere, so that expired entries are
purged is no property of this code; result rows of a bank carry no attempt
number, so a late one is like any other.

## Not modelled

* Formats and validation of single fields: they refuse calls, and a refused call
  changes nothing. (Who may act is modelled where it can go stale, in
  `AccessControl`, and where it decides what a page may offer, in the desks.)
* Decimal rounding, currencies, the amounts of a payroll line (not the days and
  salaries they come from), layouts of documents
  and workbooks.
* The explorer, reports, most exports, forms and templates, deployment, scale seeds
  and verification scripts, and the selectors and pages that no desk models:
  they change no state of the running program. Together with style sheets they are most of the repository's lines,
  which is why the modules map to a fraction of them although they cover most of
  the services.
* The bulk import of rental workers, the
  timesheet policy, project codes and locations, the correction of a stock
  record, the settlements and adjustments pages of the front end: the components
  `partly` modelled in `PROJECT.json` say what is left of each.

## Plan

Done: `StockLedger`, `TrashCascade`, `PayrollRun`, `SalaryPayment`,
`SupplierSettlement`, `RentalMonth`, `EmployeeFile`, `PayrollMonth`, `AccessControl`,
`AccessUpgrade`, `StockImport`, `DocumentLibrary`, `DocumentDelivery`, `SourcingDirectory`,
`WorkspaceClient`, `PayrollDesk`, `SupplierDesk`, `SourcingDesk`, `BackOffice`, the
refinements `StockPromise`, `SalaryPayout` and `SupplierPayout`, and the proofs.

Left, in this order:

1. `RentalMonth` with overlapping transactions of timesheets and assignments.
2. `ProjectStatus`: projects and the location that a signal creates.
