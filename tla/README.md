# STUD.io: models and proofs

TLA+ models of the parts of STUD.io in which requests, processes, services and
the browser meet: the audited catalog and its review, the GearList service, the
upload of plugin scans, the decisions about what a scan found, accounts and
sessions, and the pages of the frontend on which a user's acts overlap with
answers, failures and other users. TLC checks each on a small instance; TLAPS
proves the safety properties of all ten for every value of their constants.
Which lines each definition models is in `PROJECT.json` (`map`), and so are the
hazards of the code, each with the properties that look at it.

## 1. The system

| Part | State | Operations | Talks to |
|---|---|---|---|
| ControlRoom backend (`app/controlroom_backend`, FastAPI, asyncpg) | PostgreSQL: brands, models, workstations, effects, instruments, libraries, tools, lookups, `audit_log`, users, scanner tables | create/update/soft delete with an audit entry; review of entries; login and users; scan ingest and decisions; import, export, backup, search | PostgreSQL, GearList (proxy) |
| GearList service (`app/gearlist_backend`, Go) | `gear`, `gear_types`, `gear_maintenance_log`, the shared `audit_log`; photos in MinIO | create/update/soft delete, photo upload, maintenance entries | PostgreSQL, MinIO |
| Plugin scanner (`app/plugin_scanner`, Go command) | one run: what it found, the attempt it is at | walk, filter, upload with retries, render | backend (`/scanner/exclusions`, `/scanner/scan`) |
| Frontend (`app/studio_frontend`, Next.js) | the session cookie, react-query's lists, open dialogs, selections, the view kept in localStorage | tables, record dialogs, bulk edits, scan workbench, change review, accounts | backend, GearList, Google |
| Roadie (`roadie`, Go command) | processes and containers it starts, `schema_migrations` | pipelines, sharded end-to-end runs, stack start and polling, migrations | Docker, PostgreSQL |

What is hard in it:

- **A handler is several statements.** Most handlers read a row, decide, and
  write in a transaction that starts later, at READ COMMITTED and mostly without
  `FOR UPDATE`. Whatever was read may be stale (`brands.update_brand`,
  `_crud_ops.delete_entity`, `change_review.fetch_mutable_entry`,
  `store.execWithAudit`, `ingest_scan`, `users._check_last_admin`).
- **The audit log is a source of data.** An undo writes the `old_data` of an
  entry back, so a stale or misplaced entry is not only a wrong report.
- **Two stores.** A photo is an object in MinIO and a key in a row, with no
  common transaction.
- **An agent that cannot know.** A POST that times out may have been stored.
- **Rights that outlive their reason.** A token says what its owner was.
- **A page that asks and does not wait.** Lists, searches and saves are under way
  together; some are aborted, some superseded, some neither, and an answer meets
  whatever the page shows by then.
- **Forms as conversions.** A record becomes texts, the texts a payload, the
  payload a row, and each step drops, empties or keeps a field by its own rule.

What makes each part correct, in a sentence: every row is explained by its audit entries and
an entry is settled once (catalog and review); a row is deleted once and what its history
may list first shows it as it is (GearList); reported success means stored, no scan is a
part of a walk, and each run ends (upload); what is decided about a scanned plugin loses no
recorded install, keeps the copy it names and agrees with the aliases (decisions); an
administrator remains and a page shows the account that acts (accounts); a save changes what
its user changed and nothing else (dialogs and forms); what is shown under the controls is
what they ask for, one's own writes included (tables, workbench, review page).

## 2. Modules

| Module | Models | State |
|---|---|---|
| `AuditedCatalog` | write handlers of brands and of two kinds of rows that refer to one | `row`, `log` (`audit_log`), `req` (what each request has read) |
| `ChangeReview` | extends it with acknowledge, undo, permanent delete, bulk action; the specification and the properties | as above |
| `AuditLifecycle` | abstract: the status of each entry, appended pending, settled once | `status` |
| `GearList` | GearList's rows, audit entries and photos | `row`, `log`, `bucket`, `req` |
| `ScanUpload` | a run of the agent, its POSTs in the backend, the decisions an ingest reads | `run`, `call`, `scans`, `links`, `excl`, `revoked` |
| `ScanReview` | administrators' decisions about scan results, links, rejections, aliases and collisions, with their row locks | `result`, `record`, `paths` (`disk_paths`), `link`, `alias`, `rejected`, `excluded`, `req`, `ops` |
| `Accounts` | sign-in, session cookie, Users page, and the handlers behind them | `users`, `next`, `tabs`, `cookie`, `calls`, `lapse` |
| `RecordDesk` | a table, the record dialog over it, the bulk edit bar, the cached list | `rows`, `list`, `fetch`, `stale`, `modal`, `call`, `bulk`, ... |
| `RecordForms` | the nine forms: control and conversion of each field, and what the service does with it (no state) | |
| `TypeAhead` | one search box as a record and functions of it (no state of its own) | |
| `RecordEditor` | one field of one form from row to form to payload to row, with its search box and a gear's maintenance log | `field`, `row`, `base`, `form`, `gear`, `call`, `box`, `mlog`, ... |
| `TableColumns` | which columns the eleven paged tables filter and sort, and which the services know (no state) | |
| `TableView` | filter, debounce, sorting, visibility, pages, the stored view, change of user | `entry`, `active`, `timer`, `sorting`, `store`, `cache`, `flight`, ... |
| `ScanDesk` | the scan workbench page: filters, selection, single and bulk decisions, dialogs, lists per bucket | `server`, `bucket`, `sub`, `cache`, `flight`, `selected`, `confirm`, `runs` (bulk loops), `sent` (other requests), `queue`, `modal` |
| `ReviewPage` | the change review page: filters, pages, reload, refresh, actions on one entry and on ticked ones | `log`, `page`, `ticks`, `act`, `bulk` |
| `ChangeReviewProofs`, `ScanReviewProofs`, `AccountsProofs`, `RecordDeskProofs`, `RecordEditorProofs`, `ReviewPageProofs` | theorems about the module each is named for | |
| `ScannerProofs` | theorems about `ScanUpload` and `ScanDesk` | |
| `TablesProofs` | theorems about `GearList` and `TableView` | |
| `MC...` | instances for TLC, symmetry sets | |

**How they compose.** `ChangeReview` extends `AuditedCatalog`: both run on the
same tables, and the interleaving of their handlers is the subject. It refines
`AuditLifecycle` under `status <- outcomes` (property `OutcomeFinal`), and so does
`ReviewPage`, whose `log` is the part of the backend that its page sees: what the one
module proves of the handlers and the other assumes of them is one specification.
`RecordEditor` composes `RecordForms` with an instance of `TypeAhead`; `TableView`
extends `TableColumns`. `RecordDesk`, `ScanDesk` and `ReviewPage` each carry the
part of the backend that their page sees: rows with versions, the buckets of the
last scan, the status of each entry. What a settled entry does to the data is
`ChangeReview`'s, what a decision locks is `ScanReview`'s. `ScanDesk` and `TableView` have
names of their own for what every specification has (`DeskSpec`, `TableSpec`, ...), so
that a module of proofs can extend two components.

### The backend and the agent

**Grain.** In the catalog a SELECT outside a transaction is a step and a transaction is
one step, its commit, because its first write locks the row that matters until the end.
In `GearList`, whose transactions read before they write, a write is three: the
transaction begins (`BeginWrite`, `BeginTx`), reads (`Get`), and runs its statement and
commits. Aborted transactions leave no trace but the end of the request. What a request
keeps between steps is in `req`.

**Time.** `performed_at` is `NOW()`, the time at which a transaction began
(`sql/schema.sql:362`), and the history is listed by it (`gear/store.go:316`), while
`log` is in the order of commits, which the database does not record. In `GearList` the
two may differ, so an entry keeps how many entries had been committed when its
transaction began (`began`) and when its handler first read (`since`). `After(i, j)` holds
where the clock cannot say otherwise, `Newest(r)` are the entries that the history may
list first, and the properties speak of those. The times of two transactions that overlap
may come in either order.

**Data.** A row is its state (`unused`, `live`, `deleted`, in the catalog also
`gone` once removed for good) and one value: an item's `brand_id`, a brand's own
columns, a gear type's name, a gear's type and its photo's format. Primary keys
are drawn once, as UUIDs are. An entry carries the row read before the change,
which is what undo writes back.

**Which table a row stands for.** `Models` are rows of a table that
`_check_brand_refs` reads before a brand is deleted; `Workstations` rows of one
that it does not (workstations, tools). A permanent delete meets the foreign keys
of both. `CheckRefs` of an item may answer either way: the tables that refer to
items are not modelled. Uniqueness of names in the catalog is not modelled; in
GearList it is (`ValueOK`), for a type's name is all there is of it.

**Photos.** `Upload` stores the object before anything is known of the gear, as
`handlePhoto` does. Every failure of `SetPhotoKey` leads to `cleanupPhoto`, whose
own failure is only logged, hence its two outcomes.

**The upload.** `run[a]` is the command's progress: the walk (which a deadline
cuts short silently), the exclusion filter (any failure of which means no
filter), the attempts. `call[a][n]` is what the backend does with attempt `n`,
which goes on when the agent stopped listening: `AttemptFails` stands for a
refused connection, the attempt's own timeout, the deadline and a lost answer.
A 4xx ends the run, a 5xx is retried. `Ingest` resolves with the exclusions and
links it read; a linked plugin that the payload lacks becomes an orphan row, which
the schema refuses (`format = 'unknown'`), so all of it rolls back. Name aliases,
fuzzy matching, and records that disappear under a link are left out: no property
here tells them apart. `Init` allows any links and exclusions: they survive the
purge of the scans they came from.

**The decisions.** `ScanReview` has the handlers that lock: `append_disk_path`
selects the record FOR UPDATE and updates the row afterwards, `remove_straggler`
selects the rows FOR UPDATE and the record afterwards, `confirm` updates the row
and then the record. So a request there has several steps: the read of its rows
(`ReadResults`, `ReadClean`, `ReadPattern`), the locks it takes first (`LockRecord`, one
record after the other, as the loops of `keep_all` and of a pattern do; `LockRow`;
`LockCopies`), and the commit, which needs the others to be free (`RowsFree`,
`RecordsFree`). `seen` is what was read, `paths` what was read under a lock. Handlers with
one set of locks commit in one step. `Fail` ends a request without a trace: the client or
the connection is gone, a statement failed, or PostgreSQL chose it as the victim of a
deadlock, which no handler retries.
What is merged: the existence check of a record with the read of the row; the reads of
the rows of `keep_all` and of a pattern, and their locks with the commit (the code locks a
record, writes its row and takes the next record, all in one transaction); the alias that
a pattern writes before it locks the record with the commit too. `listed` stands for the
statuses `known`, `needs_review` and `unlinked`, which decide nothing here, and rows
of one fingerprint share the disk name an alias is for. A row starts with any live
match or none. `EditPaths` is the form of the catalog, which replaces `disk_paths`.

**Accounts.** A handler of `users.py` reads and decides in one step (`checked`) and
writes in the next, with the role its token carries. A tab stands for a browser with
a cookie jar of its own (two tabs of one jar are not modelled), an account has its
password right whenever it has one, Google e-mails are unique (so the 409 of a
second account is not reached), the first free name stands for the loop over
suffixes, and the Google script loads while a page is shown. A sign-in is answered in two
steps, for the cookie comes with the headers (`SetCookie`) and the account shown changes
after the body was awaited (`Answer`); `Awaited` says that a tab is between the two, and
`crossed` that a second cookie came while it was, as when the form and Google's button are
used together: then the last cookie need not be the last body's. A sign-in answer that
nobody hears any more sets no cookie. A cookie ends when its token does.
`Restart` makes the account named admin an administrator again, as
`seed_default_admin` does. `lapse` is history: a role or an account was changed for
somebody whose account was no longer an administrator's, or from a page that showed
another account than its cookie's (`astray`).

### The pages

A click is a step, with the effects that React runs before the next event. A request is
three: it is sent, served, and its answer arrives; it may be lost on either way, and an
answer finds the page as it is by then, a dialog closed or a page left included. (Two are
one step: a request of a bulk loop of `ScanDesk`, whose answer only lets the loop go on, and
a save that the service always refuses.) react-query's rules are in the operators that a
mutation or a mount calls (`Ask`, `Invalidate`, `Refetch`): an invalidation drops a request
under way and asks anew, a first load is left to go on; a failure stands for the query and
its one retry.

**RecordDesk.** A field's value is the edit that gave it; `text` stands for what a
form replaces and `tags` for lists. `version`, `seen` and `touched` are history: they
let the properties say "unless somebody wrote in between"; so is `early`. A dialog is
keyed by its record (`Mount`), which is why a form never outlives a step to the next record.
A bulk edit merges its value with the rows as listed (`BulkForm`) and sends one request
per row, all at once; two bulk operations may be under way, for a deletion may be
confirmed during an Apply and a bar that was cleared is a new one. An announced write
invalidates the list, which drops an older request for it, but not the first one: what
that brings is shown as fresh without the write. `early` marks this, and `OwnWritesShown`
excepts it.

**RecordForms and RecordEditor.** `RecordForms` is the table of the nine forms: which
control a field has, one of eight policies for its way into the payload, and one of five
stores for what the service makes of it from there (as sent; NULL as left out; no such
column; encoded twice, always or in a new row only). A form's table is put together with
`++`, the left one of two functions where both are defined. A tool's form stands for five
categories, two of which have models. `RecordEditor` follows one field, any of them
(`field \in Fields` in `Init`), for what happens to it depends on no other field but a
gear's type and pickup configuration. A modal takes the row (`base`) when it is opened; a
save outlives it, and `Succeed` closes whichever modal is open by then. The row goes from
the service to the form without the list between them, which is `RecordDesk`'s. A row whose
attributes are a string cannot be read back: the save that made it fails, and no modal
opens on it. Bounds: one save is under way, during which nothing is typed into a search and
no gear is refitted, others write the row once per modal and not while it is closed, and
the maintenance log is followed along with one field only, the gear's name.

**TypeAhead.** `BrandSelect`, `ModelSelect`, `ModelSelectSingle` and `ParentSelect` are
one record with functions on it, for they differ in a guard (`Guarded`) alone. Nothing
cancels a request; the clean-up of an effect makes its answer unheard (`active`).

**TableColumns and TableView.** `TableColumns` lists the columns of the eleven paged
tables with what the frontend offers and the service knows; `TableView` takes any such
column. Rows are numbers, and `Hit` are those that match what was typed; rows are sorted
by rank, the row at a place being the one with that many rows up to it. The key of a
query is what react-query makes of sorting and filter (`Key`); pages are kept per key, as
their number and their rows one after the other, which is all that the offset of the next
page and what is shown depend on.
`store` is localStorage, one entry per user.

**ScanDesk.** Rows are numbers in the order of the list. `server` keeps what decides a
row's bucket; `Listing` is the list the backend makes of it. The mismatch is one of the
version; the other client filters do what the sub-state does. What the buttons of rows and
dialogs, the resets and the bulk update send is in `sent`, in up to `MaxRuns` requests at
once, which nothing serialises; the service refuses what `Accepted` says (a row that is
gone, a copy without its match, a collision of which a copy was dismissed before). An
answer closes whichever dialog is open by then if a dialog had asked, an error is shown by
the dialog that sent the request, if it is still there. `runs` are the loops of bulk
rejects and excludes. `calm` is history, of each list: it is false once others wrote, once
a request of `sent` was served and ended in an error or a lost answer, and for what a load
had read that an invalidation does not cancel (the first of a list, or of one not shown).

**ReviewPage.** `page.hard` is the reload after a change of filter or page, which empties
the list and aborts an earlier reload; `page.refresh` is the one in the background after
an action, which does neither. A list is counted and then read, in two statements of the
backend. An empty page beyond the first goes back: the effect runs again for the page
it went to, before the reload of that one empties the list, so that it goes back two
where there are two (`Show`). An entry has one request at a time, also after the page
was left and opened again; the table filter, which does what the operation filter does,
the dialog with an entry's data and the banner of a failed bulk action are left out.

**Mutants.** An operator commented "Mutant" is the one after it, or the one it names,
with a plausible mistake. Each property of a passing run has one; with it in that
operator's place TLC finds the property violated, so the property depends on the code
it is about.

## 3. Runs

| Run | Instance | Question |
|---|---|---|
| `review_races` | 1 brand, 1 model, 1 workstation, 1 name, 2 requests, 3 entries | rows, entries and reviews explain each other under races; no row refers to a purged brand |
| `review_purge` | 1 brand, 1 model, 1 request, 3 entries | violation of `PurgeOnlyDeleted` |
| `gear_races` | 1 gear, 1 type, 2 formats, 2 requests, 4 entries | a row is deleted once; what the history may list first shows the row; old rows are explained |
| `scan_retries` | 1 run, 2 attempts, 2 plugins, 2 scans | success means stored, no part of a walk is stored; the run ends |
| `scan_review` | 2 rows of one plugin, 2 records, 2 requests, 3 decisions | installs, collisions and aliases under races |
| `accounts` | 2 admins and a free name, 2 tabs, 2 requests at once, 1 restart or expiry | an administrator remains while rights are as tokens say; the account shown is the one that acts |
| `accounts_link` | as above, 1 tab, 1 request at once, 3 in all | violation of `LinkKeepsSession` |
| `record_desk` | 2 rows, one not in use at the start; 1 edit, 2 writes to a row and 3 in all, 1 fault, 2 uses, 2 bulk operations at once | saves and bulk edits change what was asked; own writes are shown |
| `record_editor` | every field of the nine forms, 2 catalog entries, 1 maintenance entry | untouched fields are kept and edits land, two faults of the services excepted; the log is current, searches stop |
| `table_view` | 2 rows in pages of one, 2 users, 2 acts, 1 write of others, 1 failure | the rows are those of the controls; views stay with their users |
| `scan_desk` | 2 installs of one record and an orphan, 3 acts, 2 actions at once, 1 fault | decisions are shown; actions end |
| `review_page` | 4 entries in pages of one, 3 acts, 1 write of others, 1 fault | a page at rest shows what its filters ask for |

**Bounds.** `MaxLog` bounds the number of writes; it is a guard of `LogAudit` and of
`WriteAudit`. Two requests are enough for each race there, which is between what one read
and another committed; three entries hold a creation, a change and its contrary. `MaxOps`
bounds the decisions of `ScanReview`: two at once, and a third before or between them.
`MaxScans` equals the number of attempts, so it never stands between an attempt and its
scan. `MaxRetries` is 3 in the code; two attempts have a first, a last and a late answer.
`MaxId`, `MaxCalls` (requests in all) and `MaxFaults` bound `Accounts`: with two
administrators and two requests each race of a check with a write is there, and with a free
name an account made again under a name that was deleted. On the pages `MaxActs`, `MaxUses`,
`MaxEdits` count what the user does, `MaxWrites` and `MaxVersion` what is written,
`MaxFaults` what fails or is lost: an act, one that overtakes it and a third that meets both
suffice for the orders of answers that the properties tell apart. A page holds one row where
the code's holds 50 or 100, so that two rows make two pages; four entries on `ReviewPage`,
of which the fourth is appended by others or there from the start, make the third page that
going back may skip. `MaxRuns` and the two bulk slots let two actions overlap. The
constraint `PlainDeletes` of `record_desk` leaves out deletions asked for in an edited form,
where what was typed goes nowhere; the theorems of `RecordDesk` are without it. The proofs
hold for every value of these constants, in all ten modules.

Symmetry is over requests, image formats, rows, records and slots, and used with
invariants and action properties only. The runs of `ChangeReview` and `GearList` leave the
check for deadlocks on, where it says nothing, since `Crash` is always possible; the others
say `CHECK_DEADLOCK FALSE`, for their bounds end what users and administrators do. That
something comes to rest is what the liveness properties say: `TableSettles`,
`DeskSettles` and `SearchSettles` of pages, `RunsEnd` of the agent.

### What the violations show

1. `review_purge`: a permanent delete looks at the entry and not at the row. TLC's trace
   creates a row, updates it and deletes it; undoing the UPDATE writes its old row back,
   which is live; the pending DELETE entry is then confirmed and removes the row. Two DELETE
   entries of one row, of which one is undone and the other confirmed, lead there too.
2. `accounts_link`: the Users page initialises Google's client in the script's onLoad
   only (`users/page.tsx:93`). Once the sign-in page has loaded the script, onLoad does
   not fire again, as that page's own comment says (`login/page.tsx:48-49`), and Google
   still calls the sign-in page's callback: whoever means to link an account
   (`docs/manual.md:9`, 213) is signed in as that Google account instead.

### Divergences met while modelling, which no run shows

The model has the step in each case, and does what the code does.

*Backend.* The undo of a creation soft-deletes the row (`change_review_undo.py:44-48`),
where `docs/manual.md:167` and `docs/arch/api.md:315` say that it
hard-deletes it. A bulk undo sets
`undone_at` and reverts nothing. `old_data` is read before
the transaction: with two writers it is not the row that the change replaced, and
undoing the later change takes back both; and the history of a gear may list its entries in
another order than they were committed in. Replacing a photo by one of the same format
and failing to update the row deletes the object that the row shows. The idempotency
key that the agent sends (`client.go:179`) is not read: an upload whose answer is lost
is stored twice. A scan that lacks a linked plugin is refused as a whole, on every
attempt. `POST /results/{id}/reject` leaves the link, where `sql/scanner_schema.sql:59`
and `docs/arch/data-model.md:75` say it is deleted; the hard reset leaves the links
too. A rejection is stored under the name on disk and looked up under the name that a
rule shows, so that such a match comes back (`docs/arch/data-model.md:80`).
`docs/arch/api.md:410` says that an alias and the confirmed rows never contradict each
other: `PatternAgrees` says it of what one commit of a pattern writes, and the other
decisions confirm rows without looking at aliases.

*Attributes and models.* `models.py:104` and 124-125, `effects.py:102`,
`instruments.py:101` and `libraries.py:93` encode `attributes` with `json.dumps` before
the connection's codec does (`database.py:10-11`; `_helpers.py:138` says the codec is
enough), so that the column holds a JSON string. The row is committed, reading it back
fails, and the Add form, which stays, makes another row when it is saved again. A model's
form sends its attributes with every save, so that a change of its name does this too.
Models picked for a workflow, composition or admin tool are answered 200 and dropped
(`tools.py:144-146`, 175-176; `ToolModal.tsx:63`, 113-120): their tables have no such
column. `UntouchedKept` and `EditsLand` except both by name.

*Accounts.* No administrator may be left: two demotions each count two
(`users.py:66`), a deletion counts users (`users.py:208`), and the role is the token's
(`routers/auth.py:73`). `AdminKept` says what holds: whoever acts is still an administrator
and shown as who they are. A form and a Google sign-in under way together may leave the
cookie of one and the name of the other (`auth.tsx:84-94`).

*Forms and tables.* A write that is announced while the first list is loading is not shown
by that list, which is taken for fresh (`TablePage.tsx:182`, `useTableData.ts:81-85`). A
gear's PATCH keeps with COALESCE what the form means to clear
(`gear/store.go:240-258`). `ParentSelect` offers the record itself among its recent
picks (`ParentSelect.tsx:137`, 189; `docs/arch/frontend.md:192`). A brand created from
`BrandSelect` and answered late replaces one picked meanwhile (`BrandSelect.tsx:59`).
The Undo of a record's history posts to a path that is not mounted
(`RecordHistoryView.tsx:87`; `main.py:55-56`; `docs/manual.md:140`). Some of the filters
offered are ignored by the service (`FilterCell.tsx:44`, `_crud_ops.py:123`;
`docs/manual.md:49`): `ControlsShown` speaks of those it knows.

*Workbench.* The confirmation of a bulk action counts the rows when it was asked, the
action takes those of the list when it is confirmed (`bulkConfirmation.ts:3-5`). Saving
a resolution and creating a record go to `/catalog/...`, which is not mounted
(`SingleResolutionModal.tsx:199`, `CreateRecordModal.tsx:45`; `main.py:46-55`). The
dialog that links a row looks for an id that candidates do not have, so that nothing is
sent; for an orphan it sends an empty table and is refused. The Known filter
shows nothing, for known rows are hidden unless an active one of their record is listed
with them (`useWorkbench.ts:83-89`); and a bulk exclude of a row that a rule renames
excludes the name on disk, so that the row stays.

*Review page.* A change of filter or page does not abort a refresh, and a refresh does
not abort a reload: the older answer may win, and rows of the earlier filter stand under
the new controls (`ListShown` excepts a reload and a refresh in flight at once; without
the exception TLC finds it). Emptying page three goes to page one, where the test says
"auto-navigates to previous page" (`page.test.tsx:247`). An entry settled by its own
button stays ticked, and every bulk action with it is answered 409. A bulk action can be
confirmed again before its answer. After a failed reload the page has no controls until
it is opened again.

## 4. Fairness

- `ScanUpload`: weak fairness of the agent's own steps (`AgentStep`), nothing of the
  backend, the network or the administrator. The agent is one process whose every wait
  has a timer (30 s per attempt, the backoff of 1, 2 and 4 s, the deadline of the whole
  operation), so a step of it that stays possible is taken. The passing of the deadline
  itself (`Expire`) is not assumed; the loop ends by its counter.
- `RecordEditor`, `TableView`, `ScanDesk`: weak fairness of the end of a request, in an
  answer or in an error, for a browser ends each request one way or the other; of the
  debounce timer (`Debounce`); and of the loop of a bulk action, which is code that
  runs (`Running`). Nothing is assumed of users, of other users, or of which of the two
  ends a request takes. `SearchSettles`, `TableSettles` and `DeskSettles` follow.
- The other specifications have safety properties only and state no fairness.

## 5. Proofs

Eight modules prove, for all sets of rows, names, tabs and requests and every bound, what
the runs check but for the properties named below. They assume only what the modules'
ASSUMEs say: key sets are disjoint, `Null` and `None` are none of the values they stand
beside (for a dialog, a list or a request these are records, of which TLA+ leaves open
whether one equals a string: `ModalAssumption`, `NoneAssumption`), bounds are numbers, the
rows of a list, the entries under review and the requests about a scan are finitely many,
and an installation to start from has an administrator and accounts numbered from one. Where
a module of proofs is about two components it extends both, which have no name in common.

Each proof has the same shape: an inductive invariant (`Sound`, `LocksSound`, `IInv`,
`DeskInv`, `TableInv`) of named parts, TLC having checked it on the instance of the run
first; lemmas that reduce the actions to the few ways in which they change the state; one
step per action; and the property from the invariant. None of the properties below is
inductive by itself unless it says so.

*Catalog and review.* `TypeCorrect` comes first. `Soundness` proves the inductive
invariant `Sound`: with the types, `RequestsSound` (what the stale read of a
request still guarantees when it commits: the snapshot of a write was live and its
row is not unused, the entry of a purge is a DELETE) and `EntriesSound` (an entry
has at most one mark, its row is not unused, the snapshot of an UPDATE was live).
None of the properties is inductive without it: that a soft-deleted row is
accounted for needs that undoing an UPDATE never restores a deleted snapshot,
which needs that the request which wrote the entry had read a live row. The lemma
`StepShapes` reduces the handlers to eight ways of changing rows and log, and each
property is proved over those: `PurgeIsReviewed`, `DeletionIsAccounted`,
`CreationIsLogged` and `BrandsAreWhole` as invariants, `HistoryIsKept` and
`ChangesAreAudited` as action properties, and `OutcomesAreFinal` as a refinement:
`Init` maps to `AuditLifecycle`'s, and each step to one of its steps or a stutter
(`AuditLifecycle` starts with entries that are pending, here none).
`NoDanglingBrand` (no row refers to a brand that does not exist) is in the run, too, but
its last case, an undo that would bring back a reference to a brand purged since, needs a
longer log than the run has: there `BrandsAreWhole` alone speaks. `PurgeReviewed`, that a
row removed for good has a DELETE entry that a review settled, is proved and in no run.

*GearList.* `TypeCorrect`, then `DeletedOnce`, `LogShowsRow` and `OldIsExplained` from
`HistoryOK`, which is inductive (`HistoryHolds`): the times of entries and requests are
those of prefixes of the log (`Timed`), a deleted row has one DELETE entry and no later
one, a live row is what its last entry shows, and what a request has read is shown by an
entry after which nothing of the row was committed before the request began. `StepShapes`
gives the ways of writing, `WriteEffect` what one write does to log and row, and
`WriteKeepsHistory` is the step. The entry committed last of a row is one that may be listed
first (`LastIsNewest`), from where the first two follow.

*Scanner decisions.* The inductive invariant is `LocksSound`: locks are exclusive
(`Exclusive`), what a request read of a record under its lock is still what the
record has (`FreshOf`), and the copies that a resolution locked are still shown and
matched as it saw them (`CopiesOf`). It needs that no handler writes what another
one holds: `OthersUntouched` for the requests, `SingleUntouched` for the rest, and
`OwnLocks` for what the request itself takes. `PathsAreKept` and `CopyIsKept` follow
from it, `AliasIsKept` (only a hard reset takes an alias away; proved, in no run)
from the types alone. `PatternsAgree` is about the commit of a pattern: it looks each
alias up again in the statement that writes it, so that what another request wrote
since the row was resolved decides. It needs `LocksSound`, for the paths it appends to
are those read under the lock, and that its rows have been resolved (`PatternsResolved`).

*Upload.* `IInv` has four parts and the property `DoneIsStored`. `RunOK`: a run past its
walk that may still send has walked everything, for the deadline that cuts a walk short also
ends the attempts. `CallOK`: a POST in the backend is of an attempt that was made, and an
answer of 200 names a scan of that run, that attempt and that payload, also when it comes
after the agent gave the attempt up. `ScanOK`: a stored scan's attempt was made.
`DoneStored` needs `CallOK`, because what the agent believes is the answer it received;
`CompleteStored` needs `ScanOK`, which leads from the scan back to an attempt, and `RunOK`,
from there to the walk. `Init` with its arbitrary links and exclusions is covered: no part
speaks of them. Two theorems, whose properties are in no run, bound what retries do.
`OncePerAttempt`: the POST that stored a scan is answered with its number for good
(`Acknowledged`), so that an upload is stored again only by an attempt sent again, although
nothing reads the idempotency key. `RunsAreBounded`: `StepsLeft`, a number that the phase,
the attempts and the deadline give, falls with every step of a run. It is the part of
`RunsEnd` that does not need fairness.

*Accounts.* The inductive invariant `IInv` is the types with six facts,
two of them the properties `SessionShown` and `AdminKept`. `Distinct`: a
number names one account, for good. `Lists` and `Calls`: what a tab lists and what a
request carries still names the account it named, or one that is gone, never another
that took its name, so that no request to change a role or to delete names its author
(`OwnAccountIsSpared`), unless it was sent from a page that showed another account.
`MeOnce` and `SessionShown`: the question who is signed in is
asked once per page, its answer is dropped once somebody signed in or out, and what a
late answer may still do to the cookie is bounded by who hears it; between its cookie and
its body a sign-in is the one awaited, or the tab has crossed. This gives
`SessionIsShown`. `AdminKept` needs `Calls`: the administrator who demotes or deletes
stays, because the page never lets them name themselves, and not because of the count
in `_check_last_admin`, which two requests pass together.

*Tables and dialogs.* The argument of `RecordDeskProofs` is about versions. A copy of a row,
wherever the browser keeps it, is `Past`: its version is no later than the row's, and with
the row's version it is the row. Rows change only by getting a later version (`Grown`), so
that a copy stays past under every write of anybody, without asking which. `CacheOK` says
it of the list and of an answer on its way, together with what `OwnWritesShown` needs: a
list not marked stale, and an answer that will replace it, are no older than the writes
announced, because whoever announces one invalidates, which drops the older answer; the
first list, whose request is kept, is the case that `early` marks.
`ModalOK` and `CallsOK` say of a form and of a save that fields not touched are those of the
version the dialog took (`Draft`), and `BulkOK` that a bulk edit starts from past rows.
`SavesOnlyOwnChanges` and `BulkKeepsTheOthers` then hold of the one step that writes;
their exception, that somebody wrote the row in between, is the version having moved.

*Forms.* `FieldsAreOK` says what the nine forms have in common, field by field: only a JSON
control can hold a text that does not parse, and it has a policy that parses it; only a list
of models may be kept by leaving it out; only the gear service has fields that depend on a
slot. `Served` says what one save does to one field under each policy and store, in a new
row and in a change. `IInv` connects them: `DraftOK` (an untouched form is `base`, the row
that its modal took, as converted), `CallOK` (a save in flight is the payload built from its
form, also when its modal is gone), and `LogOK` (the log shown, or the one asked for, has
every entry that was told). `UntouchedIsKept`, `EditsAreStored` and `LogIsShown` follow, the
first two with the exceptions of section 3. What was wrong in a form would be wrong in
`FieldsAreOK` or `Served`, both about functions, which TLC and the prover see alike.

*Review page.* `ListIsShown` rests on who still has to hear of something. While a page is
calm, either an answer to one of its own actions is still to come (`Unheard`), or what its
requests have read is what the backend has (`InSync`), and so is what it shows unless it is
asking again. An own action that is answered asks anew, so that `Unheard` ends with a
request that has read nothing yet. `AsksOK` gives what this needs of the requests: they
count before they read, a reload asks for the view that is shown, and in a calm page the
refresh does too and no reload is in flight with it. The last is not true of a page that is
not calm, which is the divergence named in section 3. `ListTyped` has the count of the
entries as a number, for which they must be finitely many. `LogIsAudited` is the refinement
of `AuditLifecycle`: a single action settles one pending entry, a bulk action all of its
entries or none, and the writes of others settle one or append one.

*Workbench page.* `DeskInv` says that, unless a bulk loop is at work or a request was
served and has not ended (`Busy`), every cached list that need not be read again and every
answer on its way is what the backend would answer (`Current`), but for the lists that are
not calm. An answer invalidates, which marks each list and drops the answers that were
read before the write (`Invalidated`); an error or a lost answer takes the calm of the
lists (`Disturbed`); a bulk loop writes row after row and invalidates at its end. The last
to end is the one from which `Current` holds again (`RequestStep`, `EndStep`). Nothing of
this counts the actions: `DeskShowsWrites` holds however many overlap.

*Tables.* `TableInv` is in two halves. `ControlsOK` says that the view seen is the view
stored, whoever the user is, and that the filter in the query is the one typed unless its
timer runs; from it follows `TableKeepsViews`, where the view of a new user is read before
it is written and a view at its defaults is removed, which reads the same as one kept
(`None` is no view). `PagesOK` says that pages which no other user disturbed are the
beginning of the answer to their key (`Begins`), and a complete answer has the length of the
whole. A further page keeps that (`WithPageOK`, by `Paged`: a beginning and the stretch that
follows it are a longer beginning), and so does a request that begins anew with nothing.
That an answer is a sequence of rows at all (`SortedTyped`) needs that each place has a row:
`Ranks` shows by counting that sets which grow along an order take every size. The filter
and the sort levels then make the answer what the controls want (`TableShowsControls`).

Model-checked only:

- `SearchSettles`, `TableSettles`, `DeskSettles`, `RunsEnd`: liveness under fairness, which
  is outside the prover.
- The two violations, which are counterexamples.

Nothing proved rests on recursion or on induction over data.

## 6. Not modelled

`PROJECT.json` lists each part with its reason. In short: search, statistics and the
proxy read; import repeats single writes, a row to a transaction; `pg_dump`, `psql`,
Docker and the fuzzy matcher are external programs; the administration pages are one
request per button; layout, cells, bundle metadata and rendering are pure. A commit
whose answer the GearList service does not receive is not modelled, nor are two
connections in one handler (FastAPI caches `get_conn` for a request). Of the scanner's
decisions: the keep_permanently flag, single writes of rules, versions, and audit
entries; rows that an ingest adds while they are taken. Of the pages: a list that fails
because one of its rows cannot be read, Set Name Alias of the resolution dialog, the photo
dialog, column widths, toasts, the confirmation of a
hard reset, and two tabs that share a cookie.

## 7. Plan

1. Proofs: the buckets that `ScanDesk` computes as an abstraction of the rows of
   `ScanReview`, as the log of `ReviewPage` is of the entries of `ChangeReview`.
2. `ScanReview` with an ingest: rows that arrive while a collision is resolved, the
   order in which link, alias and exclusion resolve a plugin; the bulk version update.
3. `Lookups`: reference check and soft delete, names unique over deleted rows.
4. Roadie: a migration applied and recorded in two steps, polling with a deadline,
   sharded end-to-end runs and their cleanup.
5. Import and backup: a transaction per row, a manifest that is taken after the dump.
