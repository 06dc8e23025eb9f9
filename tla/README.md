# TinySIEM: models, checks and proofs

TLA+ specifications of the stateful core of TinySIEM, beside the code they
describe. File names are relative to the repository's `app/` unless they start
with `docs/`, `scripts/` or `ui/`.

- Check a run: `tlc -workers 2 -config <run>.cfg <MC module>` (table below).
- Check the proofs: `tlapm <module>.tla` with AlertProofs, AuthProofs,
  CachesProofs, CasesProofs, DeliveryProofs, DeskProofs, DetectionProofs,
  JobsProofs (six minutes for DeliveryProofs, less for the others).
- `PROJECT.json` lists the components, runs, code lines behind every definition,
  mutated forms of definitions each property was tried against, findings,
  hazards and theorems.

## 1. The system

TinySIEM is one Python process (FastAPI under a single uvicorn worker) over one
DuckDB file and a few plain files. Concurrency comes from:

- request threads: every `def` endpoint runs on a thread pool;
- the event loop: `async def` endpoints (Beats ingest, manual integration runs,
  CSV import), the baseline and integration loops;
- executor threads: each syslog line is handed to the default executor, so lines
  that arrive in order are handled in any order;
- daemon threads: retention every six hours, reports.

The database connection is shared under one lock, which is held for one
statement, or for a DELETE and the INSERT after it, and never from a read to the
write that is built on it. Each statement commits by itself. In-memory tables
(correlation, suppression, throttling, caches) have locks of their own.

### Components, their state and what makes them correct

| component | state | operations | interacts with | correct when |
|---|---|---|---|---|
| ingest (`ingest/`, `listeners/syslog.py`) | counts of dropped lines | decode, insert, evaluate a line | calls decoders, store, rules, watchlists | a line that was taken is stored once, one that was not is answered so |
| decoders (`decoder/engine.py`, `parsers/router.py`) | decoder files, dictionary of decoders | create, change, delete, reload, decode | ingest | every source with a file has its decoder once loads are over |
| rules (`rules/engine.py`, `rules/router.py`) | rule files, rule list, correlation table, suppression tables | evaluate, reload, edit | reads the store, writes alerts | a firing is explained by events, no burst or started sequence is missed, suppression mutes exactly what it says and counts the rest, an edit loses no rule |
| exceptions (`rules/exceptions_store.py`) | table, cache | add, delete, reload | rules | the cache is no older than the change that refreshed it last |
| alert log (`alerts/file_writer.py`) | `alerts.log` and rotated parts | append, rotate, notify | rules, watchlists, baselines append | no alert is notified that was not written, no part is overwritten but by a late rotation |
| throttling (`auth_lockout.py`) | table of failures | note an attempt, drop on success, sweep | login, password change | attempts beyond the limit are spaced, locks end, nobody resets another key |
| accounts (`users/`, `auth*.py`) | `users` table, tokens held by clients | login, create, update, delete, logout, change password | throttling | no update lost but to a fault or to another request, tokens revoked for good and current in role, a superadmin remains |
| integrations (`integrations/`) | `integrations`, `integration_runs` | create, patch, delete, run, scheduler | external services, ingest | polled again and again, nothing that was fetched is skipped, every run ends |
| retention (`retention/`) | archive files, `_last_run` | archive | deletes from the events table | an event is in the store or in a file |
| watchlists | entries, matcher's tables | add, toggle, delete, import, match | alerts | as for exceptions |
| cases (`cases/`) | cases, comments, links, playbook steps | open, patch, link, comment, complete a step, delete | alerts, events | the timeline accounts for status and links; a deletion leaves nothing behind |
| triage (`alerts/router.py`) | triage rows | read, patch | alert log | patches that follow one another keep each other's fields |
| baselines | mean and deviation per source, hour, weekday; violations | hourly round, reset, acknowledge | counts events, writes alerts | the mean is that of the samples since the reset, a deviation is reported |
| SQL sandbox (`query/`), MCP server (`mcp_server/`) | one lock, one connection | run a statement with time limits | read-only connection | a caller gets the rows of its own statement |
| AI assistant (`ai/`) | configuration row with a key, calls of the day | save, clear, call | external providers | a key goes to no other provider, the daily limit holds |
| log tailers, batch upload (`scripts/`) | file position, rejects | follow, send, retry | ingest endpoints | a line is delivered, or the program says that it was not |
| audit, security feed | audit table | append; mirror into ingest | all endpoints | append-only |
| dashboards, reports, searches, entities, SBOM, GeoIP, other MCP tools | saved rows | read mostly | store | plain reads |
| UI, nginx | browser state | | API | not part of the server's logic |

### What is hard about it

Interleavings between a read and the write built on it (accounts, triage, cases,
caches, baselines); a clock read before a lock (suppression, threshold rules); a
decision taken under a lock and acted on outside it (alert writing); file
operations outside any lock (rotation, archives, rule and decoder files, lists
that are replaced while others walk them); a client that repeats a call whose
answer was lost; failures between two steps of
one handler (insert then evaluate, window then alert, DELETE then INSERT, events
then cursor); restarts, which empty all in-memory tables; and one scheduler loop
whose exceptions end a round. `PROJECT.json`, `hazards`, gives each with its
line and the properties aimed at it.

## 2. The modules

Every module models one component: its variables, `Init`, one action for every
time a thread takes a lock or does one file operation, `Next`, `Spec`. Three
modules compose others: Caches, Delivery and Desk. History
variables are listed apart and no guard reads them. `MC<Module>` extends a module
with the symmetry and the constants TLC needs. Where a definition is preceded by
"mutated" forms, they are the plausible bugs that its properties were tried
against; nothing uses them.

### Suppression (`_maybe_fire`)

A call is `Fire` (condition holds, clock read before the lock), then `Suppress`
or `Pass` (the locked section), then `Write` or `WriteFails` (`write_alert`,
whose errors are logged only). `Crash` empties both tables. Rules without
suppression go from `Fire` straight to the write. Each firing carries its own
`suppress_seconds`, since rules can be edited.

### Detection (`process_line`, `evaluate`)

`Receive` stamps, `Insert` stores, `Correlate` is `_evaluate_correlation` under
`_corr_lock` (cleanup, open, advance, fire and delete), `Since` and `Count` are
the two halves of `count_events_in_window`. One correlation rule and one
threshold rule; the gate behind them is Suppression. What makes the threshold
rule look (`Triggers`) and what it then counts (`Counted`) are two conditions:
the rule's operator decides the first, the SQL of the count is an equality
whatever the operator, and a rule with source `*` is triggered by nothing.
`Restart` forgets the table and the threads, the store stays. The clock is taken
as one clock in UTC: the code stamps with `datetime.now(timezone.utc)` and
counts with `datetime.utcnow().timestamp()`, which agree where the process runs
in UTC, as the container does.

### AlertFile (`write_alert`, `_write_baseline_alert`)

Directory entries and files are kept apart: `Exists`, `Stat`, `Rename`, `Open`,
`AppendLine` are single file operations, an open handle keeps its file through a
rename, a rename onto a taken name replaces. Sizes are counted in lines; less
than a full file is written within one second (50 MB by default).

### Lockout (`auth_lockout.py`)

`Attempt` is `check_and_note_attempt` including the sweep of stale entries,
`Accept` and `Reject` the outcome of the password check that runs outside the
lock.

### Accounts (`users/router.py`, `auth_router.py`, `auth.py`, `users` table)

A request passes `require_auth` when it arrives and is then a path through
`Target`, `Count`, `Name`, `Read`, `Replace`, ... : the sequence of critical
sections of its handler. `Replace` is DELETE and INSERT, two statements that
commit one by one, so that there are three ways to stop between them, each of
which leaves the row deleted: the INSERT breaks the UNIQUE constraint (`Clash`),
it raises for any other reason (`InsertFails`), the process dies (`Die`). A
statement that raises before anything is written ends its request
(`StatementFails`). The start after `Die` runs `ensure_superadmin`, which makes
a superadmin only where no account at all is left. Tokens carry role and epoch
as in the JWT. The hash of a password travels with the row and is left out.

### Integrations (`integrations/`, the loop in `main.py`)

The scheduler loop (`List`, `Check`, `Sleep`, `Elapse`) and manual runs share
the event loop, so there is one run at a time (`run`); synchronous endpoints
interleave with its steps. The events of a service are numbered by their time,
and may appear late. `Pull` takes any of those there are for its page, since the
drivers read one page or break off at a number and the order of what they get is
the service's, and moves the cursor to the newest of it: what was left out is
passed over, and kept in `left`. `PullFails`, `IngestFails` and `StatusFails` lead
to the except branch (`FinishError`). The drivers never await, so under the
Python 3.12 of the Dockerfile `wait_for` neither interrupts them nor lets another
task in; before 3.12 it does, which is not modelled. Assumed: stored credentials
decrypt.

### Retention (`archive_old_events`)

`Query`, `PickName`, `Open`, `WriteFile`, `DeleteRows` are the steps of the loop,
for the daemon thread and for requests alike. `WriteFails` leaves a partial file,
`ProcessDies` stops between any two steps. A chunk limit may end a file early.

### Cases (`cases/router.py` over `cases/store.py`)

A request is found (`Find`, `FindNote`, or `Create`), does its work (`Patch`,
`Link`, `Unlink`, ...) and then adds its system comments one by one (`Tell`):
each is one critical section, other requests run in between, and none asks again
whether the case is still there. `call[t]` is what the handler has in its local
variables. `Abort` stops a request between two sections, `LinkBreaks` and
`DeleteBreaks` inside one, whose statements commit one by one. Comments are
counted by what they tell of; who, when and the wording are left out. Each of
alerts and events is an item: the code treats them alike. The table of completed
steps has no key; one row per (case, rule, step) follows from the check under
the lock.

### Requests, Exceptions, Watchlists, Rules, and Caches, which composes them

`Requests` is what administrators' requests share: each thread has a label
(`pc`) and goes from `Arrive` to `Answer`; `RequestsRestart` ends them all. The
three modules above it give the steps of their handlers.

- Exceptions: a handler changes the table (`AddException`, `DeleteException`),
  reads all of it (`load_exceptions`, under the database lock) and swaps the
  cache (under the cache's).
- Watchlists: entries are added one by one after one count against the cap, an
  entry is toggled or deleted, then the matcher's tables are read and swapped.
- Rules: validation (tactic and technique, playbook steps, mapping), files that
  are opened, which empties them, and then written; `load_rules` as it walks the
  directory and appends to whatever list `_rules` names at that time; and
  `evaluate` as it walks the list it found. A `None` in the list (an empty file)
  raises.
- Caches adds the watchlist match that follows `evaluate`, and restarts.

`Catalogue` is the abstract specification of both caches: a change, and later a
refresh that installs the table as it was at some time since that change.
`ExceptionsFresh` and `WatchlistFresh` say, by `INSTANCE Catalogue WITH`, that
Exceptions and Watchlists implement it: the table maps to the rules that have
exceptions, or to the active entries, the cached table to what `evaluate` or the
matcher is served with.

### Decoders, Ingest, Tailer, Upload, Listeners, and Delivery, which composes them

- Decoders: as for rules, a dictionary instead of a list; two files may name one
  source and the file read last wins. What is written to a file that another
  request unlinked after it was opened goes nowhere (`Lost`). A line is decoded
  or not: what a decoder extracts is left out.
- Ingest: a call (single line, file, CSV, bulk, or a line off a socket) is served
  line by line: decoded, stored, then evaluated (`Serve`, `Fail`). An error is
  counted and kept up to a cap, or ends the call, as each endpoint has it; a CSV
  decoder that raises ends it with a 500 (`Raises`), after the rows before it were
  stored. A call whose client left is served to its end.
- Tailer: the file is renamed and made again while the daemon still writes to the
  old one; the program reads to the end, looks whether the path names another
  file, and sends each line at most three times (a 422 ends it at once, a lost or
  late answer does not).
- Upload: batches, retries, and the file of rejects made from the server's line
  numbers, with a header that goes before each batch of a CSV file and with
  lines that the server splits further than the program does. A batch that was
  answered 500 is sent again, rows that were stored included, and rejected when
  attempts run out.
- Listeners: UDP and TCP lines with their allow list and size limit, each
  handed to a pool, and bulk requests of Filebeat. Over TCP a foreign line closes
  its connection, and so does one that does not fit the reader's 64 KiB
  (`Overrun`), which nothing counts.

The parts meet in the server only. A behaviour has one program or socket
(`scenario`), beside requests that change decoders, failures and restarts; the
list of scenarios in MCDelivery says how many of each. `RowSources`, `Foreign`
and `Pieces` say which lines a decoder or program treats in the special ways
above.

### Triage, Baselines, Sandbox, Assistant, and Desk, which composes them

- Triage: `patch_alert` looks up the alert, reads the table, writes both fields.
  `given` is what the table would be if each patch wrote the fields it names,
  and the others only where they were written since it read the table.
- Baselines: a round of the job, source by source (count, read, report, write
  back), beside resets and acknowledgements. Mean and m2 are kept as exact
  numerators, so that Welford's update can be compared with the sums it stands
  for.
- Sandbox: the lock with its limit, the worker with its limit, the wait for the
  worker when its pool is left, and the MCP tool that uses the connection with
  neither.
- Assistant: the three critical sections of a save, the two of a call, and the
  sliding day of the rate limit with its clock read before its lock.

They share threads and the database lock, no tables; a behaviour of Desk is
within one of them (`area`).

## 3. What TLC checks

| run | module | distinct states | shows |
|---|---|---|---|
| suppression | MCSuppression | 2.9 M | windows, exact counts, no firing forgotten, mutes justified |
| detection | MCDetection | 3.6 M | firings explained, opened sequences fire, bursts never missed |
| alert_file | MCAlertFile | 3.4 M | notified implies written, how a part can be replaced |
| lockout | MCLockout | 1.0 M | spacing of attempts, harmless eviction |
| accounts | MCAccounts | 0.4 M | no update lost, revocation, roles of tokens, last superadmin, with a fault at any statement and each within its limits |
| integrations | MCIntegrations | 0.3 M | nothing fetched is skipped, runs end, manual runs start |
| retention | MCRetention | 2.4 M | nothing lost without overlap, a run drains |
| cases | MCCases | 2.1 M | the timeline accounts for links and status, a deletion leaves nothing behind |
| caches | MCCaches | 1.3 M | overlapping loads lose no rule, an evaluation keeps its list, both caches implement Catalogue |
| delivery | MCDelivery | 0.3 M | what became of a line agrees with what the programs count and write; lines settle |
| desk | MCDesk | 0.9 M | triage as its patches leave it, baselines of samples, own rows, keys stay home, calls capped |
| scheduler | MCIntegrations | violation | an integration is polled once and never again |

The violation is a disagreement of the code with its documentation, in
`PROJECT.json`, `findings`.

Other places where the code and its documentation part, met while modelling; the
models follow the code and no run is about them:

- `docs/rules.md:79`, a correlation rule "fires when a sequence of steps occurs
  from the same entity within a time window": a sequence whose start falls into
  the life of an older entry is missed when that entry expires before the last
  step (first step at 0 and 1, last at 2, window 1). `OpenedChainsFire` is what
  holds.
- `docs/rules.md` gives correlation steps a `count`, which `_check_step` does
  not read: one event per step is enough.
- `docs/rules.md:53`, a threshold rule "fires when a field-matched event occurs
  at least `threshold_count` times": `operator` decides which event triggers it
  (`rules/engine.py:168`), but the count is of events whose field equals the value
  (`storage/duckdb_store.py:259`), so under `gte`, `contains` and the like a burst
  is missed unless enough of it equals the value. `ThresholdNotMissed` is of
  events that trigger and count.
- `docs/rules.md:70`, a threshold rule with `source: "*"` "counts matching events
  across all sources": it is never evaluated, as only correlation rules are
  where sources differ (`rules/engine.py:148`).
- `docs/api-reference.md:352`, deleting a case deletes its playbook steps:
  `delete_case` leaves them. `NothingLeftBehind` is of links and comments.
- `docs/api-reference.md:359`, system comments on "every link/unlink/
  status-change action": of two patches that overlap, one that finds its status
  set already adds none (`StatusTold` is what holds), and `create_case` adds
  one for every alert id it is given, also for one that is given twice.
- A patch with a `resolution` but no `status` may set any text as resolution
  (`cases/router.py:200`), and reopening a case keeps its `closed_at`.
- The repository's `README.md:30`, an append-only alert log with rotation: two
  threads that both find the file full rename it twice, and the second rename
  may replace a part (`alerts/file_writer.py:51`). `ReplacesOnlyStale` is what
  holds.
- `docs/api-reference.md:52`, logout stops every token at once: an update that
  read the row before writes the epoch it read plus one (`bump_token_epoch` does
  the same, `storage/duckdb_store.py:907`), so the epoch can fall back to that of
  a token revoked meanwhile. `RevokesUnlessRaced` is what holds.
- `docs/api-reference.md:953`, 409 if an update would take away the last
  superadmin: an update, logout or password change that fails or is killed
  between DELETE and INSERT takes the account with it
  (`storage/duckdb_store.py:888`), the last superadmin's, too; and the next start
  makes one only where no account is left (`storage/duckdb_store.py:959`). A name
  taken between check and INSERT answers 500 instead of the 409 of
  `docs/api-reference.md:946`, and an update that renames to it deletes the
  account. `UpdatesKept` and `AloneKeepsSuperadmin` are what holds.
- `docs/integrations.md:274`, the cursor is the most recent event's time, "to
  avoid duplicates": the driver reads one page of what may be many and moves its
  cursor to the newest event on it
  (`integrations/drivers/google_workspace.py:41`), so older ones on other pages
  are never pulled, nor those that appear late. `NothingSkipped` is of what was
  fetched.
- `docs/integrations.md:152`, the S3 driver "will resume from the most recently
  modified object": it records that time and lists from the beginning each time,
  until it has a thousand records (`integrations/drivers/aws_cloudtrail.py:43`),
  so it fetches the first ones again and never those beyond.
  `docs/integrations.md:153`, the cursor of CloudWatch Logs: it is stored as a
  number of milliseconds, which the next pull takes for a date, and fails.
- The repository's `README.md:169` allows Python 3.11, where `wait_for` runs a
  driver as a task of its own and two runs can overlap; the image is 3.12.
- A CSV row on which the decoder raises ends the request with a 500
  (`ingest/router.py:73`), after the rows before it were stored: a retry stores
  those again.
- A TCP line beyond the reader's 64 KiB closes the connection
  (`listeners/syslog.py:95`) and is in neither count of dropped lines.
- `docs/configuration.md:45`, old events are "archived and removed": two
  archivers choose one file name from the number of files
  (`retention/archiver.py:31`), and one file replaces the other.
  `KeptUnlessOverlap` is what holds.
- `docs/integrations.md:332`, "nothing is silently dropped" by the batch upload:
  the server reports a capped number of errors, and a line with a form feed is
  several for the server. `RejectsComplete` leaves these out.
- `query/router.py:50`, one sandbox query at a time: the MCP tool's queries run
  beside it, on the same connection. `query/router.py:12`, every execution is
  audited: those that fail and the tool's are not. `mcp_server/server.py:278`,
  queries time out: only the endpoint's do.
- `ai/config_store.py:60`, a key never reaches another provider: provider and
  key of one call are two reads (`KeysStayHome` is what holds).
- `docs/api-reference.md:475`, "acknowledge or un-acknowledge a violation": with
  `acknowledged: false` the violation is acknowledged as well.
  `docs/api-reference.md:481` resets by `DELETE /baselines`, the code by
  `DELETE /baselines/{source}`.
- `docs/decoders.md:3` and `docs/architecture.md:118`, a decoder file that is
  dropped into the directory is hot-reloaded: only a change by the API, or a
  restart, loads it.

### Bounds

- Two threads per component (three requests in lockout, two ingest threads and a
  baseline thread in alert_file): every hazard above needs two; the third shows
  that two attempts can run ahead of one.
- suppression: two keys, four firings, windows of two ticks in four: a window
  opens, counts, closes and opens again, with a restart at any point.
- detection: four events, three steps, a window of one tick in three, threshold
  two, two kinds of event that trigger the rule and one of them counted: entries
  are opened, advanced, expired, completed; a firing can follow another event of
  the same chain. One captured value: entries of other values touch nothing but
  their own.
- alert_file: files of two lines, five alerts, one line a second: two rotations,
  with lines on either side, and a name taken twice.
- lockout: two attempts lock, for 1, 2, then 3 s (the cap), over eight seconds:
  a lock is reached, waited out, reached again, capped, evicted.
- accounts: five requests over two ids and two names, and one fault at any time
  (`MaxFaults`): a login, two or three overlapping writes and a token used after
  them, one of them failing at any of its statements.
- integrations: two integrations, one of which logs two events, each perhaps
  late; pulls that begin no later than the last of them; one waiting manual run;
  restarts at any time (none in scheduler).
- retention: three events, batches of two, one crash or failed write.
- cases: six requests on two threads around one case with one item, named once
  or twice in a request: a creation with alerts, two overlapping patches or
  links, a deletion and what still runs after it. Items and cases never meet in
  the code, so one of each shows what several would.

- caches: three requests of two administrators around one event, two rule files
  (one built in), one of which a document may make invalid, a cap of one entry
  and batches of two: two loads overlap while an evaluation walks, an older read
  swaps after a newer one, a batch meets the cap.
- delivery: eleven scenarios (`MCScenarios`): two lines over three log files with
  a fault, one line with three faults (all attempts fail), and so on; an upload
  of four lines in batches of two with three faults; nine arrivals, over UDP
  and two connections; a CSV decoder that raises at one line.
  A second program would only add calls, of which two are served at once.
- desk: four requests or counts of three threads; one alert, two slots, counts of
  0, 4 and 9, two samples before a deviation is looked for; two providers, one of
  which needs a key; a limit of one call a day over two days.

### Fairness

Integrations and Delivery have liveness. In Delivery the threads of the server,
the program that follows the file and the end of a rotation that has begun go on
(weak fairness): nothing in the code waits for anything else there. Nothing is
assumed of failures or restarts, whose number is bounded; under that,
`LinesSettle` says that a line the program can find is sent, skipped or given
up, unless the program ended or the file was rotated away twice before it looked.

In Integrations, `FairSpec` assumes what an event loop does: a run
that has started goes on (weak fairness of its steps), the scheduler's own steps
go on, a sleep of 60 s ends, and a task that is ready again and again gets its
turn (strong fairness of `List` and of `StartManual`, which compete for the loop;
asyncio queues ready tasks first in, first out). Nothing is assumed of services,
of the administrator, or of failures to stop. The counterexample of `scheduler`
is under the same fairness.

Deadlock is not checked: every bound ends a behaviour, and a quiet server may
stay quiet.

## 4. What is proved

For every set of threads and keys, every value of the constants that satisfies
the named ASSUMEs of the modules (types of the constants, finite sets where the
code has finitely many of a thing), and every interleaving. Lines off the
sockets that are accepted, and those of a bulk request, are assumed to be told
apart, so that copies of one can be counted. A run shows a
property on a small instance, the theorem shows it for all. Each proof has an
inductive invariant, a lemma per action or kind of action that says what becomes
of it, and a theorem per property.

**AlertProofs** (Suppression, AlertFile)

- The gate: the types (`TypeCorrect`) and, from `IInv`, `QuietWindows`,
  `SuppressedCountExact`, `CountedOnce` and `NothingForgotten`;
  `MutedByOwnFiring` from `MuteInv`. `IInv` says that `until` of a key lies past
  the window of every call that passed in this process, that the pending count is
  the number of firings held back, all older than `until`, and that running calls
  claim nothing that others do.
- The log: from `LogInv`, `NotifiedAreWritten` and, as an action property,
  `ReplacesOnlyStale`. `LogInv` says that an alert still in the hand of
  its call has no line, and that a file made after a rotation holds, within the
  second of that rotation, only lines of this second, so that it is not full: a
  part's name can be taken only by a thread that renames a file it did not
  measure.

**AuthProofs** (Accounts, Lockout)

- `AInv` says that tokens, and rows that a login is about to make a token from,
  are of the past of the row they name: epochs up to its own, and its role where
  the epochs agree, unless the account was raced. A request carries a row it
  read through several steps, so the properties alone are not inductive. An
  account may be gone where `torn` names it and is then gone wholly, and one
  torn stays so, as ids are not used again. From it `UpdatesKept`,
  `RolesCurrent` and, as an action property, `RevokesUnlessRaced`.
- `AloneKeepsSuperadmin`, an action property, from `AloneInv`: what a request has
  checked that no other disturbed is still so, whether it is another superadmin
  that stays or a name that is free. Names are apart, so that the INSERT of
  such a request finds its name free: it can only fail by a fault, which the
  property names, and `UpdatesKept` rests on it as well. A restart keeps all this,
  whatever rows it lost.
- `LInv` says that an entry's count is the number of admitted attempts since it
  was made, that `last_seen` is the last of them and that `locked_until` is its
  time plus the back-off once the limit is reached. From it `AttemptsSpaced`,
  `LocksJustified`, and, as action properties, `EvictionHarmless` and
  `LockNotExtended`.

**CachesProofs** (Exceptions, Watchlists, Rules, their composition)

- Exceptions and Watchlists implement Catalogue, alone and within Caches.
  `ExcInv` and `WatchInv` say that what a writer has read and not yet swapped in
  is one of the tables since its change. Initial states map to initial states; a
  change maps to `Change`, a swap to `Refresh`, a restart to `Restart`,
  everything else to a stutter.
- `RulesComplete`: `RulesInv` says that every rule file is in the list, or that a
  load will come to it or holds what it says, or that a write of it is under way
  and a load follows; and, while no two requests overlapped, that what the load
  has appended, holds and has yet to read are the files, in order. The second half
  needs that a walk of the directory is sorted and stays so when files come and
  go between its steps.
- `UndisturbedByReload`: `WalksInv` says that the list of an evaluation that
  began in a quiet moment is as it was: a load names another list before it
  appends.

**CasesProofs** (Cases): `CInv` says that the status of a case, and the one a
running patch found, was told or is about to be; that requests have nothing to
tell before their work is done; and that of a case that is gone there is no row,
and no request, unless its deletion was raced. A patch that finds its status set
already stays silent: only what it found tells that somebody else speaks. From it
`StatusTold` and `NothingLeftBehind`. `LinksTold` from `LinksInv`, which adds
that an unused case has no trace and that a creation links when it has told all
else. The comments there are and those that running requests have left to add are
counted together, over all threads; a step moves that count by what its own
thread does, and as much as it moves the links (`BalanceMoves`, from the
cardinality of a union of disjoint sets).

**DeliveryProofs** (Decoders, Ingest, Tailer, Upload, Listeners, their
composition)

- The followed log. `TailInv` says that a line is in one place of one file, that
  what the program has passed is settled or in its hand, and that a file it left
  it left at its end; from it `OpenedAreRead`. `SendInv` says what a call tells
  of its line at each step, and that the copies in the store and those that
  pending calls may still add are no more than the failed attempts and the one
  under way: an attempt that timed out leaves a call behind that may store the
  line later, so the stored copies alone cannot be bounded inductively. From
  both, `FollowInv`, follow `FatesExplained` and `CopiesExplained`.
- The sockets and bulk requests. `ListenInv`: a line that was taken is stored
  once, or still ahead of its call, or its insertion failed, and only one of
  these. From it `TakenAreStored`.
- `DecodersSettle`. `DecoderInv` says, for every file, that its source has a
  decoder or that some load will come to the file or holds what it says; and,
  while no two requests overlapped, that what the load has put is what the files
  it has read say, later ones over earlier. Two halves, since a dictionary that
  overlapping loads fill need not be what the files say, only lack nothing.
- `RejectsComplete`. `UploadInv` says that the lines of the batches before the
  one at hand are stored, rejected, dropped or left out by the property; and
  that what the batch's call has done with is stored, named by an error, beyond
  the cap, or the header. An answer of 500 accounts for nothing: the lines of
  its batch are rejected after the last attempt. It needs of the decoders that
  only an upload with `--csv` meets one that takes the first line for a header,
  and of sequences where the lines of a batch lie in what is sent.

**DeskProofs** (Triage, Baselines, Sandbox, Assistant, their composition)

- `TriageKept`: `TInv` says that the table is what was given, and that what a
  patch has read is still so but for the fields in `behind`.
- `OwnRows`: `SandboxInv` says that a worker belongs to a query under way, that a
  request's query with a worker holds the lock, and that all who execute at one
  time have met; who has met nobody finds its own rows at every stage.
- `KeysStayHome`, `CallsCapped`: `KeysInv` says that keys in hand are their
  providers' own, and that who was not crossed by a save has the row as it is;
  `LimitInv` that the calls of a day counted in time are within the limit, and
  that those counted late are, with the threads that may still be late, fewer
  than the threads.
- `BaselineOfSamples`, `DeviationsReported`: `JobInv` says that who is about to
  take in a count far above the baseline it has read has reported it. The proof
  has the algebra: `n * m2` with the exact numerators is the sum of squares times
  `n` less the square of the sum.

**DetectionProofs** (Detection)

- `ThresholdNotMissed`: `DInv` says that a running call has an event of its own
  that nobody evaluated yet, that its row is in the store once the insert is
  past, and that everything evaluated is stored under its own id. The evaluation
  that comes last in a burst finds the whole burst in its window (`BurstCounted`,
  an injection from evaluations into rows), so it fires. Which kinds trigger and
  which are counted are constants that need not agree.
- `FiringsExplained`, `OpenedChainsFire`: `CInv` says that an entry at step k
  has the first k + 1 events of a chain behind it, from the time it was opened
  and without a firing since; and that where an entry was opened and neither
  fired nor ran out it is still there, at least as far as any chain from there. So
  an entry fires only for a chain, and the event that completes a chain finds the
  entry waiting for it. Neither half is inductive without the other.

**JobsProofs** (Integrations, Retention)

- `CursorInv` says that what a recorded cursor has passed was ingested or left
  off a page, that what a run has taken off its page is in the store and its
  cursor no further than that page, and that an error returns to a cursor below
  which the same holds. From it `NothingSkipped`, whatever pages the services
  give, for failures at every step, manual runs, edits and restarts.
- `RInv` says that no number of a file exceeds their count, so that the next name
  is free, and that without overlap a run that is about to delete rows has them
  in its own file. From it `KeptUnlessOverlap`.
- `RunDrains`, an action property, from `DrainInv`: a run with fewer rows than a
  batch that was not cut short has every row there is before its cutoff, whatever
  others insert or delete meanwhile. A query that returns fewer rows than it may
  has returned them all (`FewAreAll`): the first it left out would have fewer
  before it than were returned. Overlap does no harm here.

Running sums, sorted walks and longest chains ask for induction over data. The
library's induction theorems take an operator, which the provers cannot
instantiate; where a fact of this kind is proved here it is by a least
counterexample (a set of naturals that is not empty has a smallest element, from
WellFoundedInduction).

What stays with TLC:

- liveness under fairness: `RunsEnd` and `ManualRuns` of Integrations,
  `LinesSettle` of Delivery, which the prover cannot reach. Every other property
  of a passing run is stated by a theorem;
- the disagreement of `scheduler`, which is liveness as well.

## 5. What is not modelled

- Audit log and security feed: inserts that nothing decides on, and a call of
  `process_line` like any other.
- Dashboards, entities, event search, reports, saved searches, SBOM, GeoIP, the
  other MCP tools: views over state that is modelled, and rows written in one
  critical section. The fidelity scores (`dashboard/fidelity.py:68`) keep
  unbounded deques of one time per alert, which nothing else reads.
- Contents: what a decoder extracts, conditions of stateless rules, what a SQL
  statement may say, prompts and answers of the assistant, notification
  transport, hashing and encryption. UI and nginx.
- Backup: the database is exported before the alert log and the rule files are
  copied, so a backup is no snapshot; nothing in the code says that it is.
- Of modelled parts: editing a comment's body and `closed_at` of cases, and
  partial lines at the end of a followed file (lines are written in one piece
  here). `logrotate` with copytruncate, where the file shrinks under the program,
  is not among the rotations. A CSV upload without `--csv` loses a row of each
  batch to the header the server expects, which is how it is used, not a state of
  it. The watchlist's cap can be exceeded by as many entries as there are
  requests between count and insert; nothing depends on it.

What would come next: a throttle as an abstract specification of Suppression, and
the proof that it is implemented; the alerts of the watchlist composed with
AlertFile.
