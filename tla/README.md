# Verification of the Null City residents dashboard

The repository is a TypeScript monorepo: a Bun server (`packages/server`) that
carries the city's economy, watches residents through an agent gateway and
proxies the game; a print bridge (`packages/print-bridge`) that runs printers at
the event; and browser clients. What can go wrong and is hard to test lies in three
places: **points and onions** that people earn, spend, burn and are credited for,
**prints** that are paid, queued and started, and the **live view** of residents over
sockets, streams and iframes that come and go. Everywhere handlers interleave at
every `await`, external services answer late or not at all, and processes die.

Modules are TLA+; TLC checks small instances, and TLAPS proves the theorems for
every value of the constants. `PROJECT.json` lists components, runs, mutants,
the line map, findings, hazards and theorems.

## 1. Inventory

Paths are under `src/packages/`. "Hard" names what a test would hardly reach.

### The city (`server/src/city`)

| component | state | operations | correct when |
|---|---|---|---|
| point ledger (`memory-store.ts`, `postgres-store.ts`: `appendPointLedger`) | an account per user and resource (AP, GP); a list of entries, unique per (user, resource, source) | post a delta under a source; list | never overdrawn; balance = history; one entry per source; a retry moves nothing; an entry handed out stays |
| support with onions (`routes.ts`: `runOnionAttentionGrant`, `onionAttentionGrantStatus`, `onion-callback`; `attention-grant.ts`: `initiateOnionAttentionGrant`, `settleOnionAttentionGrant`) | an intent per user and idempotency key, its state and burn request; landing's requests; City's credits | POST (consent route, real mode), landing decides, callback, poll | one burn gives at most one credit, to the one who burned; outcome true and final; burned onions get settled; no two pending burns for one resident |
| support with the stand-in debit (`runAttentionGrant`) | an intent per user and key; the ledger; City's credits | create, preflight, credit, debit, settle, replay | points leave only for credited attention; a settled grant was paid and stays settled; a grant ends |
| check-in awards (`checkins.ts`) | audit rows per check-in; the ledger | sync: one posting per check-in, then the audit row | an audited check-in was awarded; a sync repairs what an earlier one left |
| soul proposals and contributions | proposals with a progress counter, contributions per key; the ledger | propose, contribute | counter = sum of contributions = points debited; ready exactly at the threshold |
| print requests | a request's status, quote and payment; the ledger | create, quote, confirm, queue | a payment shown is real; a paid request is not charged again; a debit ends as a payment shown |
| print queue | jobs: queued, claimed | enqueue, claim (`FOR UPDATE SKIP LOCKED`); status and heartbeat, which store nothing | a job goes to one bridge, is started once, ends once |
| resident trades | trades per key; the ledger | buy | one debit per trade, and a row for each |
| identity, profiles, inbox, feedback, residents, library | single rows | reads and upserts | - |
| landing session, game tickets | none (a lookup per request, a signed ticket) | - | - |
| clients of landing, oniondao, nullcity-control | none | HTTP calls that may fail or lose an answer | - |

Every handler first runs `requireCityUser`, which upserts the user and creates
the accounts, so a posting always finds its account. Contributions, payments,
trades, awards and stand-in grants all meet in the point ledger: it is the
component the others are composed with. Hard: handlers interleave at awaits;
`appendPointLedger` is one step in memory and a snapshot, a row lock and a unique
index in Postgres; landing's callback races the browser's poll; idempotency keys
come from browsers; nothing is transactional across two store calls.

### The rest of the server (`server/src`)

| component | state | hard behaviour | correct when |
|---|---|---|---|
| agent gateway client (`gateway.ts`) | the current socket, pending requests with timers, feeds, sessions with a window of packets | close event of a replaced socket; answers after their timeout; a window that overflows | who asked is answered; a feed marked attached is live; a late viewer finds a map in the window |
| TTL cache (`ttl-cache.ts`) | a promise per key with an expiry | a failing load whose entry was replaced; expiry from before the load | loads are shared; a failure is not kept |
| RuneScape proxy (`index.ts`) | a queue before TCP opens, two sockets | close of either side while the other opens | bytes in order, none lost, both sides closed |
| event-public API (`event-public.ts`) | two JSON files | read-modify-write without a lock; crash between the writes | one payment per day and patron |
| runtime repository, economy, readiness, storyteller, overviews, rs6 models | caches only | - | pure reads and conversions |

### The print bridge (`print-bridge/src`)

State: the active job and two timers. Operations: a tick on a timer (heartbeat;
then claim, download, slice, upload and start a job, or report on the active one),
and the operator's pause, resume and cancel. Hard: ticks overlap when slicing
outlasts the interval; a command lands inside an await of a tick; a report fails
after the printer started; the bridge restarts while its printer goes on. Correct
when one print at a time is on a printer and every started job is reported to the
city as it ended.

### Browser clients

The page that observes a resident listens to the session's stream (`web/src/App.svelte`)
and passes its packets to a bridge (`observer/src/index.ts`), which posts them to
the game client in an iframe (`web/src/spectator.ts`). State: the open stream, the
session shown, whether a document is started and loaded, the packets sent. Hard:
documents come and go with the page, their ready and load events come in any
order, messages are lost on a document that does not listen. Correct when a late or
new document gets what it needs to draw. The rest of the dashboard, the bridge's UI
and the game client's shell present state; their retries and polls appear in the
models as environment. `game-client/src/runtime/upstream` is vendored.

## 2. Modules

| module | models | builds on |
|---|---|---|
| `PointLedger` | `appendPointLedger` as one atomic step (the in-memory store), and every ledger property. It is the **abstract specification** of the ledger | - |
| `PostgresLedger` | the same method as the SQL statement runs it | extends `PointLedger`, and implements it |
| `StandInGrant` | `runAttentionGrant`, `debitStandIn`, other postings | extends `PointLedger`: a debit is a step of the ledger |
| `OnionGrant` | both POST entry points, landing, callback, poll, settlement | - |
| `RequestHandlers` | requests as chains of store calls, a posting among them, and crashes | extends `PointLedger` |
| `SoulFunding`, `ResidentTrades`, `CheckinAwards` | contributions, trades and check-in syncs, a component each | extend `RequestHandlers` |
| `CitySpending` | the three and the admin's postings over one ledger | extends them |
| `PrintOrders` | create, quote, confirm, queue | extends `RequestHandlers` |
| `PrintJobs` | what the pipeline promises of a job: an **abstract specification** | - |
| `PrintQueue` | City's jobs, claims and the reports it is sent | - |
| `PrintBridge` | ticks, operator, printers, restarts | extends `PrintQueue`, implements `PrintJobs` |
| `TtlCache` | `getOrCompute` for one key | - |
| `GatewayClient` | sockets, requests, residents' feeds | - |
| `ResidentRows` | the polled rows of the residents | extends `TtlCache` and `GatewayClient` |
| `SpectatorView` | a session's packets from the gateway to the iframe | - |
| `LiveViewProofs` | theorems about the cache, the client and the spectator's view | extends `ResidentRows` and `SpectatorView` |
| `PointLedgerProofs`, `PostgresLedgerProofs`, `StandInGrantProofs`, `OnionGrantProofs`, `PrintOrdersProofs`, `PrintBridgeProofs`, `CitySpendingProofs` | theorems and proofs | the modules they name; those over the ledger extend `PointLedgerProofs` |
| `MC...` | constants of the instances | - |

Definitions marked "Slip" are plausible bugs of the operation that follows them.
`PROJECT.json` names, for every property of a passing run, the slip that breaks it.

### `PointLedger`

`balance` is `point_accounts`; `ledger` holds each account's rows of
`point_ledger_entries`, oldest first, which takes the place of the store's global
list and its source index; `reply` is what the caller's last call returned or
threw. `AppendPointLedger` is the method, with one action for each way out:
`Invalid` (zero delta), `Replay` (the source is recorded: its entry is returned
unchanged), `Refuse` (insufficient), `Post`.

### `PostgresLedger`

The method is one statement at READ COMMITTED, with three moments that differ
from the atomic step: the CTE `existing` is read from the snapshot taken when the
statement starts; the `UPDATE` waits for the row lock and re-checks the newest
version of *its own row*, and nothing else; `INSERT ... ON CONFLICT DO NOTHING`
meets the unique index as it is by then. So `Begin` keeps what the snapshot says
in `stmt[c].existing`, and one of `CommitReplay`, `CommitRefusal`, `CommitPost`,
`CommitConflict` ends the statement: the row lock is held from the update to the
commit, which makes everything after the snapshot one step of that account. A
snapshot with too few points ends the statement at once (`RefuseAtSnapshot`): its
scan finds no row to lock. `Rollback` is a lost connection or a crash.

### `OnionGrant`

One step is a run from one await to the next. `posters` holds the POST handler of
each browser session (`PostConsent`, `PostReal`, `CreateIntent`, `CreateRequest`,
`LoseRequest`, `Record`), `settlers` the handlers of callbacks and of each
intent's poll (`Callback`, `PollRead`, `PollStatus`, then `Lookup`, `Reject`,
`Claim`, `Credit`, `Settle`, `Fail`). Landing is external: it creates a burn
request per external id, or returns the one it has; an outcome is final; its
callback may come twice, late or never. City is external: a credit takes effect or
not, and its answer may be lost. `credits` counts the `creditAttention` calls City
took for an intent. City is sent the key and may recognise a repetition; the
settlement claims intents so that it need not, and that is what is checked. Amounts
are left out, which hides what reuse of a key with another amount does (listed as
a hazard).

### `StandInGrant`

`handlers` holds where each run of `runAttentionGrant` is; each step is one call
of the store or of City. The debit is `PointLedger`'s `AppendPointLedger` under
the grant's key, so what is proved of the ledger's steps holds of the debits too.
`OtherPosting` is everything else that moves the account. In this path City is
idempotent on the key: `credited` holds the amount a key was credited.

### `RequestHandlers`, `SoulFunding`, `ResidentTrades`, `CheckinAwards`, `CitySpending`

`handlers` holds, for each request the server works on, the store call it is about
to make, its order and the amount it read. A contribution is a lookup
(`Contribute`), a debit, the row, and the `UPDATE` of the proposal, which raises the
counter and decides the status in one statement; a trade is a lookup, a debit and a
row; a sync (`SyncLandingCheckins`) repeats a posting and an audit row for each
check-in landing lists, in any order; it keeps what landing `listed` and what it has
still `todo`. `PostThen` makes a debit a step of
`PointLedger` and ends the request when it is refused. `Crash` ends every request,
or one of them (a store call that throws), and keeps what is stored. Looking a row
up under the caller's key is a guard: a request answered from the row changes
nothing.

### `PrintOrders`

`prints` is the request's status, quote and payment; `offered` remembers the quotes
it ever had; `jobs` counts rows of the queue. A confirmation reads the request and
keeps the quote it read, debits it, and stores the entry without looking again. The
admin's statements (`UpdatePrintQuote`, `EnqueuePrintRequest` and `MarkQueued`) come
in between, in any status, as the code has it.

### `PrintJobs`, `PrintQueue`, `PrintBridge`

`queue` is City's column, which only ever becomes queued and claimed; `told` is what
bridges reported, which City answers and does not store. `active` is the bridge's
field; `co` is where each coroutine is (a tick, or an operator's command): between
its steps every other coroutine may run, which is what `await` allows. `Reread` is
the access to `active` after an await. `StageFails`, `ReportFails`, `ClaimFails` are
calls that fail with or without their effect. A claim that finds nothing ends the
tick. A start the printer refuses (`started.ok`) is a `StageFails`: it makes the same
report and leaves no active job either. A tick that rejects (`ReportFails`) just ends;
nobody handles that rejection, which may end the process, and that is the same fault
followed by `Restart`. The printer is the dry-run adapter's:
an upload sets its current job, a command is refused for another job than that.
`starts` counts how often a printer was started on each job. `PrintBridge` maps to
`PrintJobs` by `Phase`: ended once an end was reported, started once the printer was,
else what the queue says; the holder and `starts` are the same in both.

### `TtlCache`, `GatewayClient`, `ResidentRows`

A caller of the cache awaits a computation; `entry` is the one in the map, `fresh`
whether its window is open. Time appears as `Expire`. In `GatewayClient`, `ws` and
`connected` are the fields; each socket is connecting, open, or closing until its
close event comes, and several exist because a socket that is not open is replaced
at once. A request waits for the handshake (`connect`), for its answer (`pending`),
or is settled. `Disconnect` is what any error or close event does, whichever socket
it belongs to. In `ResidentRows` a computation lists the residents through the
gateway, awaits the attach of feeds, and resolves or rejects its promise.

### `SpectatorView`

Packets are numbered as they come and have a kind (`map` for the bootstrap
opcodes, `delta` for those a replay leaves out). `session` is the gateway's entry
with its window (`AppendSpectatorPacket`); it is `known` from the first observe on, and
takes packets after a disconnect as well. `events` is what the stream has under way.
`Observe` asks the gateway and opens the stream; `Reopen` opens it for a session that
was found connected in the page or in City's list, without asking again.
`pending`, `started`, `loaded` and `sent` are the bridge's fields, `Flush` is
`flush`. The iframe's document is loading until its script listens and posts
ready; a message that arrives before that is lost; `readies` may outlive their
document, `loadDue` is a load event that comes when it pleases.

## 3. Runs

| run | instance | shows |
|---|---|---|
| `pg_exclusive` | 2 clients with sources of their own, 1 account, 3 sources, deltas -1, 0, 1 | with no source in flight twice, the Postgres statement implements `PointLedger` (`Spec` as a property) and balances are reconciled |
| `pg_shared` | 2 clients, the same 3 sources | what remains without that assumption: `Solvent`, `OnePostingPerSource`, `ReceiptsAreHonoured` |
| `pg_replay` | 2 syncs of one user post the same award | **violation**: the balance moves twice for one entry |
| `onion` | 2 users with the same key text on the two routes, callback, polls, 1 lost answer, 1 crash | one burn, at most one credit, to the one who burned; the claim is exclusive; outcomes are true and final; a burn is settled |
| `onion_two_keys` | 2 sessions, a key each | **violation** of the double-burn guard: both read before either writes |
| `stand_in` | 2 grants (2 points, 1 point) with a key each, a third client that awards 2 and spends 1, 1 lost credit, 1 crash | points leave only for credited attention, a settled grant was paid and stays so, a grant ends |
| `city_spending` | 1 account, 1 proposal with threshold 3, 2 handlers (contribution of 2 and syncs; contribution of 1 and a trade), 2 check-ins, a grant of 2, 1 crash | the counter is backed by paid rows; the status changes exactly at the threshold; rows have entries; debits have rows unless a crash came between; a sync leaves points and audit row for every check-in it listed |
| `print_orders` | 1 request, 2 tabs with a key each, an admin who quotes 1 or 2 and queues at most twice, 1 crash | payments shown are real, a paid request is not charged again, a debit ends as a payment shown |
| `print_bridge` | 2 bridges with one tick each, 1 operator, 2 jobs, 1 failed call or broken print, 1 restart | implements `PrintJobs`; started jobs are watched and end; no print is started over another |
| `bridge_overlap` | 1 bridge, 2 ticks at a time, no faults | **violation**: a started job is forgotten |
| `resident_rows` | 2 pages, 1 resident, 2 computations, 3 sockets at a time, 1 lost socket | attached feeds are live; computations are shared and failures not served; every page is answered |
| `spectator_view` | window of 2, 4 packets of 2 kinds, 2 events and 2 ready messages under way | a late document is given a map; what the page holds reaches the document shown |

Bounds, and why they are enough for what they show. Two clients, handlers, tabs,
bridges or pages: the conflicts of this code are between one that has read and one
that writes. One account, proposal, request or resident: they share nothing with
others but the ledger's sources (the theorems are for any set). Sources and
check-ins bound the history without a guard: a source is posted once. Deltas of
both signs and zero reach refusal, replay with another amount, and the zero refusal;
in `city_spending` the points that can be earned do not pay for everything, so
debits are refused too. `MaxFaults`, `MaxCrashes` and `MaxLosses` are 1: each fault
sits in a retry cycle, and a second one meets the same stored state as the first;
the checks are of one of each in one run. Three sockets are a replaced one that has
not closed, the one that replaced it, and the one that its late close event brings
about. Two jobs, one of which only one bridge may print, make a claim compete and a
bridge come back for more. A window of two packets overflows from the third, twice
in four; two events and ready messages under way let a stale one meet a new document.

### Assumptions of the passing runs

- `onion`, `stand_in`: sessions share no key (`KeysAreExclusive`; in `stand_in`
  each key is posted by one handler). A session may post its key again and again,
  each time after its last POST was answered or died. Where two POSTs of one key
  overlap, a late `Record` reopens a settled onion intent and City is asked for the
  credit again, and in the stand-in path the later run can mark failed what the
  earlier one settled. In real mode two *users* with one key share a burn request.
- `stand_in`: a key is always posted with the same amount. A grant that failed may
  still have been paid: a crash after the debit and a retry whose credit fails ends
  there, and no property says otherwise.
- The stand-in path, the consent route and the real mode share one table of
  intents; the checks assume that a user does not use one key in two of them.
- `pg_exclusive`: `SourcesAreExclusive`; `pg_shared` and `pg_replay` drop it. The
  modules over `PointLedger` take the ledger's atomic step, which is what
  `PgLedgerRefines` justifies: handlers use keys of their own and admin postings
  their own sources. The exception is a check-in that two syncs post at once, which
  is `pg_replay`; in `city_spending` one handler syncs, which the
  theorem `SyncsRepair` does not ask for. `SyncRepairs` is about the check-ins a sync listed:
  what came later, or what another sync is still working on, is not its business.
- `city_spending`: two handlers with one contribution key would raise the counter
  twice for one debit; one key on two proposals would debit once. Both are hazards.
- `print_orders`: two tabs may both debit before either payment is stored;
  `PaidForGood` begins when a payment is stored and no other is under way.
- `print_bridge`: a bridge runs one tick at a time, `bridge_overlap` drops that.
  `StartedJobIsWatched` excuses restarts, runs with a cancel (which may let go of
  another job), and two faults: a report that the job prints whose answer is lost,
  and the report of that failure. `NothingIsBumped` and `StartedJobEnds` are about runs without faults, restarts
  and cancels, since the code forgets a printer after those.
- `resident_rows`: one key of the cache and one resident; that the sockets and
  computations are taken in a fixed order is a renaming. Every resident the roster
  lists as online may be any subset.
- `spectator_view`: one session; packets can be told apart; the answer of an observe or
  of the session list comes after the stream's events sent before it and ahead of those
  sent after it (a hazard: otherwise `ReplayHasMap` fails until the next event).
  `ViewCatchesUp` excuses
  a load event that comes after ready was heard. `ReplayHasMap` says a map is kept,
  which does not say it is the newest: the code can keep an older one.

### Fairness

Weak fairness of the steps of a handler that has been entered (the event loop
runs it on; each external call answers or throws) in `OnionGrant`, `StandInGrant`
and `PrintOrders`; of the poll in `OnionGrant`: the dashboard polls while the intent
is pending. Nobody has to post, approve, deny or call back, so `BurnIsSettled` holds
through the poll alone. `BurnIsSettled`, `GrantEnds` and `DebitIsShown` excuse
crashes: the code has no recovery for an intent left `settling`, and a grant or a
confirmation is resumed only if the user retries. In `PrintBridge` the poll timer
keeps firing, a coroutine that was answered goes on and a print that runs comes to
its end. In `ResidentRows` handshakes end, closed sockets say so, requests are
answered or time out after five seconds, and continuations run; pages need not ask. In
`SpectatorView` documents load and listen, and posted messages and stream events
arrive; nobody has to observe or stay, and packets need not come. `city_spending` is
checked for safety only.

Deadlock is checked in every run.

## 4. Findings

Each is a run that TLC ends with a counterexample, in code that a document, a
comment or a test describes otherwise. Details and lines are in `PROJECT.json`.

1. `pg_replay`: two overlapping calls of one source move the balance twice, with
   one entry, and one of the two callers is told "Insufficient balance".
2. `onion_two_keys`: the double-burn guard does not cover two POSTs in flight.
3. `bridge_overlap`: a tick that starts while another prepares a job takes a second
   one; both are started and the first is reported on no more.

## 5. Proofs

From the assumptions of `PointLedger` (`DeltasAreIntegers`, `MarkersAreNotData`)
and `PostgresLedger` (`SourcesOfType`), for any sets of clients, accounts and
sources and any integer amounts:

- **`LedgerIsSound`**: `LedgerInv`, the conjunction of types, `Solvent`,
  `Reconciled` and `OnePostingPerSource`, is inductive. The parts need each other:
  that a new entry's `balanceAfter` is not negative and continues the history
  follows from `Reconciled` at the account's last entry; that a source has one
  entry follows from the lookup over a well-typed ledger. `LedgerTypeCorrect`,
  `LedgerSolvent`, `LedgerReconciled`, `LedgerPostsOnce` are its consequences.
- **`LedgerAppendOnly`** and **`LedgerHonoursReceipts`**: every step only extends
  an account's entries (`StepExtendsHistory`), so an entry once handed out stays
  (`EntriesStay`), and an answer is an entry of the ledger (`AnswerIsRecorded`).
- **`PgLedgerIsSound`**: for the Postgres statement, types, `Solvent` and
  `OnePostingPerSource` are inductive *without* any assumption about overlapping
  sources: the re-check under the lock keeps the account solvent, the unique index
  keeps the source single. `Reconciled` is not among them, and `pg_replay` shows
  why it cannot be.
- **`PgLedgerRefines`**: under `SourcesAreExclusive`, `PgSpec => Spec`. The
  strengthening is `SnapshotsAreCurrent` (what a running statement saw of its
  source is what the ledger still says: only the statement itself could change
  it) and that a statement's amount is one a caller may post and not zero. With
  these each commit is the abstract step of the same name, everything else a
  stutter; the mapping is the identity on `balance`, `ledger` and `reply`.
  `PgLedgerReconciled` follows from it and `LedgerReconciled`.

About the residents' rows, from `LossBound`, `NoSocketIsApart`, `NoEntryIsApart` and
`OneListEach`, for any pages, residents, computations, sockets and losses:

- **`CacheIsSharedAndNeverFailed`**: `CacheInv` says that a computation that runs or
  has a value, while its window is open, is the one in the map; so whoever finds the
  map empty or stale joins nothing older. It needs `StagesRun`: the gateway's answers
  settle only a computation that still runs, so a failed one never comes back.
- **`AttachedFeedsAreLive`**: a success reply attaches a feed through the socket its
  request was sent on. `SentOnSockets` says that a request under way was sent on a
  socket at all: requests are sent on `ws`, and no socket exists, so no handshake
  ends, before `ws` names one. Any socket's close or error detaches every feed.
- **`RowsTypeCorrect`** is the types of all three, from both invariants.

About the spectator's view, from `PacketBounds` and `KnownOpcodes`, for any limit of
packets, any packets, events and ready messages, in any order:

- **`LateReplaysHaveMap`** (`ReplayHasMap`) takes an invariant of four parts (`ViewInv`).
  A set of packets is *bootstrapped* when it has a map, if a map came before any packet
  of it. `WindowsInv`: the gateway's window, the one under way to the page and the
  one the bridge holds all are, and the gateway's has the newest packet; without that
  clause a window could forget a map and meet a packet that follows it.
  `StreamInv`: these windows get newer in that order. `FrameTypes` is the types. `BridgeInv`: what the
  document was given or is about to be is no newer than the bridge's window, and once no
  ready message is outstanding to a document that listens, it is bootstrapped and holds
  all the bridge counts as sent. The step that needs everything is `SpectatorReady`: it
  sends the whole window on top of what is under way, and a window that is at least as
  new brings the map.
- The lemmas behind it say what `AppendSpectatorPacket` keeps (`WindowAppends`: the window
  fits, holds the new packet, adds nothing else, and has a map if the old one with the
  packet had) and what `flush` posts (`PostsUnsent`: the packets of the window that were
  not sent, exactly). `flush` is a loop, a recursive function here; its facts are proved
  by the smallest step at which they fail (`SmallestNumber`, from the library's
  `NatLessThanWellFounded`), which takes no induction over an operator.
- **`ViewTypeCorrect`** is the types, with the limit of the window.

`PgTypeCorrect` is the types of the Postgres statements, and **`PgLedgerHonoursReceipts`**
`ReceiptsAreHonoured` for them however calls overlap: `SnapshotsAreHistory` says that the
entry a running statement saw is in the ledger, and history only grows.

`PointLedgerProofs` also holds the lemmas its callers cite: a call of
`AppendPointLedger` keeps `LedgerInv`, extends one account's entries, and answers with
an entry of its source and amount or changes nothing. `LedgerInv` is a conjunct of the
invariants of `StandInGrant`, `PrintOrders` and `CitySpending`, so their ledgers are
sound too and their runs do not check the ledger's properties again.

About the stand-in grants, for any handlers, keys, amounts, failures and crashes:

- **`GrantsAreSound`**: `GrantInv` is `LedgerInv`, the types, that a handler works for
  an order of its own, `DebitComesFirst` (who is about to settle has the debit of its
  key in the ledger) and `SettledMeansPaid`. `GrantTypeCorrect` and
  **`GrantsSettledArePaid`** follow, without any assumption about keys.
- **`GrantsPaidAreCredited`**, if `KeysNameAmounts` (a key is posted with one amount;
  the server's own key, for a request without one, names resident and amount, and a
  client makes a key for each grant): `PaidMeansCredited` needs `CreditComesFirst`, that a handler at its debit has
  its key credited, and `RecordedIsCredited`, that every debit of a key has.
- **`GrantsStaySettled`**, if `KeysAreExclusive` (which two sessions without keys of
  their own do not meet; a hazard says what happens): `UnderwayIsOpen` says that the intent
  of a running grant is not settled, which only its own handler changes.

About the support with onions, for any users, residents, keys, sessions, callbacks,
polls, faults and crashes:

- **`OnionTypeCorrect`**: `BaseInv`, the types with what each handler knows: a POST past
  its creation has its intent, a settlement has a decided burn request.
- If `KeysAreExclusive`: `AloneInv` says who is where. An intent that only its POST
  knows has no burn request yet; one with a request follows that request's outcome; a
  handler settles the intent of the request it was told of; `settling` belongs to one handler, and
  City took as many credits as the states say. From it follow **`OneBurnOneCredit`**
  (`CreditedAtMostOnce`), **`OneHandlerSettles`** (`ClaimIsExclusive`),
  **`GrantsTellTheTruth`** (`OutcomesAreTrue`) and **`GrantsStayFinished`**
  (`FinishedStaysFinished`).
- **`CreditsAreBurned`** (`CreditOnlyAfterBurn`) needs also `RealKeysAreOwn`: the real
  mode names a burn request by the bare key, so two *users* with one key would share
  it. Keys made at random meet both assumptions; a session's own retries, one after
  the other, are within them.

About the print orders, if a key is used for one request (`KeysNameRequests`; the
dashboard makes up a key for each confirmation, the server's own default is the
request's id), for any requests, tabs, quotes and crashes: `OrdersTypeCorrect` (without
that assumption), **`PaymentsShownAreReal`** and **`PaidRequestsArePaidForGood`**.
`PaidInv` follows a payment back: quotes read are quotes offered, a confirmation
charges a quote it read, every entry under a confirmation's key is such a charge, and a
handler that is about to store one was answered with it.

About the print queue and the bridges, for any bridges, jobs, ticks, commands, faults
and restarts:

- **`BridgeImplementsJobs`**: `BridgeSpec => ImplementsPrintJobs`, overlapping ticks
  included. `WorkInv` says that a job a tick works on is claimed, is in no other
  coroutine and no bridge's field, was not started before, and has no end reported. Each action
  maps to a step of `PrintJobs` or leaves the mapped state alone. `BridgeTypeCorrect`
  is the types.
- If `OneTickEach` (a bridge's tick ends before its next begins, which holds as long
  as slicing takes less than `pollMs`): **`StartedJobsAreWatched`** from
  `FieldFollowsTick` (until a restart or a cancel, the field is empty while the tick
  works and full while it reports) and `PrintsAreKept`; **`NoPrintIsBumped`** from
  `PrinterFollowsField` besides: in a calm run the printer prints what the field
  names, or what the tick that has just started it is about to put there.
  `bridge_overlap` shows that the first needs `OneTickEach`.

About the city's spending, for any handlers, orders, proposals, check-ins and crashes.
`SpendingInv` is the types, `LedgerInv`, and that a handler's order is of the kind its
next call needs.

- `SpendingTypeCorrect`, and **`ProposalsAreReadyInTime`** (`ReadyExactlyAtThreshold`),
  where `CollectingIsCounted` is the half a new contribution relies on.
- **`RowsHaveEntries`** (`RowsArePaid`), if `KeysNameAmounts`: `EntriesAreOrdered` says
  that every entry under an order's source has the order's amount,
  `EntriesAreAnswered` that a handler about to store a row was answered with such an
  entry.
- **`SyncsRepair`** (`SyncRepairs`), without an assumption: `ListsAreDone` says that what
  a sync listed and has no longer to do has its points and audit row.
- **`CrashesLoseOnlyTheRunning`** (`DebitsHaveRows`), if `KeysNameOrders`: no step but a
  crash adds to `Lost`, and a crash adds at most the orders of the handlers it ends;
  the count is by the library's theorems on cardinality. Clients make up a key for
  each contribution and trade, so a key names one order.

- **`CountersAreBacked`** (`FundingIsBacked`), if `KeysNameAmounts` and
  `KeysAreExclusive` (no two handlers work for one key of a proposal at a time). The
  counter is compared with two sums, over the rows and over what is stored and not
  counted yet. `FundingInv` is the property with `ContributesAlone`: a handler
  contributes for an order of its callers, and until it has stored the row nobody has.
  So storing a row adds its debit to both sums (`StoringBacks`), counting moves one amount
  from what waits to the counter (`CountingMoves`), and a crash only takes from what
  waits. That a sum grows by the summand that is added (`OneMoreSummand`) rests on
  `SumEquation`, proved by a smallest finite set on which it fails. The second hypothesis is
  needed: two handlers with one key raise the counter twice for one row, a hazard the
  list has.

The hypotheses are properties of the constants which the instances of the runs meet;
where the code does not enforce one, the hazards say what happens without it.

Every invariant and action property that a passing run checks is stated by one of
these theorems. Only model-checked:

- every liveness property, since fairness and ENABLED are outside what the prover
  handles: `BurnIsSettled`, `GrantEnds`, `DebitIsShown`, `StartedJobEnds`,
  `PageIsAnswered`, `ViewCatchesUp`.

## 6. Not modelled

- `RsProxy` and the runtime's event stream (`index.ts`): left for later; the
  hazards list where they bite.
- The daily check-in of `event-public.ts`: a read-modify-write of two files that
  promises nothing under concurrency or crashes, so there is nothing to state of it
  but the hazard.
- The runtime repository, the economy, readiness, storyteller and overview modules,
  the library of `web/src/lib` and the rs6 models: they read files or compute
  what is shown from what others keep, without a state of their own but caches; the
  cache is `TtlCache`. They are most of the server's and the dashboard's lines.
- `game-client/src/runtime/upstream`: a vendored game client. The shell around it
  starts it up.
- The printer adapters besides the dry run, and the slicers: device and process
  I/O behind the interface the dry run has in `PrintBridge`.
- A server without a City client or without onion API (both refuse with 503, a
  matter of configuration); overflow of an `INTEGER` balance (the database
  refuses the statement, which is `Rollback`); formatting, cookies, rendering,
  routing; single-row reads and writes.

What the map covers is therefore a small share of the repository's lines and a large
one of those that change shared state.

## 7. Plan

In this order, most important first.

1. `RsProxy`: bytes of both directions in order, both sides closed.
2. Key reuse with another amount in `OnionGrant`, and one table of intents for its
   paths and the stand-in's.
