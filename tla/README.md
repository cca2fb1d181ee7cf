# MeshWars: a formal model

MeshWars is a game played with mesh radios.  Players drive about, their phones
post *pings* (a position, a time, the repeaters heard), and each ping scores the
grid cell it was sent from.  The team with the higher decaying score owns the
cell; seasons and calendar months are won on owned cells and check-ins.  A second
board, Meshtastic, is fed from two public feeds.  The server is one Python program
over one SQLite database, deployed as web processes that answer requests and **one**
worker process that runs every background loop.

This directory holds TLA+ modules of the server's protocols, TLC configurations
that check them on small instances, and TLAPS proofs, for every instance, of every
safety property those runs check and find to hold.  `PROJECT.json` maps each definition to the lines it
models, lists the hazards the properties aim at, and gives for each property a plausible
bug of the code that TLC finds with it.

## Inventory

"Partly" in `PROJECT.json` says, per component, what is left out.

| Component (`app/`) | State | Operations | Must hold | Model |
|---|---|---|---|---|
| Territory scoring (`mc_scoring.py`) | `mc_tile`, `mc_tile_score`, `mc_tile_unique_painter`, `mc_tile_capture`, `mc_tile_capture_log`, `player_cell_repeater_credit`, `mc_cell_last_score` | `apply_paint`, DEFER scoring, release sweep, credit prune | the tables tell one story; defense window; cooldown | `Territory` |
| Durable ingest queue (`mc_ingest.py`) | `mc_ingest_queue`, the worker's rows in hand | `submit`, claim, process, mark, housekeeping, reset | accepted batches are scored once, none lost, none blocks another | `McQueue` over `BatchLedger` |
| Ping pipeline (`mc_ingest.py`, `nodes_api.py`) | `player_cell_ping`, `player_last_fix`, `player_node`, `mc_wire_tag`, `player_cell_claim`, lists of radios and of the directory | `_process_one_ping`, retention, radio routes | a ping pays once, a wire tag one player, a player's radio is credited to nobody | `McPing` |
| Month results (`results.py`) | `month_result`, `month_standing`, `month_award`, `_LAST_CHECKED` | `maybe_roll_months`, `freeze_month`, re-freeze | never early, complete, in one transaction with its news | `Months` |
| Discord outbox (`discord_notify.py`) | `discord_outbox`, `discord_config` | `enqueue`, `_drain_once`, marks | announced only when frozen, extra posts accounted for | `Months` |
| Mesh announcements (`announce*.py`, `public_api.py`) | `announcement`, poll gate, page caches | poll, providers, `?since=` pages | no due news is missed, no bot skips a row | `Announce` |
| Keys and requests (`mc_ingest.py`, `api.py`) | `api_key`, `_key_cache` | authenticate, cache, invalidate | a revoked key dies within the cache's time | `Roster` |
| Accounts and joining (`join_api.py`, `account_api.py`) | `player`, `account`, `api_key`, `player_team_change` | join, link, rotate, delete, switch team; operators' routes | one own switch a month | `Roster` |
| Sign-in (`oauth_api.py`, `totp_api.py`, `sessions.py`) | identities, passwords, TOTP, tokens, sessions | sign in, link, unlink, enrol, recover | a way in remains; no code is skipped | `Doors` |
| Radio confirmation (`checkin_api.py`, `checkin.py`, `discord_interactions.py`) | `mc_node_confirmation`, `mt_node_confirmation`, watchers | open, scan, accept, cancel, watch | only a radio heard since is confirmed; one watcher | `Claims` |
| Check-in nets (`checkin.py`), seasons (`mc_scoring.py`) | awards, seen messages, streaks, `mc_season` | poll, settle, award, roll, operators' award | a message earns in one season; streaks are attended | `CheckIn` |
| MQTT subscriber (`mqtt_subscriber.py`) | connections, `mqtt_message_buffer` | reconcile, callbacks, prune | edits reach the brokers | `Connections`, buffer in `CheckIn` |
| Connectors in administration (`admin_ops.py`) | `checkin_net`, `observation_source` | create, update, convert, delete | a conversion loses nothing | `Connections` |
| FreqMapper ingest (`freqmapper_ingest.py`) | cursor, `freqmapper_verification`, paint source, guard | poll, seed, clear, allow, housekeeping | old events paint once, no page is skipped | `FreqMapper` |
| Meshtastic ingest (`ingest.py`) | `processed_packet`, `player_cell_ping`, `player_last_fix` | backfill, poll, concurrent tasks | the last fix is the newest | `Meshtastic` |
| Places (`places_seed.py`, `place_rotation.py`, `place_scoring.py`) | places, fingerprint, `place_week`, `place_activation` | load, draw, credit | a recorded fingerprint is true; a credited place stays drawn | `Places` |
| Regions (`regions.py`, `region_requests.py`) | regions, `region_cell`, groups, requests | map, remap, store; group edits, requests | membership follows boundaries; no group holds itself | `Regions`, `RegionGroups` |
| Write lock and pool (`db.py`) | `_WRITE_LOCK`, `_POOL` | `WriteSession`, `connect`, release, cancel | connections and transactions have one owner; waiters are served | `Pool` |
| Schema, startup (`db.py`, `main.py`), visitor salt (`traffic.py`) | session, event and capture tables, seeds, salt | `init_db` and its migrations, in every process | nothing lost, everyone boots, one salt | `Startup` |
| Read API (`mc_api.py`, `api.py`) | board caches, `board_cache`, ETags | answer, build, publish | right audience, fresh, catches up | `Boards` |
| Discord bot (`discord_bot.py`, `discord_leaderboard.py`) | role ids, roles held; pinned message | sync, reconcile, ensure; pass | members end with their team's role; the board catches up | `Roles`, `Leaderboard` |
| Administration (`admin_*.py`) | rows of all the above | operators' routes | what each component promises | actions of the modules above |
| Front end, tools, tests | | | | not modelled |

How they interact.  A batch goes `submit` -> queue row -> claim -> one transaction
that rolls the season and the months and runs every ping through the pipeline into
`apply_paint`; only then is the row deleted, in a second transaction.  Check-in polls
and operators roll seasons and months too; a frozen month puts its announcement in the
outbox in the same transaction, and the outbox loop posts it outside any.  The two
Meshtastic feeds and check-ins credit places.  Web processes share nothing but the
database: key caches, page caches, board caches, gates and watchers are per process.
All writers share SQLite's single write transaction, and within a process
`_WRITE_LOCK`, so a transaction is one atomic step of the models; what is read before
it, done after it, or kept in process memory is not.

What makes it hard: pings carry client clocks and arrive late and out of order; clocks
of client, receipt and server meet in one table; a crash may fall between any two
transactions; a write may fail after the thing it records has happened; an `await`
separates a check from its use; process memory outlives a rollback and dies with a
restart; tables forget by age while clients and feeds may send old things again.

## Modules

A module is a component's state, `Init`, an action per handler or transaction, `Next`
and the properties.  An `MC...` module composes the components named with it below and
gives TLC its instances: it extends one of them and instantiates the others, whose
assumptions on the constants it states, and names their properties.  The components of
one `MC` module read nothing of each other, or only what is said there; a behaviour
follows one of them, and a run's `Followed` says which it may be.  The `...Proofs`
modules extend the `MC` modules.

### Territory (MCTerritory, TerritoryProofs)

One season of the MeshCore board.  `ScorePing` and `ScoreDefer` are the scoring
half of `_process_one_ping`: the timestamp is clamped to the receipt time
(`ClampScoringClock`), then `ApplyPaint` picks the repeaters to credit, records them,
remembers the cell's last score and runs `ResolveOwnership`, the whole tail of
`apply_paint`.  `PruneCredits` and `ReleaseSweep` are the hourly housekeeping.  `tile`,
`capture`, `log`, `score`, `painter`, `credit`, `lastScore` are the tables; `awards` is
an observer of every credit ever given.  The log's key is (season, cell, second) and its
row is a paint's last write.  If the second is taken, the plain `INSERT` raises,
`_process_one_ping` swallows the exception without a savepoint, and the batch commits
what ran before: score, credits, `tile` and `capture` of a PING, and the same less the
credit of a DEFER, which the code records after the paint.  `LoggedAt` is the key,
`ResolveOwnership` and `ScoreDefer` what is then left out.  A paint that earns nothing
writes none of these tables, so it is no step.  Points are whole and decay is whole per tick; repeater ids
are model values with a prefix relation `Longer` (`repeaters_are_twins`); a ping's
repeaters come in any order; a player's team is any team per ping.  Columns no
outcome depends on are left out.

### McQueue (BatchLedger, MCMcQueue, McQueueProofs)

One action per statement of the worker loop that can be told apart from outside:
`StartWorker`, `ClaimBatch`, `CommitBatch` or `RollBackBatch`, `MarkProcessed`,
`MarkFailed`, `Housekeep`.  Every step that writes can fail, at most `FaultLimit`
times, and what happens next is the code's: a failed claim is caught, a failed mark
or housekeeping ends the task (`dead`).  `Crash` loses a worker's memory at any
point.  `BatchLedger` is the promise without the queue, and `Ledger == INSTANCE
BatchLedger WITH owed <- Owed, paid <- score` the refinement.  A payload is one batch
whose pings `player_cell_ping` deduplicates together, and a row is taken to leave the
queue before its pings are forgotten; `McPing` makes that limit visible.

### McPing (MCCredits, CreditsProofs)

What happens inside a batch's transaction.  `BeginBatch`, then one of `RejectTag`,
`RejectDuplicate`, `AcceptUnscored`, `AcceptCapped`, `AcceptScored` per ping, which are
the early returns of `_process_one_ping` in the code's order, then `Commit` or
`RollBack`.  `Housekeep` is the age-based prune of history, tags and claims; `AddNode`
and `RemoveNode` are the radio routes of other processes, `Advertise` the repeater
directory's changes.  An id `Names` a radio if it has four hex digits or more and the
radio's ref or key begins with it (`_heard_matches_player_node`); `KeptRepeaters` drops
such an id unless the directory lists it.  The lists of radios and of the directory,
`cache` and `known`, are process memory, each with its time to live, and a rollback leaves
both as they are.  What a scored ping earns is Territory's; here `paid` notes that it was
paid and with which repeaters, if its paint did not raise before it paid.  Public keys that `POST /api/checkin` adds to a radio later are left out, so `Names` is fixed.

### Roster (MCAccounts, AccountsProofs)

Players, accounts and keys.  A key lookup in a thread (`StartLookup`) and its use and
caching (`Ingest`, `Refuse`) are two steps, and so are a session's resolution
(`BeginRequest`) and the route's write.  The routes: `Join`, `JoinSignedIn`, `LinkKey`,
`RotateKey`, `DeleteAccount`, `SwitchTeam`, `SwitchTeamSignedIn`; operators'
`AdminRevoke`, `AdminReissue`, `AdminIssue`, `SetDisabled`, `AdminUnlink`,
`AdminSetTeam`, `AdminDeletePlayer`, `AdminDeleteAccount`.  `ProcessBatch` is the
worker writing what a queued batch says of its player.  Each process has its own `cache`
and invalidates only that one.

### Doors, Claims (MCAccounts, AccountsProofs)

`Doors` is sign-in.  A sign-in is a first factor, perhaps a challenge, and a session,
each a transaction (`flight`); managing routes resolve a session first and write later
(`request`); `ticket` holds one-time tokens.  Actions are grouped as `SignIn`, `Manage`
(linking, unlinking, password, TOTP, deletion) and `Recover` (operators).  Wrong
passwords and codes, rate limits and backoff only refuse.

`Claims` is how a radio is proven.  `Route` begins what a page or `/claimnode` asks and
awaits a scan; `Answer` is the rest of the route with what it had read; `Watcher` is a
step of a `/claimnode` watcher, its done-callback included; `Mesh` is radios heard and
codes sent, time and expiry; `AddNode`, `RemoveNode` are radios on the player's word;
`Restart` loses a process's watchers.

### CheckIn (MCCredits, CreditsProofs)

`Post` is a message on a broker or a feed; `StartPoll`, `Fetch`, `Settle`,
`ConnectorFails` are the poller over the connectors in `Order`; `PruneBuffer`,
`PruneSeen` the two retentions; `RollSeason` a season closed by other traffic; `Bind` a
radio registered late; `OpenForm`, `SubmitForm` the operators' award, with its gap.
A MeshCore feed (`McFeeds`) looks its sender up when a message is settled; the Meshtastic
one has the snapshot taken when its poll began (`Sender`).  The time unit is a day.

### FreqMapper, Meshtastic, Regions, RegionGroups (MCFeeds, FeedsProofs)

`FreqMapper`: a poll reads configuration and cursor (`StartPoll`), awaits the page, and
writes all in one transaction (`FinishPoll`) or is lost (`PollFails`); `SetPaint`,
`ClearCursor`, `AllowBackfill` are the operators; `Housekeep` forgets events and pings.
`Meshtastic`: `BackfillPage` and `StartPoll`/`Fetch` hand out a page; each packet's task
looks (`Dismiss`, `AskReceptions`), awaits receptions and writes (`Score`) or fails;
the tasks of a page interleave.  `Regions`: `StartBatch`, `Test`, `WriteBatch`,
`Abandon` are `map_new_cells`; `StartRemap`, `Compare`, `WriteChunk`, `EndRegion`,
`StopRemap` are `remap_regions` in another process; `Store` is the boundary loader.
`RegionGroups`: group routes and the players' requests, each one transaction; no property
reads the requests, which no other component reads either.

### Places (MCProcesses, ProcessesProofs)

`Start`, `LoadBatch`, `LoadFails`, `Stop` are a process's life and the seed load of those
that run background tasks (`Loaders`: one as deployed, but the setting that keeps the
others from it is a process's own, and on by default, so the run has two);
`InstallFile` an upgrade; `Visit` a credit, which draws the week if nobody has;
`ReaderComputes` and `ReaderStores` the reader's draw in two transactions.  The weekly
shuffle (a hash of week and place) is the fixed order `(p + w) % n` with last week's
places at the end: it keeps that the order is a function of the week and that last
week's come last, and only the draw's dependence on the loaded places matters here.

### Connections, Startup (MCProcesses, ProcessesProofs)

`Connections`: `OpenUpdate`/`CommitUpdate` and `OpenConvert`/`CommitConvert` are routes
that validate before `BEGIN`; `Reconcile` is one read of a table, or the comparison that
follows; `OnConnect`, `OnDisconnect`, `StatusWriteFails` come from paho's thread.
`Startup`: `Migrate(p)` is the next statement of a process's `init_db`, statement by
statement where the code runs in autocommit and as one step where it opens a
transaction; `Seed` is the worker's; `Capture` is traffic in a process that is up;
`AskSalt`, `InsertSalt`, `ReadSalt` the visitor salt; `Crash` falls anywhere.

### Pool, Boards (MCReads, ReadsProofs)

`Pool`: `Connect`, `Close`, `Begin`, `End` for any caller; `Ask`, `Acquire`, `Enter`,
`EnterFails`, `Exit`, `Leaves` for a `WriteSession`; `ToThread`, `ThreadEnds`,
`CancelWorker` for the batch worker whose thread outlives its awaiter; `Breaks` a bad
handle.  `Boards`: `Hit`, `ReadRow`, `StartBuild`/`FinishBuild` are the tiers of an
answer, `PublisherStep`/`PublishFails` the worker; entries carry ages instead of times,
so the clock needs no bound.

### Months, Announce (MCMonths, MonthsProofs)

`Months`: `Batch`, `CheckinPoll`, `AdminFreeze` are the callers of `maybe_roll_months`
and `freeze_month`, committing or rolling back; a result is the set of captures it was
computed from; `BeginDrain`, `PostDelivered`, `PostRefused`, `PostTimesOut`,
`MarkPosted`, `MarkFailed`, `MarkRaises` are `_drain_once`, a row at a time; `memo`
survives a rollback and not a `Restart`.  Ticks are local time; `Active` names months
`UtcOffset` ticks ahead, as `strftime` does.  `Announce`: `Poll` asks every provider,
some of which raise; `Close` and `Refreeze` are the scoring's; `Ask` is a bot's page,
from a cache until `Expire`.

### Roles, Leaderboard (MCDiscord)

`Roles`: a request changes the database and fires a sync; `Sync` is a sync's next step
(read, ask Discord, each PUT and DELETE); `StartPass`, `Visit` the reconcile walk;
`Ensure` the creation of roles; `CallFails`, `Crash` the faults; people join, leave,
and remove roles by hand.  `Leaderboard`: `StartPass`, `Step`, `PassEnds`, `AnswerLost`
are `run_leaderboard_pass` by the loop and by the operators' button.  `Repin` and `PinNew`
pin, or fail to; no property reads whether the message is pinned.

## Runs

Every run finishes; `PROJECT.json` describes each in a sentence.

| Run | Instance | Shows |
|---|---|---|
| `territory` | two teams on one cell for eight ticks; or one player, three repeaters of which two are twins, six ticks | `OwnerIsRecorded`, `DefenseHeld`, `OwnershipExactUntilRelease`: tile and capture clock agree whatever the order of the pings, and the log with them but for a capture its key refuses; the log read back gives the owner until a release; `CreditsAreSpaced`: the cooldown holds over any span of time |
| `capture_log` | the same boards | `EveryFlipIsLogged` is violated: after a release, a flip may leave no row (see *Disagreements*) |
| `queue` | one worker, three batches of which one is poisoned, two attempts, a crash, a failing write of each kind, resubmission | `LedgerSpec`: the queue implements the ledger; `Drains` |
| `months` | two months of two ticks and the start of a third, two failures; or a feed of two weeks and two months | `AnnouncedIsFrozen`, `PostsAccounted`; `NewsGetsOut`, `NothingSkipped` |
| `ping` | two players, two radios, a shared tag, two batches of two pings | `PaidOnceWhileKept`, `TagPaysOnePlayer` |
| `roster` | two players, two keys, two teams, two processes, two routes | `RevokedKeyDies`: a dead key's grace is the cache's, however long lookups take; `OneSwitchAMonth` |
| `doors` | two people and two accounts; or a player claiming a radio of each protocol; or two `/claimnode` watchers | `HasDoor`, `SecondFactorHolds`; `ClaimsAreProven`; `OneWatcher` |
| `feeds` | one of: three FreqMapper events; three packets; two regions of two squares; three groups | `OldEventsPaintOnce`, `DecidedUpToCursor`; `LastFixIsNewest`; `MembershipIsCurrent`; `NoGroupHoldsItself` |
| `checkin` | a feed and a broker, two nets, a season's end; or a player's pings, two radios, and an id that may be the second's or a repeater's | `BufferedPaysOneSeason`, `StreakIsAttended`; `RadiosAreNotCredited`: a radio on file for a list's life is credited only if the directory listed its id lately |
| `processes` | three processes, one row of each kind, a crash; or two operators, two brokers of which one address is malformed; or three places, two seed files, two processes that load, two stops | `CaptureLogSurvives`, `BootsComeUp`; `ConversionLosesNothing`, `EditsTakeEffect`; `CreditedStaysDrawn`, `SelfHealing` |
| `reads` | a handler, a session, a worker and four connections; or a family of board keys | `OneBorrower`, `TransactionsAreOwned`, `WaitersAreServed`; `ShownForAudience`, `RegionalIsFresh`, `ReadersCatchUp` |
| `discord` | one player, two requests and the loop, three role ids; or a loop and an operator, three messages | `RolesSettle`; `BoardCatchesUp` |

### Bounds, and why they are enough

Where a run holds several components ("or"), a behaviour follows one of them, chosen by
`follows`, `plays` or `family`.  They read nothing of each other, so their steps
commute and a property of one is violated together with the other exactly when it is
alone; those not followed start from a single state, and the constants of those a run
never follows are as small as their assumptions allow.  `ClaimsAreProven` and
`OneWatcher` are followed apart for the same reason: a status poll changes nothing an
accept reads, and a watcher stops for a route whatever the route found.

* *Territory.*  Cells do not interact.  An attacker is compared with the owner alone, so
  a third team adds nothing.  Eight ticks are what a score needs to decay to nothing, be
  released and be captured again, at the release's own second and at an earlier
  capture's.
* *Queue.*  Two attempts tell a retry from a dead letter, two rows a claim tell a failed
  row from the one after it, three rows fill the queue.
* *Months.*  Lag and clamp of one tick put a capture behind the freeze; two finished
  months let one call freeze both.  For the feed a week is two days long and told on the
  day it ends, a month may be told a day later; pages hold one row.
* *Ping.*  Retention and queue lag of one tick let a batch outlive its history; two cells
  too far apart trip the speed gate.  For the radios, in `checkin`, lists that live two ticks
  in a horizon of three are used stale and read again, batches are of one ping, and a
  repeater comes and goes (`MaxAdverts` 2).
* *Roster.*  A lookup, a request and a queued batch at a time, in two processes, with two
  routes in between: a revocation and what it races.  A tick is a month.
* *Doors.*  `Small` keeps at most `MaxAtOnce` tickets, sign-ins, requests and sessions at
  a time: a guard is raced by one other route.  `MaxHistory` bounds codes and accounts.
* *Claims.*  One claimant, connector and process, two routes in flight, a clock of two
  ticks with a window of one: a window can expire or be replaced during an accept.
* *Feeds.*  Retentions of one tick, a horizon of two, pages of one event, so that a
  walk from a cleared cursor meets forgotten rows.  Three packets, two a page; regions
  stored once a second at most and one remap at a time, chunks of one row
  (`TxnRows`); three groups make the shortest cycle that is not direct.
* *Check-in.*  A season of two days in a horizon of three; the seen messages outlive the
  buffer by more than a day, as shipped (168 hours against 48).
* *Places.*  Batches of two places out of three, so a crash falls between two batches; two
  visits (`MaxVisits`) of one player on two boards.
  `Rollback` is off: with it, see below.
* *Processes.*  `CrashLimit` 1; two web processes beside the worker.  Three rows and three
  edits let a conversion race an edit and a deletion.
* *Reads.*  A free list of one (`PoolMax`) forces discards.  Builds and publishes take at
  most one tick; each process a family reaches shares only rows with the others.
* *Discord.*  Three changes (`MaxChanges`, `MaxMoves`) and one fault.

`SYMMETRY` permutes only what no constant tells apart, and only in runs without liveness;
`VIEW`s leave out observers that neither properties nor guards read.  Deadlock is not
checked because bounded behaviours end.

### Liveness and fairness

Nothing is assumed of clients, operators, crashes or faults, which the bounds stop.

* `Drains` (`McQueue`): weak fairness of each worker's step: the loop sleeps and goes on,
  and the container is restarted (`restart: unless-stopped`).  Two outcomes the code has
  no answer to are exempt and named: a task that died of an uncaught exception
  (`WorkerDied`) and a claim stranded because the reset at startup failed (`Stranded`).
* `WaitersAreServed` (`Pool`): a holder of the lock goes on, a thread ends its batch.
* `BootsComeUp` (`Startup`): a process goes on to its next statement; an ended one is
  started again.  Exempt: the wedged migration below.
* `EditsTakeEffect` (`Connections`): the reconcile loop goes round and a broker that is
  reachable answers.  Exempt: an enabled malformed address, and a dead callback thread.
* `ReadersCatchUp` (`Boards`): time passes, builds end, the publisher goes round.
* `RolesSettle` (`Roles`), `BoardCatchesUp` (`Leaderboard`): the loops go round and a pass
  that started goes on.  The former is about linked members whose role can be given; exempt
  from the latter: passes that overlapped, and a message
  whose last call's outcome was lost or that was deleted while its hash stood.

A run that follows one component states the fairness for it alone, `WF_vars(follows = "X"
/\ Action)`.

## Proofs

TLC checks a small instance; TLAPS proves the following for all constants that satisfy the
named assumptions, which TLC evaluates in every run: every invariant and every action
property of the runs, the refinement, and type correctness where it says more than the
shape of the rows.  Those of an instantiated module are one `ASSUME` of the `MC` module
(`CheckInShape`, `ClaimShape`, `RosterShape`, `FixShape`, `RegionShape`, `FeedShape`,
`BoardShape`).  Theorems are about each component's own `Spec`, in which nothing is
followed and no initial state is left out.  Every proof has the same form: the invariant
holds of the initial states, each action keeps it (a lemma per action or per table), it
implies the property.  Numbers of anything are free, and the bounds that keep TLC's runs finite
(`Horizon`, `Max...`) are arbitrary, so nothing below depends on them.

* **TerritoryProofs**: `TypeCorrect`; `OwnerAlwaysRecorded` and `DefenseAlwaysHeld` from
  `BoardInv` (type, `OwnerIsRecorded` and `DefenseHeld` together: the defense window of
  the *next* flip is measured on the capture clock, so that clock has to equal the newest
  log row for the log to keep its distances); `OwnershipAlwaysExactUntilRelease` from
  `LogInv`: no row is dated more than a clamp ahead of now, and until a release the newest
  row of a cell is also its latest; `CreditsAlwaysSpaced` from `CreditInv`:
  `awards` remembers credits the table has pruned or overwritten, so the invariant says
  that every award is either backed by a row no older than it, or `Stale`, too old for any
  ping still to come.  `OwnerIsRecorded` needs `DefenseIsShipped` (the window is above
  zero): then two captures never share a second unless a release came between, so the second
  a capture is refused for is one the cell's rows up to a release hold, and those rows stay.
  `CreditInv` needs `RetentionOutlivesCooldown`, which the code states as
  "minutes" against "days".
* **McQueueProofs**: `QueueTypeCorrect`, `PaidOnce`, `NothingDropped` and the refinement
  `QueueIsLedger`, for any number of workers.  `LedgerInv` adds to the type that a batch
  is scored exactly when `seen` holds it, that a row in hand has the payload of the row in
  the queue with its id, and that a worker about to delete a row has scored it.  It needs
  ids that are never used again (`AUTOINCREMENT`).
* **MonthsProofs**: `NeverFrozenEarly`, `NeverAnnouncedUnfrozen`, `FrozenNearlyComplete`
  from `MonthInv`, with one lemma, `FreezingStep`, for every action that freezes.
  `PostsAlwaysAccounted` from `DrainInv`: the rows in a drain's hands are not posted, and
  while a mark is owed it is the first row's.  `NothingEverSkipped` and `NewsAlwaysGetsOut`
  from `FeedType` and `PagesInv`: a cached page holds all there was to tell up to its last
  row, so a cursor moved to that row passes nothing, however old the page is.
* **AccountsProofs**: *keys*: `RevokedKeysAlwaysDie` and `RosterTypeCorrect` from
  `RosterInv`: an answer, be it in a lookup under way or in some process's cache, was true
  when its lookup began, and a cache entry lives for `KeyTtl` from then; `OneSwitchAlways`
  from `SwitchInv`.  *Sign-in*: `DoorAlwaysThere` from `Doored`: an account keeps a door
  that no route resolved earlier will remove; `SecondFactorAlwaysHolds` from `SecondInv`:
  a secret seen by a sign-in or session is never newer than the account's, and whoever
  passed the code page gave the code of a secret at least as new.  *Claims*:
  `OneWatcherAlways`, as a live watcher is the registered one (`LiveAreRegistered`);
  `ClaimsAlwaysProven` from `ClaimType` and `ClaimInv`: what any window, scan or accept under
  way would let through was heard, or its code sent, since a claim of that player's began.
* **CreditsProofs**: *pings*: `PaidOnceAlways` and `TagPaysOneAlways` from `PingInv`:
  every payment has the row that guards it on file or is old enough for that row to have
  been pruned, in the tables as they are and in those an open batch would roll back to;
  `RadiosNeverCredited` from `ListInv`: a list of radios in use was read less than `NodeTtl`
  ago and has every radio on file since, and an id the known directory lists was on the real
  one within `DirectoryTtl`, though rollbacks, `AddNode` and `Advertise` go on beneath both.  *Check-ins*:
  `BufferedAlwaysPaysOneSeason` and `StreakAlwaysAttended` from `CheckInInv`: a message
  that earned has a seen row while a buffer row of it may be read (`SeenFollows`,
  `PaidAreSeen`).  The former needs `SeenOutlivesBuffer`, see below.
* **FeedsProofs**: `OldEventsNeverPaintTwice` and `AlwaysDecidedUpToCursor` from `Sound`:
  the guard's mark is past every event that painted, and everything behind the cursor, and
  behind the one a poll under way had read, was decided; `LastFixAlwaysNewest` from `MeshInv`;
  `NoGroupEverHoldsItself` as the groups can be ranked above what they hold: a group
  whose search found no way back to it is moved above all it did not reach; `MembershipAlwaysCurrent` from `RegionInv`: a batch's signature,
  the count and the sum of stamps that only grow, fixes every stamp, so a batch that passes
  the comparison tested the boundaries of now, and what is left of a remap's difference
  is what its region's rows lack.
* **ReadsProofs**: `ConnectionsAreExclusive` and `NoTransactionAbandoned`, for any callers,
  pool size and faults: a proxy that was closed owns nothing, whatever is done with it;
  `AlwaysShownForAudience` from `BoardInv`: a client's ETag is the one of the body it
  shows, and an ETag tells apart the audiences of a board; `RegionalAlwaysFresh` from
  `FreshInv`, which bounds age and lag of rows, builds and cached values on the way down.
* **ProcessesProofs**: `FingerprintIsTrue`: for any files, batches, processes, crashes and
  interleaved loads, a database that records a file's fingerprint holds that file, unless
  an older file is installed again (`~Rollback`).  The invariant `SeedInv` says that every
  load under way is the installed file's, and that what it no longer has to load is in the
  table as the file has it, whichever load put it there.  `CreditsStayDrawn`: for any
  scorers and readers, as a draw once stored is only added to.
  `CaptureLogAlwaysSurvives` from `LogInv`: who is about to rebuild the log has listed all
  its indexes; `OneSaltAlways`: whoever inserts a salt, each process reads back what is
  there (proved only, no run checks it); `ConversionNeverLoses` from `ConnectorsInv`: ids are never used again, so every
  copy of a row that a route holds has the row's name.

Recursive functions and folds (a poll's messages and nets, a page's events, the search for a
cycle, a signature's sum) are shown to exist first; a set of numbers without a least
counterexample takes the place of an induction rule.

Only model-checked: `Drains`, `WaitersAreServed`, `BootsComeUp`, `EditsTakeEffect`,
`ReadersCatchUp`, `RolesSettle`, `BoardCatchesUp`, the liveness properties.  Liveness and
`ENABLED`, induction over data, and RECURSIVE operators are beyond this prover; the modules
write recursion as recursive functions or folds.

## Disagreements met while modelling

Where the code does other than a comment, docstring or test says, or than one would expect.
One is a run of its own, `capture_log`.  Some are formulas of the modules that no run
checks, because they do not hold: TLC refutes each of those named below when it is added to a cfg of its component's run
(`DateSkipsComeBack` with `MaxAdmin = 3` and `MaxEvents = 2`).  `HasDoor`,
`ClaimsAreProven`, `SelfHealing`, `NewsGetsOut`, `TagPaysOnePlayer` and
`BufferedPaysOneSeason` hold as the runs state them; their entries say where the
statement stops.

* *Territory.*  `EveryFlipIsLogged`: "Capture audit log: every flip, who did it, and who it
  was taken from" (`db.py:1098`).  A cell that was released and is then captured at a second
  its log already holds is owned without a row (`mc_scoring.py:489`, `533`,
  `mc_ingest.py:1781`), and until its next flip is nobody's in a month's standings; if a
  DEFER captured it, no credit is recorded and its next DEFER may score within the cooldown.
  With a defense window of zero, two captures of one second collide as well.
  `OwnershipExact`: releases break "Exact, because a cell has no neutral state"
  (`results.py:264`).
* *Queue.*  `RowFailureIsContained`: an exception in a mark ends the worker task although a
  row's failure is said to be contained (`mc_ingest.py:1195`).  A second worker's start
  revives claims and dead letters of the first (`mc_ingest.py:1164`, `1235`).
* *Ping.*  `ResubmitIsHarmless` (`check_wire_tag`'s docstring): only while the history is
  kept.  A tag's life counts from when it was first seen and is not renewed by its owner's
  later pings, so one that is in use all along is free for another player after
  `TagRetention`; `TagPaysOnePlayer` measures from there.
* *Months.*  `NextCallFreezes` (`results.py:894`): the memo outlives a rollback.
  `CheckFreezesAll` (`results.py:879`): months are named in UTC and compared in local time.
  `AnnouncedOnce` (`db.py:2942`): delivery is at least once.
* *Accounts.*  `GoneMeansGone`: a deleted player's queued batches are still scored for the
  tombstone (`account_api.py:1690`; the queue is not among its tables and the worker does
  not look at `disabled`).  `LinksHold`: a link may be written to a player another request
  unlinked or deleted meanwhile.
* *Sign-in.*  The guard against the last door counts a password nobody can use any more,
  once its account has no verified address (`account_api.py:1220` and `1207`,
  `oauth_api.py:995`); `HasDoor` counts doors as the guard does.
* *Radios.*  A scan with a failing connector makes an old advert count as fresh
  (`checkin.py:1441`; `ClaimsAreProven` is about claims with every connector up).  Accept
  binds from a window that was cancelled or replaced during its await, though its docstring
  says "the current window's candidates" (`checkin_api.py:682`).  A status scan of a
  replaced window is cached and throttles the new one (`checkin_api.py:571`).  A window
  closed on the website makes the `/claimnode` watcher say it closed without hearing the
  radio (`discord_interactions.py:1587`), and one of the other protocol makes it fail.
* *Check-ins.*  `PaysOneSeason` holds for brokers only: a feed's window outlives
  `checkin_seen_retention_hours` (`checkin.py:2916`, `config.py:1042`).
  The seen rows "MUST stay greater" in retention than the
  buffer's (`config.py:1039`, `checkin.py:967`), but greater is not enough: a poll dates the
  seen row with its own start, which may be a day (a tick) before the buffer row's date, and with
  `SeenKept = BufferKept + 1` TLC finds a message paid in two seasons.
  `ClosedSeasonIsFrozen` (`announce_content.py:508`): late awards change it.
  `StreakIsRederived`: a credit settled late does not change the streaks after it.  Two nets
  on one weekday collide under the award's key.
* *FreqMapper.*  `DateSkipsComeBack` (`freqmapper_ingest.py:1459`), `PaintsOnce`
  (`admin_ops.py:2506`): both hold only until retention or the backfill guard has its say.
  Clearing the cursor during a poll is overwritten by the poll.
* *Meshtastic.*  Season and registered radios are read before the awaits.  A failed request
  for receptions returns an empty list (`meshview_client.py:97`) and the packet is processed
  without its points.
* *Places.*  `DrawIsFinal` (`place_rotation.py:389`): a stored draw can gain places.
  `SelfHealing` fails if an older file is installed again during the life of a load's
  rows (`places_seed.py:1190`).
* *Scores by place, season close* (read only): a boundary shared by two periods counts twice
  (`mc_scoring.py:811`); a podium of teams without tiles or tied (`announce_content.py:487`).
* *Boards.*  The unfiltered row has no age limit: with the worker down every process serves
  a frozen board.
* *Connectors.*  A double click on two processes duplicates a connector, and an edit can
  bring back a deleted one; a conversion between the reconciler's two reads drops its
  broker for an interval; a kept secret and the community are read before `BEGIN`.  A
  malformed port makes every later address starve and the buffer unpruned; a failed
  status write ends paho's thread (`mqtt_subscriber.py:713`).
* *Startup.*  A crash between the rename and the drop of the session migration stops every
  later boot (`Wedged`); side-by-side boots label sessions "Unknown device"; a crash
  between seed inserts leaves nets unseeded for good; a seed may overwrite an edit of the
  first minutes; a capture during the log's rebuild fails that boot, which is retried.
* *Roles.*  Unlinking and disabling fire no sync, so a removed link keeps its role; a team
  whose role is missing leaves the old one in place; a double click orphans roles; the
  gate against overlap is per process (`discord_bot.py:1250`).
* *Leaderboard.*  Passes of two processes overlap although they "must never race into
  overlapping passes" (`discord_leaderboard.py:541`); "Post / repair now" does not
  repost a deleted message while standings are unchanged.
* *Announcements.*  Months frozen by one call share a `closed_at`, and the provider takes one
  of them: the newest may never be announced; a re-freeze of an old month hides the newest
  (`config.py:1599`).  The weekly period is `end - 7 * 86400`, which its docstring
  denies (`discord_notify.py:1626`).  `NewsGetsOut` is about kinds the calendar names.
* *Regions.*  A region stored twice within a second carries one stamp, which neither
  staleness check can tell apart; `Store` leaves that out.

## Not modelled, and why

* What a table's rows are summed into: scoreboards, standings, month awards, season
  tallies, award geometry, embeds and mesh lines.  Data, not control.
* Classification of places and radios, geometry of regions, parsing of payloads,
  decryption: pure functions of large inputs with no state.
* Rate limits and backoff, where any request may be refused already.
* The directories behind a MeshCore sender's name and their caches, name claims of
  check-ins, the contact address, notices, the keyed public API, role guard and
  communities: single-transaction edits or reads with no second actor to race.
* Migrations that only add a column or an index behind a look at the table.
* Front end, offline tools, bundled reference data, tests (read as documentation).

## Plan

Proofs: the safety side of `Roles` and `Leaderboard` (which role a sync may take, how many
messages a pass may post), and action properties of components whose invariants are
proved: what `ReleaseSweep` may take, what a chunk of a remap may change, what a conversion
leaves of the rows it does not convert.  Then models: name claims of
check-ins with the directories' caches, the tallies of a season against a late batch, and the
outbox's weekly and net kinds; and properties for the two hazards without one
(`results.py:896`, the memo; `account_api.py:1690`, the tombstone's batches).
