----------------------------- MODULE Territory -----------------------------
(***************************************************************************)
(* One season of the MeshCore board: how an accepted ping scores a cell    *)
(* and how cells change hands (app/mc_scoring.py).  A paint credits the    *)
(* repeaters the ping named (per-repeater cooldown, per-visit cap), adds   *)
(* the points to the painting team's decaying score and resolves           *)
(* ownership: first capture, reinforcement, defended attack or flip.  An   *)
(* hourly sweep releases cells whose owner has decayed to nothing.         *)
(*                                                                         *)
(* A paint's last statement inserts the capture's row in the audit log,    *)
(* whose key is the cell and the second.  A second that is taken makes it  *)
(* raise; the ingest logs the exception, keeps what the paint had written, *)
(* and commits it with the batch.                                          *)
(*                                                                         *)
(* Time is counted in ticks of the server's clock.  A ping carries a       *)
(* client timestamp, and only its clamped value drives the rules, so       *)
(* paints reach this module out of timestamp order.                        *)
(***************************************************************************)
EXTENDS Integers, Sequences, FiniteSets

CONSTANTS
  Players, Teams, Cells, Repeaters,
  Longer,        \* <<a, b>>: id a is a hash prefix (4+ hex) of the longer id b
  DeferId,       \* the pseudo-repeater that DEFER pings are credited under
  NoTeam, NoRow, \* no owner; no such row
  Points,        \* settings.mc_points_per_repeater
  MaxPoints,     \* settings.mc_max_points_per_ping
  Bonus,         \* settings.mc_score_per_unique_player
  Decay,         \* settings.mc_score_decay_per_day, per tick
  Defense,       \* settings.mc_defense_window_seconds
  Cooldown,      \* settings.mc_cooldown_seconds
  Clamp,         \* settings.mc_clock_clamp_seconds
  Retention,     \* settings.mc_ping_retention_hours
  ZeroSpan,      \* tile_release_config.zero_hours
  MaxPerSweep,   \* tile_release_config.max_per_sweep
  Releases,      \* tile_release_config: enabled and not dry_run
  Lag,           \* bound: how long a batch waits in the queue
  ClientClocks,  \* bound: the timestamps clients send
  Horizon        \* bound: the last tick of the server's clock

Ids == Repeaters \cup {DeferId}

ASSUME NumbersAreNatural ==
  {Points, MaxPoints, Bonus, Decay, Defense, Cooldown, Clamp,
   Retention, ZeroSpan, MaxPerSweep, Lag, Horizon} \subseteq Nat

ASSUME ConstantsAreDistinct ==
  /\ NoTeam \notin Teams
  /\ DeferId \notin Repeaters /\ IsFiniteSet(Repeaters)
  /\ NoRow \notin [pts : Int, last : Int]
  /\ NoRow \notin [at : Int, by : Teams]
  /\ NoRow \notin [pts : Int, ts : Int]
  /\ ClientClocks \subseteq Int
  /\ Longer \subseteq Repeaters \X Repeaters
  /\ Releases \in BOOLEAN

(***************************************************************************)
(* "The cooldown window is minutes; the retention window is days, ample    *)
(* margin" (app/mc_ingest.py): a pruned credit can no longer matter to any *)
(* ping still to come.                                                     *)
(***************************************************************************)
ASSUME RetentionOutlivesCooldown == Retention >= Cooldown + 2 * Clamp + Lag

(***************************************************************************)
(* 900 seconds as shipped.  With none, two captures of one second would    *)
(* meet in the log's key.                                                  *)
(***************************************************************************)
ASSUME DefenseIsShipped == Defense > 0

VARIABLES
  score,     \* mc_tile_score: per cell and team, points as of an instant
  painter,   \* mc_tile_unique_painter
  credit,    \* player_cell_repeater_credit
  lastScore, \* mc_cell_last_score
  tile,      \* mc_tile.owner_team
  capture,   \* mc_tile_capture
  log,       \* mc_tile_capture_log: each cell's rows in rowid order
  now,       \* the server's clock
  awards     \* observed: every repeater credit ever given

board == <<score, painter, tile, capture, log>>
vars == <<score, painter, credit, lastScore, tile, capture, log, now, awards>>

----------------------------------------------------------------------------
(* Reading the tables                                                      *)

Least(a, b) == IF a < b THEN a ELSE b

\* The client's timestamp, brought within Clamp of the receipt time.
ClampScoringClock(ts, received) ==
  IF ts < received - Clamp THEN received - Clamp
  ELSE IF ts > received + Clamp THEN received + Clamp
  ELSE ts

DecayedScore(pts, last, t) ==
  IF last >= t THEN pts
  ELSE LET left == pts - Decay * (t - last) IN IF left < 0 THEN 0 ELSE left

GetTeamScore(c, team, t) ==
  IF score[c][team] = NoRow THEN 0
  ELSE DecayedScore(score[c][team].pts, score[c][team].last, t)

CreditRowsSince(p, c, from) ==
  {row \in credit : row.player = p /\ row.cell = c /\ row.ts >= from}

\* Mutation: only credits before t, as "within window seconds before ts" reads.
CreditedIdsBefore(p, c, t) ==
  {row.id : row \in {x \in CreditRowsSince(p, c, t - Cooldown) : x.ts <= t}}

CreditedIds(p, c, t) == {row.id : row \in CreditRowsSince(p, c, t - Cooldown)}

AreTwins(a, b) == <<a, b>> \in Longer \/ <<b, a>> \in Longer

DedupeTwins(ids) == {i \in ids : \A o \in ids : <<i, o>> \notin Longer}

\* The ping's repeaters that are not, under any hash width, in cooldown.
NewIds(p, c, ids, t) ==
  {i \in DedupeTwins(ids) :
     \A k \in CreditedIds(p, c, t) : k # i /\ ~AreTwins(i, k)}

\* Mutation: a ping from before the capture is not held off by it.
InDefenseWindowAfter(c, t) ==
  capture[c] # NoRow /\ t >= capture[c].at /\ t - capture[c].at < Defense

\* Mutation: a flip is decided by the scores alone.
InDefenseWindowNever(c, t) == FALSE

InDefenseWindow(c, t) == capture[c] # NoRow /\ t - capture[c].at < Defense

\* The seconds the log holds of a cell, which its primary key lets it hold once.
LoggedAt(c) == {log[c][i].ts : i \in 1..Len(log[c])}

----------------------------------------------------------------------------
(* apply_paint: the credit half                                            *)

\* How many more repeaters this visit may still be credited for.
RemainingPoints(p, c, t) ==
  MaxPoints - Least(Cardinality(CreditedIds(p, c, t)) * Points, MaxPoints)

CreditSlots(p, c, t) ==
  IF Points > 0 THEN RemainingPoints(p, c, t) \div Points ELSE 0

\* The first new ids of the ping's list, as many as fit; the list's order is
\* the client's, so any choice of that many ids can happen.
CreditChoices(p, c, ids, t) ==
  LET fresh == NewIds(p, c, ids, t)
      fit   == Least(CreditSlots(p, c, t), Cardinality(fresh))
  IN  {chosen \in SUBSET fresh : Cardinality(chosen) = fit /\ fit > 0}

\* Upsert: a credit that is earned again moves its row's clock.
RecordCredit(p, c, ids, t, received) ==
  /\ credit' = {row \in credit : ~(row.player = p /\ row.cell = c /\ row.id \in ids)}
        \cup {[player |-> p, cell |-> c, id |-> i, ts |-> t, seen |-> received] : i \in ids}
  /\ awards' = awards \cup {[player |-> p, cell |-> c, id |-> i, ts |-> t] : i \in ids}

\* What a later DEFER in this cell is worth; an older paint never replaces it.
RememberLastScore(c, points, t) ==
  lastScore' = IF points > 0 /\ (lastScore[c] = NoRow \/ t >= lastScore[c].ts)
               THEN [lastScore EXCEPT ![c] = [pts |-> points, ts |-> t]]
               ELSE lastScore

----------------------------------------------------------------------------
(* apply_paint: the ownership half                                         *)

\* The team's score as of t with this paint's points and, once per player and
\* team, the bonus.
PaintedScore(p, team, c, t, points) ==
  GetTeamScore(c, team, t) + points + (IF <<c, team, p>> \in painter THEN 0 ELSE Bonus)

Flips(p, team, c, t, points) ==
  /\ tile[c] \notin {NoTeam, team}
  /\ ~InDefenseWindow(c, t)
  /\ PaintedScore(p, team, c, t, points) >= GetTeamScore(c, tile[c], t)

Takes(p, team, c, t, points) == tile[c] = NoTeam \/ Flips(p, team, c, t, points)

\* Adds to the team's score, then captures, reinforces, is held off, or flips.
\* When the log already holds the second, its insert, the last write, raises:
\* the cell has changed hands and the log does not say so.
ResolveOwnership(p, team, c, t, points) ==
  LET mine  == PaintedScore(p, team, c, t, points)
      flips == Flips(p, team, c, t, points)
      takes == Takes(p, team, c, t, points)
  IN  /\ painter' = painter \cup {<<c, team, p>>}
      /\ score' = [score EXCEPT ![c] =
           [k \in Teams |-> IF k = team THEN [pts |-> mine, last |-> t]
                            ELSE IF flips /\ k = tile[c] THEN [pts |-> 0, last |-> t]
                            ELSE score[c][k]]]
      /\ tile' = IF takes THEN [tile EXCEPT ![c] = team] ELSE tile
      /\ capture' = IF takes THEN [capture EXCEPT ![c] = [at |-> t, by |-> team]]
                             ELSE capture
      /\ log' = IF takes /\ t \notin LoggedAt(c)
                THEN [log EXCEPT ![c] = Append(@, [ts |-> t, by |-> team, from |-> tile[c]])]
                ELSE log

\* A ping naming repeaters.  With none out of cooldown, or the visit at its
\* cap, nothing is written: the action is not enabled.
ApplyPaint(p, team, c, t, received, ids) ==
  \E chosen \in CreditChoices(p, c, ids, t) :
    LET points == Least(Cardinality(chosen) * Points, RemainingPoints(p, c, t))
    IN  /\ RecordCredit(p, c, chosen, t, received)
        /\ RememberLastScore(c, points, t)
        /\ ResolveOwnership(p, team, c, t, points)

\* A DEFER scores what the cell's last scored ping earned, once per cooldown
\* and outside the visit cap, and is then credited under its own id -- unless
\* the paint raised on the log, which its caller meets before the credit.
DeferPoints(c) == IF lastScore[c] = NoRow THEN Points ELSE lastScore[c].pts

DeferUnscored(p, c, t) == DeferId \in CreditedIds(p, c, t)

ApplyDefer(p, team, c, t, received) ==
  /\ ~DeferUnscored(p, c, t)
  /\ ResolveOwnership(p, team, c, t, DeferPoints(c))
  /\ IF Takes(p, team, c, t, DeferPoints(c)) /\ t \in LoggedAt(c)
     THEN UNCHANGED <<credit, awards>>
     ELSE RecordCredit(p, c, {DeferId}, t, received)
  /\ UNCHANGED lastScore

----------------------------------------------------------------------------
(* The hourly sweeps                                                       *)

PruneCredits ==
  /\ credit' = {row \in credit : row.seen >= now - Retention}
  /\ UNCHANGED <<score, painter, lastScore, tile, capture, log, now, awards>>

\* When the owner's score reached zero.
ZeroTs(row) == IF row.pts = 0 THEN row.last ELSE row.last + row.pts \div Decay

OwnerRow(c) == score[c][tile[c]]

Expired(c) ==
  /\ tile[c] # NoTeam
  /\ OwnerRow(c) # NoRow
  /\ OwnerRow(c).pts = 0 \/ Decay > 0
  /\ now - ZeroTs(OwnerRow(c)) > ZeroSpan

ExpiredTiles == {c \in Cells : Expired(c)}

\* Oldest first, at most MaxPerSweep.
SweepChoices ==
  {E \in SUBSET ExpiredTiles :
     /\ Cardinality(E) = Least(MaxPerSweep, Cardinality(ExpiredTiles))
     /\ \A c \in E, d \in ExpiredTiles \ E : ZeroTs(OwnerRow(c)) <= ZeroTs(OwnerRow(d))}

\* Mutation: the capture clock is left running.
ReleaseKeepsCapture(E) ==
  /\ tile' = [c \in Cells |-> IF c \in E THEN NoTeam ELSE tile[c]]
  /\ log' = [c \in Cells |->
       IF c \in E THEN Append(log[c], [ts |-> now, by |-> NoTeam, from |-> tile[c]])
       ELSE log[c]]
  /\ UNCHANGED <<score, painter, credit, lastScore, capture, now, awards>>

\* The release is logged at the server's wall clock; scores and painters stay.
ReleaseTiles(E) ==
  /\ tile' = [c \in Cells |-> IF c \in E THEN NoTeam ELSE tile[c]]
  /\ capture' = [c \in Cells |-> IF c \in E THEN NoRow ELSE capture[c]]
  /\ log' = [c \in Cells |->
       IF c \in E THEN Append(log[c], [ts |-> now, by |-> NoTeam, from |-> tile[c]])
       ELSE log[c]]
  /\ UNCHANGED <<score, painter, credit, lastScore, now, awards>>

\* One transaction: a second the log already holds of one of the cells rolls the
\* whole sweep back, until the next hour.
ReleaseSweep ==
  /\ Releases
  /\ \E E \in SweepChoices :
       /\ \A c \in E : now \notin LoggedAt(c)
       /\ ReleaseTiles(E)

----------------------------------------------------------------------------

Init ==
  /\ score = [c \in Cells |-> [k \in Teams |-> NoRow]]
  /\ painter = {}
  /\ credit = {}
  /\ lastScore = [c \in Cells |-> NoRow]
  /\ tile = [c \in Cells |-> NoTeam]
  /\ capture = [c \in Cells |-> NoRow]
  /\ log = [c \in Cells |-> <<>>]
  /\ now = 0
  /\ awards = {}

Tick ==
  /\ now < Horizon
  /\ now' = now + 1
  /\ UNCHANGED <<board, credit, lastScore, awards>>

\* One ping of a batch that was received at some earlier instant.
ScorePing(p, team, c, ids, ts, received) ==
  /\ ApplyPaint(p, team, c, ClampScoringClock(ts, received), received, ids)
  /\ UNCHANGED now

ScoreDefer(p, team, c, ts, received) ==
  /\ ApplyDefer(p, team, c, ClampScoringClock(ts, received), received)
  /\ UNCHANGED now

ReceiptTimes == (now - Lag)..now

\* A batch reads its player's team once, so a player may have changed teams
\* between any two paints.
Next ==
  \/ Tick
  \/ \E p \in Players, team \in Teams, c \in Cells,
        ts \in ClientClocks, received \in ReceiptTimes :
       \/ \E ids \in SUBSET Repeaters : ScorePing(p, team, c, ids, ts, received)
       \/ ScoreDefer(p, team, c, ts, received)
  \/ PruneCredits
  \/ ReleaseSweep

Spec == Init /\ [][Next]_vars

----------------------------------------------------------------------------
(* Properties                                                              *)

ScoreRow   == [pts : Int, last : Int]
CaptureRow == [at : Int, by : Teams]
LastRow    == [pts : Int, ts : Int]
LogRow     == [ts : Int, by : Teams \cup {NoTeam}, from : Teams \cup {NoTeam}]
CreditRow  == [player : Players, cell : Cells, id : Ids, ts : Int, seen : Int]
Award      == [player : Players, cell : Cells, id : Ids, ts : Int]

TypeOK ==
  /\ score \in [Cells -> [Teams -> ScoreRow \cup {NoRow}]]
  /\ painter \subseteq Cells \X Teams \X Players
  /\ credit \subseteq CreditRow
  /\ lastScore \in [Cells -> LastRow \cup {NoRow}]
  /\ tile \in [Cells -> Teams \cup {NoTeam}]
  /\ capture \in [Cells -> CaptureRow \cup {NoRow}]
  /\ log \in [Cells -> Seq(LogRow)]
  /\ now \in Nat
  /\ awards \subseteq Award

\* There is a release among a cell's rows from the i-th on.
ReleasedSince(c, i) == \E j \in i..Len(log[c]) : log[c][j].by = NoTeam

\* The seconds of a cell's rows up to its last release.
SecondsUpToRelease(c) == {log[c][i].ts : i \in {j \in 1..Len(log[c]) : ReleasedSince(c, j)}}

\* The newest log row in rowid order is the capture the clock counts from.
CaptureIsLogged(c) ==
  /\ log[c] # <<>>
  /\ log[c][Len(log[c])].by = tile[c]
  /\ log[c][Len(log[c])].ts = capture[c].at

RecordedAt(c) ==
  IF tile[c] = NoTeam
  THEN /\ capture[c] = NoRow
       /\ log[c] # <<>> => log[c][Len(log[c])].by = NoTeam
  ELSE /\ capture[c] # NoRow
       /\ capture[c].by = tile[c]
       /\ OwnerRow(c) # NoRow
       /\ CaptureIsLogged(c) \/ capture[c].at \in SecondsUpToRelease(c)

\* A cell has an owner exactly when its capture clock runs, the clock is the
\* owner's, and the owner has the score row that the release sweep's inner join
\* expects ("this should not happen in practice", find_expired_tiles).  The log
\* follows: a free cell's newest row is a release, an owned cell's is the very
\* capture, and the one capture it can miss is one dated to a second that the
\* cell's rows up to its last release hold.
OwnerIsRecorded == \A c \in Cells : RecordedAt(c)

\* "Capture audit log: every flip, who did it, and who it was taken from"
\* (db.py): a cell that changes hands leaves a row.  The code does not keep it,
\* once a cell was released.
EveryFlipIsLogged ==
  [][\A c \in Cells : tile'[c] # tile[c] => Len(log'[c]) > Len(log[c])]_vars

HeldAt(c) ==
  \A i \in 1..(Len(log[c]) - 1) :
    LET held == log[c][i]
        next == log[c][i + 1]
    IN  held.by # NoTeam =>
          /\ next.by # NoTeam => next.ts - held.ts >= Defense
          /\ \/ next.from = held.by /\ next.by # held.by
             \/ \E j \in 1..i : log[c][j].ts - held.ts >= Defense

\* A capture on the log and the row after it: another capture is at least a
\* defense window later by the clock the log keeps, however late and in whatever
\* order the pings were processed.  The row says it was taken from the first, or
\* a capture came between them that the log has no row of, its second, a defense
\* window after the first too, being taken.
DefenseHeld == \A c \in Cells : HeldAt(c)

\* results.ownership_at: the newest row at or before an instant, ties by rowid.
OwnershipAt(c, at) ==
  LET seen   == {i \in 1..Len(log[c]) : log[c][i].ts <= at}
      newest == CHOOSE i \in seen : \A j \in seen :
                  log[c][j].ts < log[c][i].ts \/ (log[c][j].ts = log[c][i].ts /\ j <= i)
  IN  IF seen = {} THEN NoTeam ELSE log[c][newest].by

\* Until a cell is first released the log answers, for the latest instant any
\* row can carry, the team that holds it.
OwnershipExactUntilRelease ==
  \A c \in Cells :
    (\A i \in 1..Len(log[c]) : log[c][i].by # NoTeam)
      => OwnershipAt(c, now + Clamp) = tile[c]

\* "Exact, because a cell has no neutral state ... the newest capture at or
\* before at_ts names both the owner and the last painter then" (results.py).
OwnershipExact == \A c \in Cells : OwnershipAt(c, now + Clamp) = tile[c]

\* "A repeater already credited to this player on this cell within the
\* cooldown window earns nothing again", nor does the same repeater seen at
\* another hash width -- with pings out of order and old credits pruned.  The
\* credits are those on record; a DEFER whose capture went unlogged leaves none.
CreditsAreSpaced ==
  \A a, b \in awards :
    (/\ a # b /\ a.player = b.player /\ a.cell = b.cell
     /\ a.id = b.id \/ AreTwins(a.id, b.id))
    => a.ts - b.ts > Cooldown \/ b.ts - a.ts > Cooldown

============================================================================
