----------------------------- MODULE FeedsProofs -----------------------------
(* What the feeds of the Meshtastic board keep for any page, window and      *)
(* retention: FreqMapper's events are decided one after the other and old    *)
(* ones paint once, meshview's packets move a player's last fix only         *)
(* forward, no group of regions comes to hold itself, and the squares of a   *)
(* region are its boundary's once a remap is through.                        *)
EXTENDS MCFeeds, FiniteSetTheorems, WellFoundedInduction, TLAPS

-----------------------------------------------------------------------------
(* Numbers.                                                                  *)

LEMMA LeastOfNats ==
    ASSUME NEW S, S \subseteq Nat, S # {}
    PROVE  \E m \in S : \A x \in S : m <= x
<1>1. PICK m \in S : \A x \in S : <<x, m>> \notin OpToRel(<, Nat)
    BY WFMin, NatLessThanWellFounded
<1>2. ASSUME NEW x \in S PROVE m <= x
    <2>1. m \in Nat /\ x \in Nat
        OBVIOUS
    <2>2. x < m => <<x, m>> \in OpToRel(<, Nat)
        BY <2>1, Zenon DEF OpToRel
    <2>3. ~(x < m)
        BY <1>1, <2>2, Zenon
    <2> QED BY <2>1, <2>3
<1> QED BY <1>2

\* Induction over an interval, for a set of numbers.
LEMMA Upwards ==
    ASSUME NEW a \in Int, NEW b \in Int, NEW S, a \in S,
           \A i \in a + 1..b : i - 1 \in S => i \in S
    PROVE  \A i \in a..b : i \in S
<1> SUFFICES ASSUME NEW i \in a..b, i \notin S PROVE FALSE
    OBVIOUS
<1> DEFINE missing == {n \in Nat : a + n <= b /\ a + n \notin S}
<1>1. i - a \in missing
    <2>1. a + (i - a) = i /\ i - a \in Nat
        OBVIOUS
    <2> QED BY <2>1
<1>2. PICK n \in missing : \A m \in missing : n <= m
    <2> HIDE DEF missing
    <2>1. missing \subseteq Nat
        BY DEF missing
    <2> QED BY <1>1, <2>1, LeastOfNats
<1>3. n # 0
    <2>1. a + 0 = a
        OBVIOUS
    <2> QED BY <1>2, <2>1
<1>4. n \in Nat /\ a + n \in a + 1..b /\ a + n \notin S
    BY <1>2, <1>3
<1>5. (a + n) - 1 \notin S
    BY <1>4
<1>6. (a + n) - 1 = a + (n - 1) /\ n - 1 \in Nat /\ a + (n - 1) <= b
    BY <1>3, <1>4
<1>7. n - 1 \in missing
    BY <1>5, <1>6
<1> QED BY <1>2, <1>4, <1>7

LEMMA GreatestBelow ==
    ASSUME NEW S, S \subseteq Nat, S # {}, NEW n \in Nat, \A x \in S : x <= n
    PROVE  \E m \in S : \A x \in S : x <= m
<1> DEFINE D == {n - x : x \in S}
<1>1. D \subseteq Nat /\ D # {}
    <2>1. ASSUME NEW x \in S PROVE n - x \in Nat
        <3>1. x \in Nat /\ x <= n
            OBVIOUS
        <3> QED BY <3>1
    <2> QED BY <2>1
<1>2. PICK d \in D : \A e \in D : d <= e
    <2> HIDE DEF D
    <2> QED BY <1>1, LeastOfNats
<1>3. PICK m \in S : d = n - m
    BY <1>2
<1>4. ASSUME NEW x \in S PROVE x <= m
    <2>1. n - x \in D
        OBVIOUS
    <2>2. n - m <= n - x
        BY <1>2, <1>3, <2>1
    <2>3. x \in Nat /\ m \in Nat
        OBVIOUS
    <2> QED BY <2>2, <2>3
<1> QED BY <1>4

-----------------------------------------------------------------------------
(* FreqMapper: one event.                                                    *)

EventRows == [pub : Nat, occ : Int, radio : Radios]

TableRows ==
    [mark : Int \cup {None}, verif : SUBSET [id : Nat, at : Nat],
     pings : SUBSET [radio : Radios, ts : Int, at : Nat],
     painted : SUBSET Nat, twice : SUBSET Nat, stale : SUBSET Nat,
     dated : SUBSET Nat, refused : SUBSET Nat]

\* The mark is past every event that painted, and an event was seen after it was
\* published.
Sound(tb) ==
    /\ tb \in TableRows
    /\ \A v \in tb.verif : v.id \in DOMAIN feed /\ feed[v.id].pub <= v.at /\ v.at <= now
    /\ \A i \in tb.painted : i \in DOMAIN feed /\ tb.mark # None /\ feed[i].pub <= tb.mark
    /\ tb.stale = {}

Seen(tb) == Ids(tb.verif) \cup tb.painted \cup tb.dated \cup tb.refused

FeedShape ==
    /\ now \in Nat
    /\ feed \in Seq(EventRows)
    /\ \A i \in DOMAIN feed : feed[i].pub <= now

LEMMA EventFacts ==
    ASSUME FeedShape, NEW i \in DOMAIN feed
    PROVE  /\ i \in Nat /\ feed[i] \in EventRows
           /\ feed[i].pub \in Nat /\ feed[i].occ \in Int /\ feed[i].radio \in Radios
           /\ feed[i].pub <= now
<1>1. i \in Nat /\ feed[i] \in EventRows
    <2>1. feed \in Seq(EventRows)
        BY DEF FeedShape
    <2> QED BY <2>1
<1>2. feed[i].pub <= now
    BY DEF FeedShape
<1> QED BY <1>1, <1>2 DEF EventRows

LEMMA EventKeeps ==
    ASSUME FeedShape, NEW tb, Sound(tb), NEW i \in DOMAIN feed,
           NEW cfg, cfg.allow \in BOOLEAN
    PROVE  /\ Sound(ProcessEvent(tb, i, cfg))
           /\ i \in Seen(ProcessEvent(tb, i, cfg))
           /\ Seen(tb) \subseteq Seen(ProcessEvent(tb, i, cfg))
<1> DEFINE e == feed[i]
           known == [tb EXCEPT !.verif = @ \cup {[id |-> i, at |-> now]}]
           past == [known EXCEPT !.mark = Advanced(@, GuardTime(e))]
<1>1. /\ i \in Nat /\ e \in EventRows /\ now \in Nat
      /\ e.pub \in Nat /\ e.occ \in Int /\ e.radio \in Radios /\ e.pub <= now
    BY EventFacts DEF FeedShape
<1>2. tb \in TableRows /\ (tb.mark = None \/ tb.mark \in Int)
    BY DEF Sound, TableRows
<1>3. None \notin Int
    BY FeedLimits
<1>4. Sound(known) /\ known.mark = tb.mark /\ known.painted = tb.painted
      /\ Seen(known) = Seen(tb) \cup {i}
    <2>1. known \in TableRows
        BY <1>1, <1>2 DEF TableRows
    <2>2. /\ known.verif = tb.verif \cup {[id |-> i, at |-> now]}
          /\ known.mark = tb.mark /\ known.painted = tb.painted /\ known.stale = tb.stale
          /\ known.dated = tb.dated /\ known.refused = tb.refused
        BY <1>2 DEF TableRows
    <2> HIDE DEF known
    <2>3. Sound(known)
        BY <1>1, <2>1, <2>2 DEF Sound
    <2>4. Ids(known.verif) = Ids(tb.verif) \cup {i}
        <3> DEFINE seen == [id |-> i, at |-> now]
        <3>1. seen.id = i
            OBVIOUS
        <3> HIDE DEF seen
        <3> QED BY <2>2, <3>1 DEF Ids, seen
    <2> QED BY <2>2, <2>3, <2>4 DEF Seen
<1>5. /\ past.mark \in Int /\ e.pub <= past.mark
      /\ tb.mark # None => tb.mark <= past.mark
    <2>1. past.mark = Advanced(tb.mark, e.pub)
        BY <1>2, <1>4 DEF TableRows, GuardTime, Sound
    <2> QED BY <1>1, <1>2, <1>3, <2>1 DEF Advanced
<1>6. /\ Sound(past) /\ Seen(past) = Seen(tb) \cup {i} /\ past.painted = tb.painted
    <2>1. past = [known EXCEPT !.mark = past.mark]
        BY <1>4 DEF TableRows, Sound
    <2>2. past.mark # None
        BY <1>3, <1>5
    <2> HIDE DEF past, known
    <2>3. /\ past \in TableRows
          /\ past.verif = known.verif /\ past.painted = known.painted /\ past.stale = known.stale
          /\ past.dated = known.dated /\ past.refused = known.refused
        BY <1>4, <1>5, <2>1 DEF TableRows, Sound
    <2>4. \A j \in past.painted : j \in DOMAIN feed /\ feed[j].pub <= past.mark
        <3>1. ASSUME NEW j \in past.painted PROVE j \in DOMAIN feed /\ feed[j].pub <= past.mark
            <4>1. j \in DOMAIN feed /\ tb.mark # None /\ feed[j].pub <= tb.mark
                BY <1>4, <2>3, <3>1 DEF Sound
            <4>2. feed[j].pub \in Nat
                BY <4>1, EventFacts
            <4> QED BY <1>2, <1>5, <4>1, <4>2
        <3> QED BY <3>1
    <2> QED BY <1>4, <2>2, <2>3, <2>4 DEF Sound, Seen
<1> HIDE DEF known, past
<1>7. CASE cfg.from = None \/ e.occ < cfg.from
    <2> DEFINE new == [tb EXCEPT !.dated = @ \cup {i}]
    <2>1. ProcessEvent(tb, i, cfg) = new
        BY <1>7 DEF ProcessEvent
    <2>2. /\ new \in TableRows /\ new.dated = tb.dated \cup {i}
          /\ new.verif = tb.verif /\ new.painted = tb.painted /\ new.mark = tb.mark
          /\ new.stale = tb.stale /\ new.refused = tb.refused
        BY <1>1, <1>2 DEF TableRows
    <2> HIDE DEF new
    <2> QED BY <2>1, <2>2 DEF Sound, Seen
<1>8. CASE ~(cfg.from = None \/ e.occ < cfg.from) /\ i \in Ids(tb.verif)
    BY <1>8 DEF ProcessEvent, Seen
<1> DEFINE fresh == ~(cfg.from = None \/ e.occ < cfg.from) /\ i \notin Ids(tb.verif)
<1>9. CASE fresh /\ IsBackfill(tb.mark, GuardTime(e)) /\ ~cfg.allow
    <2> DEFINE new == [known EXCEPT !.refused = @ \cup {i}]
    <2>1. ProcessEvent(tb, i, cfg) = new
        BY <1>9 DEF ProcessEvent, known
    <2>2. /\ new \in TableRows /\ new.refused = known.refused \cup {i}
          /\ new.verif = known.verif /\ new.painted = known.painted /\ new.mark = known.mark
          /\ new.stale = known.stale /\ new.dated = known.dated
        BY <1>1, <1>4 DEF TableRows, Sound
    <2> HIDE DEF new
    <2> QED BY <1>4, <2>1, <2>2 DEF Sound, Seen
<1>10. CASE fresh /\ ~(IsBackfill(tb.mark, GuardTime(e)) /\ ~cfg.allow)
            /\ ProcessEvent(tb, i, cfg) = past
    BY <1>6, <1>10
<1>11. CASE fresh /\ ~(IsBackfill(tb.mark, GuardTime(e)) /\ ~cfg.allow)
            /\ ProcessEvent(tb, i, cfg) = Paint(past, i, cfg.allow)
    <2> DEFINE new == Paint(past, i, cfg.allow)
               later == {j \in past.painted : feed[j].pub > e.pub}
               again == {i} \cap past.painted
    <2>1. cfg.allow \/ later = {} \/ again = {}
        <3>1. CASE tb.mark = None
            BY <1>6, <3>1 DEF Sound
        <3>2. CASE tb.mark # None /\ ~cfg.allow
            <4>1. ~(e.pub < tb.mark)
                BY <1>11, <3>2 DEF IsBackfill, GuardTime
            <4>2. \A j \in past.painted : feed[j].pub \in Nat /\ feed[j].pub <= tb.mark
                BY <1>6, <3>2, EventFacts DEF Sound
            <4> QED BY <1>1, <1>2, <3>2, <4>1, <4>2
        <3> QED BY <3>1, <3>2
    <2>2. past \in TableRows /\ past.stale = {}
        BY <1>6 DEF Sound
    <2>3. [radio |-> e.radio, ts |-> e.occ, at |-> now] \in [radio : Radios, ts : Int, at : Nat]
        BY <1>1
    <2>4. /\ new.painted = past.painted \cup {i}
          /\ new.mark = past.mark /\ new.verif = past.verif
          /\ new.dated = past.dated /\ new.refused = past.refused
        BY <2>2 DEF Paint, TableRows
    <2>5. new.stale = {}
        BY <2>1, <2>2 DEF Paint, TableRows
    <2>6. new \in TableRows
        <3>1. new.pings = past.pings \cup {[radio |-> e.radio, ts |-> e.occ, at |-> now]}
              /\ new.twice \in {past.twice, past.twice \cup again}
            BY <2>2 DEF Paint, TableRows
        <3>2. new = [past EXCEPT !.pings = new.pings, !.painted = new.painted,
                                 !.twice = new.twice, !.stale = new.stale]
            BY <2>2 DEF Paint, TableRows
        <3> HIDE DEF new
        <3> QED BY <1>1, <2>2, <2>3, <2>4, <2>5, <3>1, <3>2 DEF TableRows
    <2>7. past.mark # None
        BY <1>3, <1>5
    <2> HIDE DEF new, later, again
    <2>8. Sound(new)
        BY <1>5, <1>6, <2>4, <2>5, <2>6, <2>7 DEF Sound
    <2>9. i \in Seen(new) /\ Seen(tb) \subseteq Seen(new)
        BY <1>6, <2>4 DEF Seen
    <2> QED BY <1>11, <2>8, <2>9 DEF new
<1>12. fresh /\ ~(IsBackfill(tb.mark, GuardTime(e)) /\ ~cfg.allow)
       => ProcessEvent(tb, i, cfg) \in {past, Paint(past, i, cfg.allow)}
    BY DEF ProcessEvent, past, known
<1> QED BY <1>7, <1>8, <1>9, <1>10, <1>11, <1>12
-----------------------------------------------------------------------------
(* FreqMapper: one page.                                                     *)

\* The recursion of a page has its values.
PageWalk(f, from, last, tb, cfg) ==
    f = [i \in from..last |-> IF i = from THEN tb ELSE ProcessEvent(f[i - 1], i, cfg)]

LEMMA PageSteps ==
    ASSUME NEW from \in Int, NEW last \in Int, from <= last, NEW tb, NEW cfg
    PROVE  \E f : PageWalk(f, from, last, tb, cfg)
<1> DEFINE Steps(f, n) == f = [i \in from..n |->
                                  IF i = from THEN tb ELSE ProcessEvent(f[i - 1], i, cfg)]
           done == {n \in from..last : \E f : Steps(f, n)}
<1>1. from \in done
    <2>1. from..from = {from}
        OBVIOUS
    <2>2. Steps([i \in from..from |-> tb], from)
        BY <2>1
    <2>3. from \in from..last
        OBVIOUS
    <2> HIDE DEF Steps
    <2> QED BY <2>2, <2>3
<1>2. ASSUME NEW n \in from + 1..last, n - 1 \in done PROVE n \in done
    <2>1. PICK f : Steps(f, n - 1)
        BY <1>2
    <2> DEFINE g == [i \in from..n |->
                        IF i = n THEN ProcessEvent(f[n - 1], n, cfg) ELSE f[i]]
    <2>2. n \in from..last /\ n # from /\ n - 1 \in from..n
        OBVIOUS
    <2>3. ASSUME NEW i \in from..n
          PROVE  g[i] = IF i = from THEN tb ELSE ProcessEvent(g[i - 1], i, cfg)
        <3>1. CASE i = n
            BY <2>2, <3>1
        <3>2. CASE i # n
            <4>1. i \in from..n - 1 /\ (i # from => i - 1 \in from..n /\ i - 1 # n)
                BY <3>2
            <4>2. f[i] = IF i = from THEN tb ELSE ProcessEvent(f[i - 1], i, cfg)
                BY <2>1, <4>1
            <4>3. g[i] = f[i] /\ (i # from => g[i - 1] = f[i - 1])
                BY <3>2, <4>1
            <4> QED BY <4>2, <4>3
        <3> QED BY <3>1, <3>2
    <2>4. Steps(g, n)
        BY <2>3
    <2> HIDE DEF Steps
    <2> QED BY <2>2, <2>4
<1> HIDE DEF done
<1>3. last \in done
    BY <1>1, <1>2, Upwards
<1> QED BY <1>3 DEF done, PageWalk

\* A page keeps the tables sound, and decides each of its events.
LEMMA PageKeeps ==
    ASSUME FeedShape, Sound(tables), PageLimit \in Nat,
           NEW from \in Nat, from <= Len(feed), NEW cfg, cfg.allow \in BOOLEAN
    PROVE  /\ Sound(AfterPage(from, cfg))
           /\ Seen(tables) \cup (from + 1..PageEnd(from)) \subseteq Seen(AfterPage(from, cfg))
<1> DEFINE last == PageEnd(from)
           Step(f, i) == IF i = from THEN tables ELSE ProcessEvent(f[i - 1], i, cfg)
           after == CHOOSE f : f = [i \in from..last |-> Step(f, i)]
<1>1. Len(feed) \in Nat /\ DOMAIN feed = 1..Len(feed)
    BY DEF FeedShape
<1>2. last \in Nat /\ from <= last /\ last <= Len(feed)
    BY <1>1 DEF PageEnd, Earlier
<1>3. AfterPage(from, cfg) = after[last]
    BY DEF AfterPage
<1>4. after = [i \in from..last |-> Step(after, i)]
    <2> HIDE DEF last
    <2>1. \E f : PageWalk(f, from, last, tables, cfg)
        BY <1>2, PageSteps
    <2>2. PageWalk(CHOOSE f : PageWalk(f, from, last, tables, cfg), from, last, tables, cfg)
        BY <2>1, Zenon
    <2> QED BY <2>2 DEF PageWalk
<1> HIDE DEF after, last
<1> DEFINE good == {i \in from..last :
                       /\ Sound(after[i])
                       /\ Seen(tables) \cup (from + 1..i) \subseteq Seen(after[i])}
<1>5. from \in good
    <2>1. from \in from..last /\ from + 1..from = {}
        BY <1>2
    <2>2. after[from] = tables
        BY <1>4, <2>1
    <2> QED BY <2>1, <2>2
<1>6. ASSUME NEW i \in from + 1..last, i - 1 \in good PROVE i \in good
    <2>1. i \in from..last /\ i # from /\ i \in DOMAIN feed
        BY <1>1, <1>2
    <2>2. after[i] = ProcessEvent(after[i - 1], i, cfg)
        BY <1>4, <2>1
    <2>3. /\ Sound(after[i]) /\ i \in Seen(after[i])
          /\ Seen(after[i - 1]) \subseteq Seen(after[i])
        BY <1>6, <2>1, <2>2, EventKeeps
    <2>4. Seen(tables) \cup (from + 1..i - 1) \subseteq Seen(after[i - 1])
        BY <1>6
    <2>5. from + 1..i = (from + 1..i - 1) \cup {i}
        BY <1>2
    <2> QED BY <2>1, <2>3, <2>4, <2>5
<1> HIDE DEF good
<1>7. last \in good
    BY <1>2, <1>5, <1>6, Upwards, SMTT(30)
<1> QED BY <1>3, <1>7 DEF good, last
-----------------------------------------------------------------------------
(* FreqMapper: the steps.                                                    *)

Decided(i) == i \in Seen(tables) \/ feed[i].pub < now - VerifKept

FreqConfigs == [source : {"freqmapper", "meshview"}, from : Times \cup {None}, allow : BOOLEAN]

FreqInv ==
    /\ FeedShape
    /\ Sound(tables)
    /\ config \in FreqConfigs
    /\ cursor \in Nat /\ cursor <= Len(feed)
    /\ DecidedUpToCursor
    /\ poll # None => /\ poll.config \in FreqConfigs
                      /\ poll.cursor \in Nat /\ poll.cursor <= Len(feed)
                      /\ \A i \in 1..poll.cursor : Decided(i)

LEMMA CursorDecided == DecidedUpToCursor <=> \A i \in 1..cursor : Decided(i)
    BY DEF DecidedUpToCursor, Decided, Seen

LEMMA FreqNumbers ==
    /\ {PageLimit, VerifKept, PingKept, SeedGrace, MaxEvents, MaxAdmin, Horizon} \subseteq Nat
    /\ None \notin Int
BY FeedNumbers, FeedLimits

\* The feed grows at its end, and time goes on.
LEMMA FreqGrows ==
    ASSUME FreqInv, UNCHANGED <<cursor, config, tables, poll>>,
           feed' \in Seq(EventRows), Len(feed) <= Len(feed'),
           \A i \in DOMAIN feed : feed'[i] = feed[i],
           \A i \in DOMAIN feed' : feed'[i].pub <= now',
           now' \in Nat, now <= now'
    PROVE  FreqInv'
<1>1. /\ DOMAIN feed = 1..Len(feed) /\ Len(feed) \in Nat
      /\ DOMAIN feed' = 1..Len(feed') /\ Len(feed') \in Nat
    BY DEF FreqInv, FeedShape
<1>2. FeedShape'
    BY DEF FeedShape
<1>3. Sound(tables)'
    <2>1. \A v \in tables.verif : v.at \in Nat
        BY DEF FreqInv, Sound, TableRows
    <2>2. \A i \in DOMAIN feed : i \in DOMAIN feed'
        BY <1>1
    <2>3. now \in Nat
        BY DEF FreqInv, FeedShape
    <2>4. \A v \in tables.verif : v.id \in DOMAIN feed' /\ feed'[v.id].pub <= v.at /\ v.at <= now'
        BY <2>1, <2>2, <2>3 DEF FreqInv, Sound
    <2>5. \A i \in tables.painted :
              i \in DOMAIN feed' /\ tables.mark # None /\ feed'[i].pub <= tables.mark
        BY <2>2 DEF FreqInv, Sound
    <2>6. tables \in TableRows /\ tables.stale = {}
        BY DEF FreqInv, Sound
    <2> QED BY <2>4, <2>5, <2>6 DEF Sound, TableRows
<1>4. ASSUME NEW i \in DOMAIN feed, Decided(i) PROVE Decided(i)'
    <2>1. feed[i].pub \in Nat /\ now \in Nat
        BY EventFacts DEF FreqInv, FeedShape
    <2>2. feed'[i] = feed[i]
        OBVIOUS
    <2>3. VerifKept \in Nat
        BY FreqNumbers
    <2>4. feed[i].pub < now - VerifKept => feed[i].pub < now' - VerifKept
        BY <2>1, <2>3
    <2> QED BY <1>4, <2>2, <2>4 DEF Decided, Seen, Ids
<1>5. \A c \in Nat : c <= Len(feed) /\ (\A i \in 1..c : Decided(i))
                     => c <= Len(feed') /\ \A i \in 1..c : Decided(i)'
    BY <1>1, <1>4
<1>6. DecidedUpToCursor'
    <2>1. \A i \in 1..cursor : Decided(i)'
        BY <1>5, CursorDecided DEF FreqInv
    <2> QED BY <2>1 DEF DecidedUpToCursor, Decided, Seen
<1>7. poll' # None => \A i \in 1..poll'.cursor : Decided(i)'
    BY <1>5 DEF FreqInv
<1> QED BY <1>1, <1>2, <1>3, <1>6, <1>7 DEF FreqInv, FreqConfigs, Times

\* The tables move on: nothing that was decided is forgotten too early.
LEMMA TablesMove ==
    ASSUME FreqInv, UNCHANGED <<now, feed, config>>, Sound(tables'),
           \A i \in DOMAIN feed : Decided(i) => Decided(i)',
           cursor' \in Nat, cursor' <= Len(feed), \A i \in 1..cursor' : Decided(i)',
           \/ poll' = poll \/ poll' = None
           \/ poll' = [cursor |-> cursor, config |-> config]
    PROVE  FreqInv'
<1>1. Sound(tables)' /\ FeedShape'
    BY DEF Sound, FeedShape, FreqInv, TableRows, EventRows
<1>2. DecidedUpToCursor'
    BY DEF DecidedUpToCursor, Decided, Seen
<1>3. DOMAIN feed = 1..Len(feed) /\ Len(feed) \in Nat
    BY DEF FreqInv, FeedShape
<1>4. \A c \in Nat : c <= Len(feed) /\ (\A i \in 1..c : Decided(i)) => \A i \in 1..c : Decided(i)'
    BY <1>3
<1>5. CASE poll' = poll
    <2>1. poll # None => \A i \in 1..poll.cursor : Decided(i)'
        BY <1>4 DEF FreqInv
    <2> QED BY <1>1, <1>2, <1>5, <2>1 DEF FreqInv, FreqConfigs, Times
<1>6. CASE poll' = None
    BY <1>1, <1>2, <1>6 DEF FreqInv, FreqConfigs, Times
<1>7. CASE poll' = [cursor |-> cursor, config |-> config]
    <2>1. poll'.cursor = cursor /\ poll'.config = config
        BY <1>7
    <2>2. \A i \in 1..cursor : Decided(i)'
        BY <1>4, CursorDecided DEF FreqInv
    <2> QED BY <1>1, <1>2, <2>1, <2>2 DEF FreqInv, FreqConfigs, Times
<1> QED BY <1>5, <1>6, <1>7

\* A deployment of before the mark takes its mark from what it has seen: it has not
\* painted anything since, or it would have a mark.
LEMMA SeedKeeps ==
    ASSUME FreqInv
    PROVE  Sound(Seeded(tables)) /\ Seen(Seeded(tables)) = Seen(tables)
<1>1. tables \in TableRows /\ Sound(tables) /\ now \in Nat
    BY DEF FreqInv, Sound, FeedShape
<1>2. CASE tables.mark # None \/ tables.verif = {}
    BY <1>1, <1>2 DEF Seeded
<1>3. CASE tables.mark = None /\ tables.verif # {}
    <2> DEFINE seen == {v.at : v \in tables.verif}
               top == CHOOSE t \in seen : \A s \in seen : s <= t
    <2>1. seen \subseteq Nat /\ seen # {} /\ \A s \in seen : s <= now
        BY <1>1, <1>3 DEF TableRows, Sound
    <2>2. top \in Nat
        <3> HIDE DEF seen
        <3>1. \E t \in seen : \A s \in seen : s <= t
            BY <1>1, <2>1, GreatestBelow
        <3> QED BY <2>1, <3>1
    <2> HIDE DEF top
    <2>3. Seeded(tables) = [tables EXCEPT !.mark = top - SeedGrace]
        BY <1>3 DEF Seeded, top
    <2>4. top - SeedGrace \in Int
        BY <2>2, FreqNumbers
    <2> DEFINE new == Seeded(tables)
    <2>5. /\ new \in TableRows /\ new.verif = tables.verif /\ new.painted = tables.painted
          /\ new.stale = tables.stale /\ new.dated = tables.dated /\ new.refused = tables.refused
        BY <1>1, <2>3, <2>4 DEF TableRows
    <2> HIDE DEF new
    <2>6. tables.painted = {}
        BY <1>1, <1>3 DEF Sound
    <2> QED BY <1>1, <2>5, <2>6 DEF Sound, Seen, new
<1> QED BY <1>2, <1>3

\* A verification is swept when its event is past the window that keeps it.
LEMMA HousekeepKeeps ==
    ASSUME FreqInv, Housekeep
    PROVE  FreqInv'
<1> DEFINE kept == {v \in tables.verif : v.at >= now - VerifKept}
<1>1. tables \in TableRows /\ Sound(tables)
    BY DEF FreqInv, Sound
<1>2. /\ tables' \in TableRows /\ tables'.verif = kept /\ tables'.painted = tables.painted
      /\ tables'.mark = tables.mark /\ tables'.stale = tables.stale
      /\ tables'.dated = tables.dated /\ tables'.refused = tables.refused
      /\ UNCHANGED <<now, feed, cursor, config, poll>>
    <2>1. tables' = [tables EXCEPT !.verif = kept,
                                   !.pings = {p \in tables.pings : p.at >= now - PingKept}]
        BY <1>1 DEF Housekeep, TableRows
    <2>2. {p \in tables.pings : p.at >= now - PingKept} \in SUBSET [radio : Radios, ts : Int, at : Nat]
          /\ kept \in SUBSET [id : Nat, at : Nat]
        BY <1>1 DEF TableRows
    <2> HIDE DEF kept
    <2>3. UNCHANGED <<now, feed, cursor, config, poll>>
        BY DEF Housekeep
    <2> QED BY <1>1, <2>1, <2>2, <2>3 DEF TableRows
<1>3. Sound(tables')
    BY <1>1, <1>2 DEF Sound
<1>4. ASSUME NEW i \in DOMAIN feed, Decided(i) PROVE Decided(i)'
    <2>1. CASE i \in Ids(tables.verif)
        <3>1. PICK v \in tables.verif : v.id = i
            BY <2>1 DEF Ids
        <3>2. CASE v \in kept
            BY <1>2, <3>1, <3>2 DEF Decided, Seen, Ids
        <3>3. CASE v \notin kept
            <4>1. feed[i].pub <= v.at /\ v.at \in Nat /\ feed[i].pub \in Nat /\ now \in Nat
                BY <1>1, <3>1, EventFacts DEF Sound, TableRows, FreqInv, FeedShape
            <4>2. feed[i].pub < now - VerifKept
                BY <3>3, <4>1, FreqNumbers
            <4> QED BY <1>2, <4>2 DEF Decided
        <3> QED BY <3>2, <3>3
    <2>2. CASE i \notin Ids(tables.verif)
        BY <1>2, <1>4, <2>2 DEF Decided, Seen
    <2> QED BY <2>1, <2>2
<1>5. \A i \in 1..cursor : Decided(i)'
    <2>1. \A i \in 1..cursor : i \in DOMAIN feed /\ Decided(i)
        BY CursorDecided DEF FreqInv, FeedShape
    <2> QED BY <1>4, <2>1
<1>6. cursor' = cursor /\ cursor \in Nat /\ cursor <= Len(feed)
    BY <1>2 DEF FreqInv
<1> QED BY <1>2, <1>3, <1>4, <1>5, <1>6, TablesMove

\* A poll that gets its page decides all of it.
LEMMA FinishKeeps ==
    ASSUME FreqInv, FinishPoll
    PROVE  FreqInv'
<1>1. /\ poll # None /\ poll' = None
      /\ tables' = AfterPage(poll.cursor, poll.config)
      /\ cursor' = PageEnd(poll.cursor)
      /\ UNCHANGED <<now, feed, config>>
    BY DEF FinishPoll, NextCursor
<1>2. /\ FeedShape /\ Sound(tables) /\ PageLimit \in Nat
      /\ poll.cursor \in Nat /\ poll.cursor <= Len(feed) /\ poll.config.allow \in BOOLEAN
      /\ DOMAIN feed = 1..Len(feed) /\ Len(feed) \in Nat
    BY <1>1, FreqNumbers DEF FreqInv, FreqConfigs, FeedShape
<1>3. /\ Sound(tables')
      /\ Seen(tables) \cup (poll.cursor + 1..PageEnd(poll.cursor)) \subseteq Seen(tables')
    BY <1>1, <1>2, PageKeeps
<1>4. ASSUME NEW i \in DOMAIN feed, Decided(i) PROVE Decided(i)'
    BY <1>1, <1>3, <1>4 DEF Decided
<1>5. cursor' \in Nat /\ cursor' <= Len(feed)
    BY <1>1, <1>2 DEF PageEnd, Earlier
<1>6. ASSUME NEW i \in 1..cursor' PROVE Decided(i)'
    <2>1. CASE i <= poll.cursor
        <3>1. i \in DOMAIN feed /\ Decided(i)
            BY <1>1, <1>2, <1>5, <2>1 DEF FreqInv
        <3> QED BY <1>4, <3>1
    <2>2. CASE ~(i <= poll.cursor)
        <3>1. i \in poll.cursor + 1..PageEnd(poll.cursor)
            BY <1>1, <1>2, <1>5, <2>2
        <3> QED BY <1>3, <3>1 DEF Decided
    <2> QED BY <2>1, <2>2
<1> QED BY <1>1, <1>3, <1>4, <1>5, <1>6, TablesMove

LEMMA FreqStep == FreqInv /\ [Next]_vars => FreqInv'
<1> SUFFICES ASSUME FreqInv, [Next]_vars PROVE FreqInv'
    OBVIOUS
<1>0. /\ feed \in Seq(EventRows) /\ Len(feed) \in Nat /\ DOMAIN feed = 1..Len(feed)
      /\ now \in Nat /\ \A i \in DOMAIN feed : feed[i].pub <= now /\ feed[i].pub \in Nat
      /\ cursor \in Nat /\ cursor <= Len(feed) /\ \A i \in 1..cursor : Decided(i)
      /\ Sound(tables)
    BY CursorDecided, EventFacts DEF FreqInv, FeedShape
<1>1. CASE UNCHANGED vars
    BY <1>0, <1>1, FreqGrows DEF vars
<1>2. ASSUME NEW r \in Radios, NEW occ \in 0..now, Publish(r, occ) PROVE FreqInv'
    <2>1. Event(now, r, occ) \in EventRows
        BY <1>0 DEF Event, EventRows
    <2>2. /\ feed' = Append(feed, Event(now, r, occ))
          /\ UNCHANGED <<now, cursor, config, tables, poll>>
        BY <1>2 DEF Publish
    <2>3. /\ feed' \in Seq(EventRows) /\ Len(feed') = Len(feed) + 1
          /\ DOMAIN feed' = 1..Len(feed) + 1
          /\ \A i \in DOMAIN feed : feed'[i] = feed[i]
          /\ feed'[Len(feed) + 1] = Event(now, r, occ)
        BY <1>0, <2>1, <2>2
    <2>4. Event(now, r, occ).pub = now
        BY DEF Event
    <2>5. \A i \in DOMAIN feed' : feed'[i].pub <= now'
        BY <1>0, <2>2, <2>3, <2>4
    <2> QED BY <1>0, <2>2, <2>3, <2>5, FreqGrows
<1>3. CASE Tick
    <2>1. now' = now + 1 /\ UNCHANGED <<feed, cursor, config, tables, poll>>
        BY <1>3 DEF Tick
    <2>2. \A i \in DOMAIN feed' : feed'[i].pub <= now'
        BY <1>0, <2>1
    <2> QED BY <1>0, <2>1, <2>2, FreqGrows
<1>4. CASE StartPoll
    <2>1. /\ tables' = Seeded(tables) /\ UNCHANGED <<now, feed, cursor, config>>
          /\ poll' = [cursor |-> cursor, config |-> config]
        BY <1>4 DEF StartPoll
    <2>2. Sound(tables') /\ Seen(tables') = Seen(tables)
        BY <2>1, SeedKeeps
    <2>3. \A i : Decided(i) => Decided(i)'
        BY <2>1, <2>2 DEF Decided
    <2> QED BY <1>0, <2>1, <2>2, <2>3, TablesMove
<1>5. CASE PollFails
    <2>1. UNCHANGED <<now, feed, cursor, config, tables>> /\ poll' = None
        BY <1>5 DEF PollFails
    <2>2. \A i : Decided(i) => Decided(i)'
        BY <2>1 DEF Decided, Seen, Ids
    <2> QED BY <1>0, <2>1, <2>2, TablesMove
<1>6. CASE ClearCursor
    <2>1. UNCHANGED <<now, feed, config, tables, poll>> /\ cursor' = 0
        BY <1>6 DEF ClearCursor
    <2>2. \A i : Decided(i) => Decided(i)'
        BY <2>1 DEF Decided, Seen, Ids
    <2>3. cursor' \in Nat /\ cursor' <= Len(feed) /\ \A i \in 1..cursor' : Decided(i)'
        BY <1>0, <2>1
    <2> QED BY <1>0, <2>1, <2>2, <2>3, TablesMove
<1>7. ASSUME config' \in FreqConfigs, UNCHANGED <<now, feed, cursor, tables, poll>>
      PROVE  FreqInv'
    <2>1. FeedShape' /\ Sound(tables)' /\ DecidedUpToCursor'
        BY <1>7 DEF FreqInv, FeedShape, Sound, TableRows, EventRows, DecidedUpToCursor, Ids
    <2>2. \A i : Decided(i) => Decided(i)'
        BY <1>7 DEF Decided, Seen, Ids
    <2> QED BY <1>7, <2>1, <2>2 DEF FreqInv, FreqConfigs, Times
<1>8. ASSUME NEW s \in {"freqmapper", "meshview"}, NEW d \in Times \cup {None}, SetPaint(s, d)
      PROVE  FreqInv'
    <2>1. config' = [config EXCEPT !.source = s, !.from = d]
        BY <1>8 DEF SetPaint
    <2>2. config' \in FreqConfigs
        BY <2>1 DEF FreqInv, FreqConfigs
    <2> QED BY <1>7, <1>8, <2>2 DEF SetPaint
<1>9. CASE AllowBackfill
    <2>1. config' = [config EXCEPT !.allow = ~config.allow]
        BY <1>9 DEF AllowBackfill, FreqInv, FreqConfigs
    <2>2. config' \in FreqConfigs
        BY <2>1 DEF FreqInv, FreqConfigs
    <2> QED BY <1>7, <1>9, <2>2 DEF AllowBackfill
<1>10. ASSUME NEW r \in Radios, Register(r) PROVE FreqInv'
    BY <1>7, <1>10 DEF Register, FreqInv
<1> QED BY <1>1, <1>2, <1>3, <1>4, <1>5, <1>6, <1>8, <1>9, <1>10, HousekeepKeeps, FinishKeeps DEF Next

LEMMA FreqInit == Init => FreqInv
<1> SUFFICES ASSUME Init PROVE FreqInv
    OBVIOUS
<1>1. now = 0 /\ cursor = 0 /\ poll = None /\ config \in FreqConfigs
    <2>1. 0 \in Times
        BY FreqNumbers DEF Times
    <2> QED BY <2>1 DEF Init, FreqConfigs
<1>2. FeedShape /\ Sound(tables)
    <2>1. Empty \in TableRows
        BY DEF Empty, TableRows
    <2>2. CASE feed = <<>> /\ tables = Empty
        BY <1>1, <2>1, <2>2 DEF FeedShape, Sound, Empty
    <2>3. ASSUME NEW r \in Radios, feed = <<Event(0, r, 0)>>,
                 tables = [Empty EXCEPT !.verif = {[id |-> 1, at |-> 0]}]
          PROVE  FeedShape /\ Sound(tables)
        <3>1. Event(0, r, 0) \in EventRows /\ Event(0, r, 0).pub = 0
            BY DEF Event, EventRows
        <3>2. feed \in Seq(EventRows) /\ DOMAIN feed = {1} /\ feed[1].pub = 0
            BY <2>3, <3>1
        <3>3. tables \in TableRows /\ tables.verif = {[id |-> 1, at |-> 0]}
              /\ tables.painted = {} /\ tables.stale = {}
            BY <2>1, <2>3 DEF Empty, TableRows
        <3> QED BY <1>1, <3>2, <3>3 DEF FeedShape, Sound
    <2> QED BY <2>2, <2>3 DEF Init
<1>3. Len(feed) \in Nat
    BY <1>2 DEF FeedShape
<1> QED BY <1>1, <1>2, <1>3 DEF FreqInv, DecidedUpToCursor

LEMMA FreqAlways == Spec => []FreqInv
BY FreqInit, FreqStep, PTL DEF Spec

\* However often the feed is walked again, whatever is swept meanwhile and
\* whenever the operators change what is painted, no event paints a second time
\* once a later one has painted.
THEOREM OldEventsNeverPaintTwice == Spec => []OldEventsPaintOnce
<1>1. FreqInv => OldEventsPaintOnce
    BY DEF FreqInv, Sound, OldEventsPaintOnce
<1> QED BY <1>1, FreqAlways, PTL

\* No page is skipped, whatever failed: an event the cursor is past was decided,
\* or is older than what a verification is kept.
THEOREM AlwaysDecidedUpToCursor == Spec => []DecidedUpToCursor
<1>1. FreqInv => DecidedUpToCursor
    BY DEF FreqInv
<1> QED BY <1>1, FreqAlways, PTL

-----------------------------------------------------------------------------
(* Meshtastic.                                                               *)

PacketRows == [radio : Radios, cell : Cells \cup {None}, ts : Int]
Fixes == [cell : Cells, ts : Int]
Rosters == [Radios -> Players \cup {None}]

\* A task that asks for receptions has a registered player and a usable place.
CycleFits ==
    /\ cycle.roster \in Rosters
    /\ cycle.new \subseteq DOMAIN packets
    /\ cycle.asked \subseteq DOMAIN packets
    /\ \A i \in cycle.asked : cycle.roster[packets[i].radio] # None /\ packets[i].cell # None
    /\ cycle.before \in Int /\ cycle.before <= Len(packets) + 1
    /\ cycle.cutoff \in Nat
    /\ cycle.kind = "backfill" => cycle.cutoff # 0

CycleRows == [kind : {"backfill", "waiting", "poll"}, roster : Rosters, new : SUBSET Nat,
              asked : SUBSET Nat, before : Int, cutoff : Int]

MeshInv ==
    /\ packets \in Seq(PacketRows)
    /\ holder \in Rosters
    /\ cycle = None \/ (cycle \in CycleRows /\ CycleFits)
    /\ lastFix \in [Players -> Fixes \cup {None}]
    /\ accepted \subseteq [packet : Nat, ping : [player : Players, cell : Cells, ts : Int]]
    /\ LastFixIsNewest

LEMMA PacketFacts ==
    ASSUME MeshInv, NEW i \in DOMAIN packets
    PROVE  /\ i \in Nat /\ i <= Len(packets) /\ packets[i] \in PacketRows
           /\ packets[i].radio \in Radios /\ packets[i].cell \in Cells \cup {None}
           /\ packets[i].ts \in Int
<1>1. packets \in Seq(PacketRows)
    BY DEF MeshInv
<1>2. i \in Nat /\ i <= Len(packets) /\ packets[i] \in PacketRows
    BY <1>1
<1> QED BY <1>2 DEF PacketRows

\* The cycle moves on: what it remembers still fits.
LEMMA CycleMoves ==
    ASSUME MeshInv, UNCHANGED <<holder, lastFix, accepted>>,
           packets' \in Seq(PacketRows), Len(packets) <= Len(packets'),
           \A i \in DOMAIN packets : packets'[i] = packets[i],
           \/ cycle' = None
           \/ UNCHANGED cycle
           \/ UNCHANGED packets /\ cycle' \in CycleRows /\ CycleFits'
    PROVE  MeshInv'
<1>1. /\ DOMAIN packets = 1..Len(packets) /\ Len(packets) \in Nat
      /\ DOMAIN packets' = 1..Len(packets') /\ Len(packets') \in Nat
    BY DEF MeshInv
<1>2. CASE UNCHANGED cycle /\ cycle # None
    <2>1. CycleFits /\ cycle \in CycleRows
        BY <1>2 DEF MeshInv
    <2>2. CycleFits'
        BY <1>1, <1>2, <2>1 DEF CycleFits, Rosters
    <2>3. cycle' = None \/ (cycle' \in CycleRows /\ CycleFits')
        BY <1>2, <2>1, <2>2
    <2>4. LastFixIsNewest'
        BY DEF MeshInv, LastFixIsNewest, MT!LastFixIsNewest
    <2> QED BY <2>3, <2>4 DEF MeshInv, PacketRows, Fixes, Rosters, CycleRows
<1>3. CASE cycle' = None \/ (UNCHANGED packets /\ cycle' \in CycleRows /\ CycleFits')
    <2>1. LastFixIsNewest'
        BY DEF MeshInv, LastFixIsNewest, MT!LastFixIsNewest
    <2> QED BY <1>3, <2>1 DEF MeshInv, PacketRows, Fixes, Rosters, CycleRows
<1> QED BY <1>2, <1>3

\* The transaction of one packet: a fix moves only to a packet as new as it.
LEMMA ScoreKeeps ==
    ASSUME MeshInv, NEW i, MT!Score(i)
    PROVE  MeshInv'
<1> DEFINE p == MT!Player(i)
           c == packets[i].cell
           t == packets[i].ts
<1>1. /\ cycle # None /\ cycle \in CycleRows /\ CycleFits /\ i \in cycle.asked
      /\ UNCHANGED <<packets, holder>>
      /\ cycle' = [cycle EXCEPT !.new = cycle.new \ {i}, !.asked = cycle.asked \ {i}]
    BY DEF MeshInv, MT!Score, MT!Done, MT!world, CycleRows
<1>2. i \in DOMAIN packets /\ p \in Players /\ c \in Cells /\ t \in Int
    BY <1>1, PacketFacts DEF CycleFits, Rosters, MT!Player
<1>3. cycle' \in CycleRows /\ CycleFits'
    BY <1>1 DEF CycleRows, CycleFits, Rosters
<1>4. MT!Ping(i) = [player |-> p, cell |-> c, ts |-> t]
    BY DEF MT!Ping
<1>5. /\ lastFix \in [Players -> Fixes \cup {None}]
      /\ accepted \subseteq [packet : Nat, ping : [player : Players, cell : Cells, ts : Int]]
      /\ LastFixIsNewest
    BY DEF MeshInv
<1> DEFINE quiet == UNCHANGED <<lastFix, accepted>>
           new == MT!FixAfter(lastFix[p], c, t)
           taken == [packet |-> i, ping |-> MT!Ping(i)]
<1>6. quiet \/ (lastFix' = [lastFix EXCEPT ![p] = new] /\ accepted' = accepted \cup {taken})
    BY <1>5, <1>2 DEF MT!Score
<1>7. CASE quiet
    <2>1. LastFixIsNewest'
        BY <1>5, <1>7 DEF LastFixIsNewest, MT!LastFixIsNewest
    <2> QED BY <1>1, <1>3, <1>5, <1>7, <2>1 DEF MeshInv, PacketRows, Fixes, Rosters, CycleRows
<1>8. CASE lastFix' = [lastFix EXCEPT ![p] = new] /\ accepted' = accepted \cup {taken}
    <2> DEFINE Own(q, acc) == {a.ping : a \in {b \in acc : b.ping.player = q}}
    <2>1. taken \in [packet : Nat, ping : [player : Players, cell : Cells, ts : Int]]
          /\ taken.ping = [player |-> p, cell |-> c, ts |-> t]
        BY <1>2, <1>4, PacketFacts
    <2> HIDE DEF taken
    <2>2. accepted' \subseteq [packet : Nat, ping : [player : Players, cell : Cells, ts : Int]]
        BY <1>5, <1>8, <2>1
    <2>3. /\ new \in Fixes /\ new.ts \in Int /\ t <= new.ts
          /\ lastFix[p] # None => lastFix[p].ts \in Int /\ lastFix[p].ts <= new.ts
          /\ new = [cell |-> c, ts |-> t] \/ (lastFix[p] # None /\ new = lastFix[p])
        <3>1. lastFix[p] \in Fixes \cup {None}
            BY <1>2, <1>5
        <3>2. CASE lastFix[p] = None
            BY <1>2, <3>2 DEF MT!FixAfter, Fixes
        <3>3. CASE lastFix[p] # None /\ t >= lastFix[p].ts
            BY <1>2, <3>1, <3>3 DEF MT!FixAfter, Fixes
        <3>4. CASE lastFix[p] # None /\ ~(t >= lastFix[p].ts)
            BY <1>2, <3>1, <3>4 DEF MT!FixAfter, Fixes
        <3> QED BY <3>2, <3>3, <3>4
    <2> HIDE DEF new
    <2>4. lastFix' \in [Players -> Fixes \cup {None}] /\ lastFix'[p] = new
          /\ \A q \in Players \ {p} : lastFix'[q] = lastFix[q]
        BY <1>2, <1>5, <1>8, <2>3
    <2>5. /\ Own(p, accepted') = Own(p, accepted) \cup {[player |-> p, cell |-> c, ts |-> t]}
          /\ \A q \in Players \ {p} : Own(q, accepted') = Own(q, accepted)
        <3>1. taken.ping.player = p
            BY <2>1
        <3>2. \A q : {b \in accepted' : b.ping.player = q}
                     = {b \in accepted : b.ping.player = q} \cup (IF q = p THEN {taken} ELSE {})
            BY <1>8, <3>1
        <3>3. \A S, a : {x.ping : x \in S \cup {a}} = {x.ping : x \in S} \cup {a.ping}
            OBVIOUS
        <3>4. Own(p, accepted') = Own(p, accepted) \cup {taken.ping}
            BY <3>2, <3>3
        <3>5. \A q \in Players \ {p} : Own(q, accepted') = Own(q, accepted)
            BY <3>2
        <3> QED BY <2>1, <3>4, <3>5
    <2>6. new # None
        BY <2>3, FixShape DEF Fixes
    <2>7. \A q \in Players :
              IF lastFix[q] = None THEN Own(q, accepted) = {}
              ELSE /\ [player |-> q, cell |-> lastFix[q].cell, ts |-> lastFix[q].ts] \in Own(q, accepted)
                   /\ \A g \in Own(q, accepted) : g.ts <= lastFix[q].ts
        BY <1>5 DEF LastFixIsNewest, MT!LastFixIsNewest
    <2>8. \A g \in Own(p, accepted) : g.ts \in Int
        BY <1>5
    <2> HIDE DEF Own
    <2>9. /\ [player |-> p, cell |-> new.cell, ts |-> new.ts] \in Own(p, accepted')
          /\ \A g \in Own(p, accepted') : g.ts <= new.ts
        <3>1. CASE new = [cell |-> c, ts |-> t]
            <4>1. [player |-> p, cell |-> new.cell, ts |-> new.ts] \in Own(p, accepted')
                BY <2>5, <3>1
            <4>2. ASSUME NEW g \in Own(p, accepted) PROVE g.ts <= new.ts
                <5>1. lastFix[p] # None /\ g.ts <= lastFix[p].ts
                    BY <1>2, <2>7, <4>2
                <5> QED BY <2>3, <2>8, <5>1
            <4> QED BY <2>3, <2>5, <4>1, <4>2
        <3>2. CASE lastFix[p] # None /\ new = lastFix[p]
            BY <1>2, <2>3, <2>5, <2>7, <3>2
        <3> QED BY <2>3, <3>1, <3>2
    <2>10. \A q \in Players :
              IF lastFix'[q] = None THEN Own(q, accepted') = {}
              ELSE /\ [player |-> q, cell |-> lastFix'[q].cell, ts |-> lastFix'[q].ts]
                          \in Own(q, accepted')
                   /\ \A g \in Own(q, accepted') : g.ts <= lastFix'[q].ts
        BY <2>4, <2>5, <2>6, <2>7, <2>9
    <2>11. LastFixIsNewest'
        BY <2>10 DEF LastFixIsNewest, MT!LastFixIsNewest, Own
    <2> QED BY <1>1, <1>3, <1>5, <2>2, <2>4, <2>11 DEF MeshInv, PacketRows, Fixes, Rosters, CycleRows
<1> QED BY <1>6, <1>7, <1>8

LEMMA MeshStep == MeshInv /\ [MT!Next]_mtVars => MeshInv'
<1> SUFFICES ASSUME MeshInv, [MT!Next]_mtVars PROVE MeshInv'
    OBVIOUS
<1>0. /\ packets \in Seq(PacketRows) /\ holder \in Rosters
      /\ Len(packets) \in Nat /\ DOMAIN packets = 1..Len(packets)
    BY DEF MeshInv
<1>n. Window \in Nat /\ PageSize \in Nat /\ Depth \in Nat /\ Stamps \subseteq Int
    BY FixShape
<1> DEFINE still == UNCHANGED <<holder, lastFix, accepted, packets>>
<1>a. ASSUME still, cycle' = None \/ cycle' = cycle PROVE MeshInv'
    BY <1>0, <1>a, CycleMoves
<1>b. ASSUME still, cycle' \in CycleRows, CycleFits' PROVE MeshInv'
    BY <1>0, <1>b, CycleMoves
<1>1. CASE UNCHANGED mtVars
    BY <1>1, <1>a DEF mtVars
<1>2. CASE MT!Receive
    <2>1. PICK new \in PacketRows : packets' = Append(packets, new)
        <3>1. PICK r \in Radios :
                 \/ packets' = Append(packets, MT!Unusable(r))
                 \/ \E c \in Cells, t \in Stamps : packets' = Append(packets, MT!Packet(r, c, t))
            BY <1>2 DEF MT!Receive
        <3>2. MT!Unusable(r) \in PacketRows
            BY DEF MT!Unusable, PacketRows
        <3>3. \A c \in Cells, t \in Stamps : MT!Packet(r, c, t) \in PacketRows
            BY <1>n DEF MT!Packet, PacketRows
        <3> QED BY <3>1, <3>2, <3>3
    <2>2. UNCHANGED <<holder, lastFix, accepted, cycle>>
        BY <1>2 DEF MT!Receive, MT!tables
    <2>3. /\ packets' \in Seq(PacketRows) /\ Len(packets) <= Len(packets')
          /\ \A i \in DOMAIN packets : packets'[i] = packets[i]
        BY <1>0, <2>1
    <2> QED BY <2>2, <2>3, CycleMoves
<1>3. CASE MT!SwitchSource
    BY <1>3, <1>a DEF MT!SwitchSource, MT!tables
<1>4. ASSUME NEW r \in Radios, MT!ChangeHands(r) PROVE MeshInv'
    <2>1. /\ holder' \in Rosters /\ UNCHANGED <<packets, lastFix, accepted, cycle>>
        BY <1>0, <1>4 DEF MT!ChangeHands, MT!tables, Rosters
    <2>2. CycleFits' <=> CycleFits
        BY <2>1 DEF CycleFits, Rosters
    <2>3. LastFixIsNewest'
        BY <2>1 DEF MeshInv, LastFixIsNewest, MT!LastFixIsNewest
    <2> QED BY <2>1, <2>2, <2>3 DEF MeshInv, PacketRows, Fixes, Rosters, CycleRows
\* A cycle that starts remembers the players as they are.
<1>5. ASSUME NEW kind \in {"backfill", "waiting"}, NEW before \in Int, NEW cutoff \in Nat,
             kind = "backfill" => cutoff # 0, before <= Len(packets) + 1, still, cycle' = MT!Cycle(kind, before, cutoff)
      PROVE  MeshInv'
    <2>1. cycle' \in CycleRows /\ cycle'.roster = holder /\ cycle'.new = {} /\ cycle'.asked = {}
          /\ cycle'.before = before /\ cycle'.cutoff = cutoff /\ cycle'.kind = kind
        BY <1>0, <1>5 DEF MT!Cycle, CycleRows
    <2>2. CycleFits'
        BY <1>0, <1>5, <2>1 DEF CycleFits, Rosters
    <2> QED BY <1>5, <1>b, <2>1, <2>2
<1>6. CASE MT!Start
    <2>1. /\ still
          /\ \/ cycle' = None
             \/ cycle' = MT!Cycle("backfill", Len(packets) + 1, MT!Top(0, Len(packets) - Depth) + 1)
        BY <1>6 DEF MT!Start, MT!world, MT!tables
    <2>2. MT!Top(0, Len(packets) - Depth) + 1 \in Nat \ {0}
        BY <1>0, <1>n DEF MT!Top
    <2> QED BY <1>0, <1>5, <1>a, <2>1, <2>2
<1>7. CASE MT!StartPoll
    <2>1. still /\ cycle' = MT!Cycle("waiting", 0, 0)
        BY <1>7 DEF MT!StartPoll, MT!world, MT!tables
    <2> QED BY <1>0, <1>5, <2>1
<1>8. CASE MT!BackfillPage
    <2> DEFINE first == MT!Top(1, cycle.before - PageSize)
               page == MT!Top(first, cycle.cutoff)..(cycle.before - 1)
    <2>1. still /\ cycle # None /\ cycle \in CycleRows /\ CycleFits
          /\ cycle' = [cycle EXCEPT !.new = page, !.before = first]
        BY <1>8 DEF MT!BackfillPage, MT!Between, MT!world, MT!tables, MeshInv
    <2>2. cycle.before \in Int /\ cycle.before <= Len(packets) + 1 /\ cycle.cutoff \in Nat \ {0}
        BY <1>8, <2>1 DEF CycleFits, MT!BackfillPage
    <2>3. page \subseteq 1..Len(packets) /\ first \in Int
        BY <1>0, <1>n, <2>2 DEF MT!Top
    <2>4. cycle.before > cycle.cutoff
        BY <1>8 DEF MT!BackfillPage
    <2>5. first <= Len(packets) + 1
        BY <1>0, <1>n, <2>2, <2>4 DEF MT!Top
    <2>6. page \in SUBSET Nat
        BY <1>0, <2>3
    <2> HIDE DEF first, page
    <2>7. /\ cycle' \in CycleRows
          /\ cycle'.kind = cycle.kind /\ cycle'.roster = cycle.roster /\ cycle'.new = page
          /\ cycle'.asked = cycle.asked /\ cycle'.before = first /\ cycle'.cutoff = cycle.cutoff
        BY <2>1, <2>3, <2>6 DEF CycleRows
    <2>8. CycleFits'
        BY <1>0, <2>1, <2>3, <2>5, <2>7 DEF CycleFits, Rosters
    <2> QED BY <1>b, <2>1, <2>7, <2>8
<1>9. CASE MT!Fetch
    <2>1. still /\ cycle # None /\ cycle \in CycleRows /\ CycleFits
          /\ cycle' = [cycle EXCEPT !.kind = "poll", !.new = MT!Newest]
        BY <1>9 DEF MT!Fetch, MT!Between, MT!world, MT!tables, MeshInv
    <2>2. MT!Newest \subseteq 1..Len(packets)
        BY <1>0, <1>n DEF MT!Newest, MT!Top
    <2>3. MT!Newest \in SUBSET Nat
        BY <1>0, <2>2
    <2>4. /\ cycle' \in CycleRows
          /\ cycle'.kind = "poll" /\ cycle'.roster = cycle.roster /\ cycle'.new = MT!Newest
          /\ cycle'.asked = cycle.asked /\ cycle'.before = cycle.before
          /\ cycle'.cutoff = cycle.cutoff
        BY <2>1, <2>3 DEF CycleRows
    <2>5. CycleFits'
        BY <1>0, <2>1, <2>2, <2>4 DEF CycleFits, Rosters
    <2> QED BY <1>b, <2>1, <2>4, <2>5
<1>10. CASE MT!SkipPoll \/ MT!EndCycle \/ MT!RequestFails \/ MT!Crash
    BY <1>10, <1>a DEF MT!SkipPoll, MT!EndCycle, MT!RequestFails, MT!Crash, MT!world, MT!tables, MT!vars
<1>11. ASSUME NEW i, MT!Dismiss(i) \/ MT!TaskFails(i) PROVE MeshInv'
    <2>1. still /\ cycle # None /\ cycle \in CycleRows /\ CycleFits
          /\ cycle' = [cycle EXCEPT !.new = cycle.new \ {i}, !.asked = cycle.asked \ {i}]
        BY <1>11 DEF MT!Dismiss, MT!TaskFails, MT!Done, MT!Waits, MT!world, MT!tables, MeshInv, CycleRows
    <2>2. cycle' \in CycleRows /\ CycleFits'
        BY <2>1 DEF CycleRows, CycleFits, Rosters
    <2> QED BY <1>b, <2>1, <2>2
<1>12. ASSUME NEW i, MT!AskReceptions(i) PROVE MeshInv'
    <2>1. still /\ cycle # None /\ cycle \in CycleRows /\ CycleFits
          /\ i \in cycle.new /\ cycle.roster[packets[i].radio] # None /\ packets[i].cell # None
          /\ cycle' = [cycle EXCEPT !.new = cycle.new \ {i}, !.asked = cycle.asked \cup {i}]
        BY <1>12 DEF MT!AskReceptions, MT!Waits, MT!Player, MT!world, MT!tables, MeshInv, CycleRows
    <2>2. i \in DOMAIN packets /\ i \in Nat
        BY <1>0, <2>1 DEF CycleFits
    <2>3. cycle' \in CycleRows /\ CycleFits'
        BY <2>1, <2>2 DEF CycleRows, CycleFits, Rosters
    <2> QED BY <1>b, <2>1, <2>3
<1> HIDE DEF still, MeshInv
<1> QED BY <1>1, <1>2, <1>3, <1>4, <1>6, <1>7, <1>8, <1>9, <1>10, <1>11, <1>12, ScoreKeeps DEF MT!Next

LEMMA MeshInit == MT!Init => MeshInv
<1>1. MT!Init => LastFixIsNewest
    BY DEF MT!Init, LastFixIsNewest, MT!LastFixIsNewest
<1> QED BY <1>1 DEF MT!Init, MeshInv, PacketRows, Fixes, Rosters

\* However the tasks of a page finish, whatever crashes between them, the speed
\* gate measures from the newest ping accepted of its player.
THEOREM LastFixAlwaysNewest == MT!Spec => []LastFixIsNewest
<1>1. MeshInv /\ [MT!Next]_MT!vars => MeshInv'
    BY MeshStep DEF MT!vars, MT!world, MT!tables, mtVars
<1>2. MeshInv => LastFixIsNewest
    BY DEF MeshInv
<1> QED BY <1>1, <1>2, MeshInit, PTL DEF MT!Spec

-----------------------------------------------------------------------------
(* Groups of regions.                                                        *)

GroupRows == [slug : Slugs, children : SUBSET DOMAIN groups]

GroupType ==
    /\ lastId \in Nat
    /\ DOMAIN groups \subseteq 1..lastId
    /\ groups \in [DOMAIN groups -> GroupRows]

\* The groups can be ranked, each above what it holds.
Ranks(held, rank, top) ==
    /\ rank \in [DOMAIN held -> 0..top]
    /\ \A g \in DOMAIN held : \A c \in held[g].children : rank[c] < rank[g]

Ranked == \E top \in Nat : \E rank : Ranks(groups, rank, top)

GroupInv == GroupType /\ Ranked

Closed(gs) == \A g \in gs : groups[g].children \subseteq gs
Round(gs) == gs \cup UNION {RG!Children(g) : g \in gs}

Rounds(f, gs, n) == f = [k \in 0..n |-> IF k = 0 THEN gs ELSE Round(f[k - 1])]

\* The rounds of a search have their values.
LEMMA SearchRounds ==
    ASSUME NEW gs, NEW n \in Nat
    PROVE  \E f : Rounds(f, gs, n)
<1> DEFINE done == {k \in 0..n : \E f : Rounds(f, gs, k)}
<1>1. 0 \in done
    <2>1. 0..0 = {0} /\ 0 \in 0..n
        OBVIOUS
    <2>2. Rounds([k \in 0..0 |-> gs], gs, 0)
        BY <2>1 DEF Rounds
    <2> QED BY <2>1, <2>2
<1>2. ASSUME NEW m \in 0 + 1..n, m - 1 \in done PROVE m \in done
    <2>1. PICK f : Rounds(f, gs, m - 1)
        BY <1>2
    <2> DEFINE g == [k \in 0..m |-> IF k = m THEN Round(f[m - 1]) ELSE f[k]]
    <2>2. m \in 0..n /\ m # 0 /\ m - 1 \in 0..m /\ m - 1 # m
        OBVIOUS
    <2>3. ASSUME NEW k \in 0..m PROVE g[k] = IF k = 0 THEN gs ELSE Round(g[k - 1])
        <3>1. CASE k = m
            BY <2>2, <3>1
        <3>2. CASE k # m
            <4>1. k \in 0..m - 1 /\ (k # 0 => k - 1 \in 0..m /\ k - 1 # m)
                BY <3>2
            <4>2. f[k] = IF k = 0 THEN gs ELSE Round(f[k - 1])
                BY <2>1, <4>1 DEF Rounds
            <4>3. g[k] = f[k] /\ (k # 0 => g[k - 1] = f[k - 1])
                BY <3>2, <4>1
            <4> QED BY <4>2, <4>3
        <3> QED BY <3>1, <3>2
    <2>4. Rounds(g, gs, m)
        BY <2>3 DEF Rounds
    <2> QED BY <2>2, <2>4
<1> HIDE DEF done
<1>3. n \in done
    BY <1>1, <1>2, Upwards
<1> QED BY <1>3 DEF done

LEMMA SameCount == \A S : RG!Cardinality(S) = Cardinality(S)
    BY DEF RG!Cardinality, Cardinality

\* As many rounds as there are groups reach everything: each round that is not the
\* last finds a group.
LEMMA ReachCloses ==
    ASSUME GroupType, NEW gs, gs \subseteq DOMAIN groups
    PROVE  /\ gs \subseteq RG!Reach(gs) /\ RG!Reach(gs) \subseteq DOMAIN groups
           /\ Closed(RG!Reach(gs))
           /\ \A C : gs \subseteq C /\ Closed(C) => RG!Reach(gs) \subseteq C
<1> DEFINE all == DOMAIN groups
           n == Cardinality(all)
           round == CHOOSE f : Rounds(f, gs, n)
<1>1. IsFiniteSet(all) /\ n \in Nat
    <2>1. lastId \in Nat /\ all \subseteq 1..lastId
        BY DEF GroupType
    <2>2. IsFiniteSet(all)
        <3>1. IsFiniteSet(1..lastId)
            BY <2>1, FS_Interval
        <3> QED BY <2>1, <3>1, FS_Subset
    <2> QED BY <2>2, FS_CardinalityType
<1>2. RG!Reach(gs) = round[n]
    BY SameCount, Zenon DEF RG!Reach, Rounds, Round
<1>3. Rounds(round, gs, n)
    <2>1. \E f : Rounds(f, gs, n)
        BY <1>1, SearchRounds
    <2> QED BY <2>1
<1> HIDE DEF round, n, all
<1>4. /\ round[0] = gs
      /\ \A k \in 0 + 1..n : round[k] = Round(round[k - 1])
    BY <1>1, <1>3 DEF Rounds
<1>5. \A g \in all : groups[g].children \subseteq all
    BY DEF GroupType, GroupRows, all
<1>6. \A s : s \subseteq Round(s) /\ (s \subseteq all => Round(s) \subseteq all)
    BY <1>5 DEF Round, RG!Children
<1>7. \A s : Closed(s) <=> Round(s) = s
    BY DEF Closed, Round, RG!Children
<1>8. \A k \in 0..n : gs \subseteq round[k] /\ round[k] \subseteq all
    <2> DEFINE good == {k \in 0..n : gs \subseteq round[k] /\ round[k] \subseteq all}
    <2>1. 0 \in good
        BY <1>1, <1>4 DEF all
    <2>2. ASSUME NEW k \in 0 + 1..n, k - 1 \in good PROVE k \in good
        <3>1. k \in 0..n /\ round[k] = Round(round[k - 1])
            BY <1>1, <1>4
        <3> QED BY <1>6, <2>2, <3>1
    <2> HIDE DEF good
    <2>3. \A k \in 0..n : k \in good
        BY <1>1, <2>1, <2>2, Upwards
    <2> QED BY <2>3 DEF good
<1>9. \A k \in 0..n : Closed(round[k]) \/ Cardinality(round[k]) >= k
    <2> DEFINE good == {k \in 0..n : Closed(round[k]) \/ Cardinality(round[k]) >= k}
    <2>0. \A k \in 0..n : IsFiniteSet(round[k]) /\ Cardinality(round[k]) \in Nat
        BY <1>1, <1>8, FS_Subset, FS_CardinalityType
    <2>1. 0 \in good
        BY <1>1, <2>0
    <2>2. ASSUME NEW k \in 0 + 1..n, k - 1 \in good PROVE k \in good
        <3>1. k \in 0..n /\ k - 1 \in 0..n /\ round[k] = Round(round[k - 1])
            BY <1>1, <1>4
        <3>2. CASE Closed(round[k - 1])
            BY <1>7, <3>1, <3>2
        <3>3. CASE ~Closed(round[k - 1])
            <4>1. Cardinality(round[k - 1]) >= k - 1
                BY <2>2, <3>3
            <4>2. round[k - 1] \subseteq round[k] /\ round[k - 1] # round[k]
                BY <1>6, <1>7, <3>1, <3>3
            <4>3. /\ Cardinality(round[k - 1]) <= Cardinality(round[k])
                  /\ Cardinality(round[k - 1]) # Cardinality(round[k])
                BY <2>0, <3>1, <4>2, FS_Subset
            <4>4. Cardinality(round[k]) >= k
                BY <2>0, <3>1, <4>1, <4>3
            <4> QED BY <3>1, <4>4
        <3> QED BY <3>2, <3>3
    <2> HIDE DEF good
    <2>3. \A k \in 0..n : k \in good
        BY <1>1, <2>1, <2>2, Upwards
    <2> QED BY <2>3 DEF good
<1>10. n \in 0..n
    BY <1>1
<1>11. Closed(round[n])
    <2>1. CASE Cardinality(round[n]) >= n
        <3>1. round[n] \subseteq all /\ Cardinality(round[n]) <= Cardinality(all)
              /\ (Cardinality(all) = Cardinality(round[n]) => all = round[n])
            BY <1>1, <1>8, <1>10, FS_Subset
        <3>2. Cardinality(round[n]) \in Nat
            BY <1>1, <3>1, FS_Subset, FS_CardinalityType
        <3>3. round[n] = all
            BY <1>1, <2>1, <3>1, <3>2 DEF n
        <3> QED BY <1>5, <3>3 DEF Closed
    <2> QED BY <1>9, <1>10, <2>1
<1>12. ASSUME NEW C, gs \subseteq C, Closed(C) PROVE round[n] \subseteq C
    <2> DEFINE good == {k \in 0..n : round[k] \subseteq C}
    <2>1. 0 \in good
        BY <1>1, <1>4, <1>12
    <2>2. ASSUME NEW k \in 0 + 1..n, k - 1 \in good PROVE k \in good
        <3>1. k \in 0..n /\ round[k] = Round(round[k - 1])
            BY <1>1, <1>4
        <3> QED BY <1>12, <2>2, <3>1 DEF Round, Closed, RG!Children
    <2> HIDE DEF good
    <2>3. n \in good
        BY <1>1, <1>10, <2>1, <2>2, Upwards
    <2> QED BY <2>3 DEF good
<1> QED BY <1>2, <1>8, <1>10, <1>11, <1>12 DEF all

\* What a group holds ranks below it, so it is not the group itself.
LEMMA RankedHoldsNone == GroupInv => NoGroupHoldsItself
<1> SUFFICES ASSUME GroupInv, NEW g \in DOMAIN groups
             PROVE  g \notin RG!Reach(RG!Children(g))
    BY DEF NoGroupHoldsItself, RG!NoGroupHoldsItself
<1>1. PICK rank : \E top \in Nat : Ranks(groups, rank, top)
    BY DEF GroupInv, Ranked
<1> DEFINE below == {h \in DOMAIN groups : rank[h] < rank[g]}
<1>2. RG!Children(g) = groups[g].children /\ groups[g].children \subseteq DOMAIN groups
    BY DEF RG!Children, GroupInv, GroupType, GroupRows
<1>3. groups[g].children \subseteq below
    BY <1>1, <1>2 DEF Ranks
<1>4. Closed(below)
    <2>1. ASSUME NEW h \in below, NEW c \in groups[h].children PROVE c \in below
        <3>1. h \in DOMAIN groups /\ rank[h] < rank[g] /\ c \in DOMAIN groups
            BY DEF GroupInv, GroupType, GroupRows
        <3>2. rank[c] < rank[h] /\ rank[c] \in Int /\ rank[h] \in Int /\ rank[g] \in Int
            BY <1>1, <3>1 DEF Ranks
        <3>3. rank[c] < rank[g]
            BY <3>1, <3>2
        <3> QED BY <3>1, <3>3
    <2> QED BY <2>1 DEF Closed
<1>5. RG!Reach(RG!Children(g)) \subseteq below
    BY <1>2, <1>3, <1>4, ReachCloses DEF GroupInv
<1>6. g \notin below
    BY <1>1 DEF Ranks
<1> QED BY <1>5, <1>6

\* Groups as they are, or with one group more that nothing holds, ranked above all.
LEMMA AddedKeeps ==
    ASSUME GroupInv, NEW slug \in Slugs, NEW children \in SUBSET DOMAIN groups,
           groups' = RG!Added(slug, children), lastId' = lastId + 1
    PROVE  GroupInv'
<1> DEFINE new == lastId + 1
<1>1. /\ lastId \in Nat /\ DOMAIN groups \subseteq 1..lastId
      /\ groups \in [DOMAIN groups -> GroupRows]
    BY DEF GroupInv, GroupType
<1>2. PICK top \in Nat : \E rank : Ranks(groups, rank, top)
    BY DEF GroupInv, Ranked
<1>3. PICK rank : Ranks(groups, rank, top)
    BY <1>2
<1>4. /\ DOMAIN groups' = DOMAIN groups \cup {new} /\ new \notin DOMAIN groups
      /\ groups'[new] = [slug |-> slug, children |-> children]
      /\ \A h \in DOMAIN groups : groups'[h] = groups[h]
      /\ groups' = [h \in DOMAIN groups' |-> groups'[h]]
    BY <1>1 DEF RG!Added
<1>5. groups'[new].children = children /\ groups'[new] \in [slug : Slugs, children : SUBSET DOMAIN groups']
    BY <1>4
<1>6. \A h \in DOMAIN groups : /\ groups[h] \in [slug : Slugs, children : SUBSET DOMAIN groups']
                               /\ groups[h].children \subseteq DOMAIN groups
    BY <1>1, <1>4 DEF GroupRows
<1>7. GroupType'
    BY <1>1, <1>4, <1>5, <1>6 DEF GroupType, GroupRows
<1> DEFINE above == [h \in DOMAIN groups \cup {new} |-> IF h = new THEN top + 1 ELSE rank[h]]
<1>8. Ranks(groups', above, top + 1)
    <2>1. above \in [DOMAIN groups' -> 0..(top + 1)]
        BY <1>3, <1>4 DEF Ranks
    <2>2. \A h \in DOMAIN groups : above[h] = rank[h] /\ rank[h] \in 0..top
        BY <1>3, <1>4 DEF Ranks
    <2>3. above[new] = top + 1
        BY <1>4
    <2> HIDE DEF above, new
    <2>4. ASSUME NEW g \in DOMAIN groups', NEW c \in groups'[g].children PROVE above[c] < above[g]
        <3>1. CASE g = new
            BY <1>5, <2>2, <2>3, <2>4, <3>1
        <3>2. CASE g # new
            <4>1. g \in DOMAIN groups /\ c \in groups[g].children /\ c \in DOMAIN groups
                BY <1>4, <1>6, <2>4, <3>2
            <4> QED BY <1>3, <2>2, <4>1 DEF Ranks
        <3> QED BY <3>1, <3>2
    <2> QED BY <2>1, <2>4 DEF Ranks
<1>9. Ranked'
    <2> HIDE DEF above
    <2>1. top + 1 \in Nat
        OBVIOUS
    <2> QED BY <1>8, <2>1 DEF Ranked
<1> QED BY <1>7, <1>9 DEF GroupInv

\* A group whose search found no way back to it is ranked above what it reaches.
LEMMA UpdateKeeps ==
    ASSUME GroupInv, NEW g, NEW slug \in Slugs, NEW children, RG!UpdateGroup(g, slug, children)
    PROVE  GroupInv'
<1> DEFINE row == [slug |-> slug, children |-> children]
           found == RG!Reach(children)
<1>1. /\ g \in DOMAIN groups /\ children \subseteq DOMAIN groups /\ g \notin found
      /\ groups' = [groups EXCEPT ![g] = row] /\ lastId' = lastId
    BY DEF RG!UpdateGroup, RG!WouldCycle
<1>2. GroupType
    BY DEF GroupInv
<1>3. children \subseteq found /\ found \subseteq DOMAIN groups /\ Closed(found)
    BY <1>1, <1>2, ReachCloses
<1> HIDE DEF found
<1>4. PICK top \in Nat : \E rank : Ranks(groups, rank, top)
    BY DEF GroupInv, Ranked
<1>5. PICK rank : Ranks(groups, rank, top)
    BY <1>4
<1>6. /\ DOMAIN groups' = DOMAIN groups /\ groups'[g] = row
      /\ \A h \in DOMAIN groups \ {g} : groups'[h] = groups[h]
      /\ groups' \in [DOMAIN groups -> GroupRows]
    BY <1>1, <1>2 DEF GroupType, GroupRows
<1>7. GroupType'
    BY <1>1, <1>2, <1>6 DEF GroupType, GroupRows
<1> DEFINE moved == [h \in DOMAIN groups |-> IF h \in found THEN rank[h] ELSE rank[h] + top + 1]
<1>8. Ranks(groups', moved, top + top + 1)
    <2>1. \A h \in DOMAIN groups : rank[h] \in 0..top
        BY <1>5 DEF Ranks
    <2>2. \A h \in DOMAIN groups : /\ h \in found => moved[h] = rank[h]
                                   /\ h \notin found => moved[h] = rank[h] + top + 1
        OBVIOUS
    <2>3. moved \in [DOMAIN groups -> 0..(top + top + 1)]
        BY <2>1
    <2> HIDE DEF moved
    <2>4. ASSUME NEW h \in DOMAIN groups, NEW c \in groups'[h].children PROVE moved[c] < moved[h]
        <3>1. CASE h = g
            <4>1. c \in found /\ c \in DOMAIN groups
                BY <1>3, <1>6, <2>4, <3>1
            <4>2. moved[c] = rank[c] /\ moved[h] = rank[h] + top + 1
                BY <1>1, <2>2, <3>1, <4>1
            <4>3. rank[c] \in 0..top /\ rank[h] \in 0..top
                BY <2>1, <4>1
            <4> QED BY <4>2, <4>3
        <3>2. CASE h # g
            <4>1. c \in groups[h].children /\ c \in DOMAIN groups
                BY <1>2, <1>6, <2>4, <3>2 DEF GroupType, GroupRows
            <4>2. rank[c] < rank[h] /\ rank[c] \in 0..top /\ rank[h] \in 0..top
                BY <1>5, <2>1, <4>1 DEF Ranks
            <4>3. h \in found => c \in found
                BY <1>3, <4>1 DEF Closed
            <4>4. h \in found => moved[c] < moved[h]
                BY <2>2, <4>1, <4>2, <4>3
            <4>5. h \notin found => moved[c] < moved[h]
                BY <2>2, <4>1, <4>2
            <4> QED BY <4>4, <4>5
        <3> QED BY <3>1, <3>2
    <2> QED BY <1>6, <2>3, <2>4 DEF Ranks
<1>9. Ranked'
    <2> HIDE DEF moved
    <2>1. top + top + 1 \in Nat
        OBVIOUS
    <2> QED BY <1>8, <2>1 DEF Ranked
<1> QED BY <1>7, <1>9 DEF GroupInv

\* A group that goes leaves the ranks of the others.
LEMMA DeleteKeeps ==
    ASSUME GroupInv, NEW g, RG!DeleteGroup(g)
    PROVE  GroupInv'
<1>1. /\ g \in DOMAIN groups /\ lastId' = lastId
      /\ groups' = [h \in DOMAIN groups \ {g} |->
                       [groups[h] EXCEPT !.children = groups[h].children \ {g}]]
    BY DEF RG!DeleteGroup
<1>2. GroupType
    BY DEF GroupInv
<1>3. PICK top \in Nat : \E rank : Ranks(groups, rank, top)
    BY DEF GroupInv, Ranked
<1>4. PICK rank : Ranks(groups, rank, top)
    BY <1>3
<1>5. /\ DOMAIN groups' = DOMAIN groups \ {g}
      /\ \A h \in DOMAIN groups' :
             /\ groups'[h].children = groups[h].children \ {g}
             /\ groups'[h] \in [slug : Slugs, children : SUBSET DOMAIN groups']
    <2>1. DOMAIN groups' = DOMAIN groups \ {g}
        BY <1>1
    <2>2. ASSUME NEW h \in DOMAIN groups \ {g}
          PROVE  /\ groups'[h].children = groups[h].children \ {g}
                 /\ groups'[h] \in [slug : Slugs, children : SUBSET (DOMAIN groups \ {g})]
        <3>1. groups[h] \in [slug : Slugs, children : SUBSET DOMAIN groups]
            BY <1>2, <2>2 DEF GroupType, GroupRows
        <3>2. groups'[h] = [groups[h] EXCEPT !.children = groups[h].children \ {g}]
            BY <1>1
        <3> QED BY <3>1, <3>2
    <2> QED BY <2>1, <2>2
<1>6. GroupType'
    <2>1. groups' = [h \in DOMAIN groups' |-> groups'[h]]
        BY <1>1
    <2> QED BY <1>1, <1>2, <1>5, <2>1 DEF GroupType, GroupRows
<1> DEFINE left == [h \in DOMAIN groups \ {g} |-> rank[h]]
<1>7. Ranks(groups', left, top)
    BY <1>4, <1>5 DEF Ranks
<1>8. Ranked'
    <2> HIDE DEF left
    <2> QED BY <1>7 DEF Ranked
<1> QED BY <1>6, <1>8 DEF GroupInv

LEMMA GroupStep == GroupInv /\ [RG!Next]_groupVars => GroupInv'
<1> SUFFICES ASSUME GroupInv, [RG!Next]_groupVars PROVE GroupInv'
    OBVIOUS
<1>1. ASSUME UNCHANGED <<groups, lastId>> PROVE GroupInv'
    BY <1>1 DEF GroupInv, GroupType, GroupRows, Ranked, Ranks
<1>2. ASSUME NEW slug \in Slugs, NEW children, RG!CreateGroup(slug, children) PROVE GroupInv'
    BY <1>2, AddedKeeps DEF RG!CreateGroup
<1>3. ASSUME NEW i, NEW slug \in Slugs, RG!Approve(i, slug) PROVE GroupInv'
    BY <1>3, AddedKeeps DEF RG!Approve
<1>4. ASSUME NEW p, RG!JoinRequest(p) PROVE GroupInv'
    BY <1>1, <1>4 DEF RG!JoinRequest
<1>5. ASSUME NEW i, RG!Decline(i) PROVE GroupInv'
    BY <1>1, <1>5 DEF RG!Decline
<1>6. CASE RG!Later \/ UNCHANGED groupVars
    BY <1>1, <1>6 DEF RG!Later, groupVars
<1> QED BY <1>2, <1>3, <1>4, <1>5, <1>6, UpdateKeeps, DeleteKeeps DEF RG!Next

LEMMA GroupInit == RG!Init => GroupInv
<1> SUFFICES ASSUME RG!Init PROVE GroupInv
    OBVIOUS
<1>1. groups = <<>> /\ lastId = 0
    BY DEF RG!Init
<1>2. DOMAIN groups = {}
    BY <1>1
<1>3. GroupType
    BY <1>1, <1>2 DEF GroupType
<1>4. Ranks(groups, [g \in DOMAIN groups |-> 0], 0)
    BY <1>2 DEF Ranks
<1>5. Ranked
    BY <1>4 DEF Ranked
<1> QED BY <1>3, <1>5 DEF GroupInv

\* Whatever is created, edited, deleted and approved, no group comes to hold
\* itself, however many groups lie in between.
THEOREM NoGroupEverHoldsItself == RG!Spec => []NoGroupHoldsItself
<1>1. GroupInv /\ [RG!Next]_RG!groupVars => GroupInv'
    BY GroupStep DEF RG!groupVars, groupVars
<1> QED BY <1>1, GroupInit, RankedHoldsNone, PTL DEF RG!Spec

-----------------------------------------------------------------------------
(* Regions: the signature.                                                   *)

\* One of a set, and the sum of stamps as it is folded: RE!Signature's third part.
One(s) == CHOOSE x \in s : TRUE
Summed(rows, f, s) == IF s = {} THEN 0 ELSE rows[One(s)].stamp + f[s \ {One(s)}]
Sums(rows, S) == CHOOSE f : f = [s \in SUBSET S |-> Summed(rows, f, s)]
Total(rows, S) == Sums(rows, S)[S]

LEMMA SignatureSums ==
    /\ RE!Signature[1] = Cardinality(RE!Stored)
    /\ RE!Signature[3] = Total(region, RE!Stored)
<1>1. RE!Signature[1] = Cardinality(RE!Stored)
    BY DEF RE!Signature, RE!Cardinality, Cardinality
<1>2. RE!Signature[3] = RE!MapThenSumSet(LAMBDA c : region[c].stamp, RE!Stored)
    BY DEF RE!Signature
<1>3. RE!MapThenSumSet(LAMBDA c : region[c].stamp, RE!Stored) = Total(region, RE!Stored)
    BY DEF RE!MapThenSumSet, RE!MapThenFoldSet, Total, Sums, Summed, One
<1> QED BY <1>1, <1>2, <1>3

\* What is left without one of them.
LEMMA WithoutOne ==
    ASSUME NEW S, IsFiniteSet(S), NEW s \in SUBSET S, s # {}
    PROVE  /\ One(s) \in s /\ s \ {One(s)} \in SUBSET S
           /\ Cardinality(s) \in Nat /\ Cardinality(s) >= 1
           /\ Cardinality(s \ {One(s)}) = Cardinality(s) - 1
<1>1. One(s) \in s
    BY DEF One
<1>2. IsFiniteSet(s) /\ Cardinality(s) \in Nat
    BY FS_Subset, FS_CardinalityType
<1>3. Cardinality(s \ {One(s)}) = Cardinality(s) - 1
    BY <1>1, <1>2, FS_RemoveElement
<1>4. Cardinality(s) # 0
    BY <1>2, FS_EmptySet
<1> QED BY <1>1, <1>2, <1>3, <1>4

\* The sums have their values, by growing number of elements.
LEMMA SumsExist ==
    ASSUME NEW rows, NEW S, IsFiniteSet(S)
    PROVE  \A s \in SUBSET S : Sums(rows, S)[s] = Summed(rows, Sums(rows, S), s)
<1> DEFINE n == Cardinality(S)
           Small(k) == {s \in SUBSET S : Cardinality(s) <= k}
           done == {k \in 0..n : \E f : f = [s \in Small(k) |-> Summed(rows, f, s)]}
<1>1. n \in Nat /\ \A s \in SUBSET S : Cardinality(s) \in Nat /\ Cardinality(s) <= n
    BY FS_Subset, FS_CardinalityType
<1>2. 0 \in done
    <2>1. PICK f : f = [s \in Small(0) |-> 0]
        OBVIOUS
    <2>2. ASSUME NEW s \in Small(0) PROVE s = {}
        <3>1. Cardinality(s) = 0 /\ IsFiniteSet(s)
            BY <1>1, FS_Subset
        <3> QED BY <3>1, FS_EmptySet
    <2> HIDE DEF Small
    <2>3. \A s \in Small(0) : Summed(rows, f, s) = 0
        BY <2>2 DEF Summed
    <2>4. f = [s \in Small(0) |-> Summed(rows, f, s)]
        BY <2>1, <2>3
    <2> QED BY <1>1, <2>4
<1>3. ASSUME NEW m \in 0 + 1..n, m - 1 \in done PROVE m \in done
    <2>1. PICK f : f = [s \in Small(m - 1) |-> Summed(rows, f, s)]
        BY <1>3
    <2>2. PICK g : g = [s \in Small(m) |-> IF s \in Small(m - 1) THEN f[s] ELSE Summed(rows, f, s)]
        OBVIOUS
    <2>3. ASSUME NEW s \in Small(m) PROVE g[s] = Summed(rows, g, s)
        <3>1. s # {} => s \ {One(s)} \in Small(m - 1) /\ s \ {One(s)} \in Small(m)
            BY <1>1, WithoutOne
        <3> HIDE DEF Small
        <3>2. s # {} => g[s \ {One(s)}] = f[s \ {One(s)}]
            BY <2>2, <3>1
        <3>3. Summed(rows, g, s) = Summed(rows, f, s)
            BY <3>2 DEF Summed
        <3>4. s \in Small(m - 1) => f[s] = Summed(rows, f, s)
            BY <2>1
        <3> QED BY <2>2, <3>3, <3>4
    <2>4. g = [s \in Small(m) |-> Summed(rows, g, s)]
        <3> HIDE DEF Small
        <3> QED BY <2>2, <2>3
    <2>5. m \in 0..n
        BY <1>1
    <2> QED BY <2>4, <2>5
<1>4. n \in done
    <2> HIDE DEF done, n
    <2> QED BY <1>1, <1>2, <1>3, Upwards
<1>5. Small(n) = SUBSET S
    BY <1>1
<1>6. \E f : f = [s \in SUBSET S |-> Summed(rows, f, s)]
    <2> HIDE DEF Small, n
    <2> QED BY <1>4, <1>5
<1>7. PICK g : g = Sums(rows, S)
    OBVIOUS
<1>8. g = [s \in SUBSET S |-> Summed(rows, g, s)]
    BY <1>6, <1>7 DEF Sums
<1>9. ASSUME NEW s \in SUBSET S PROVE g[s] = Summed(rows, g, s)
    BY <1>8, Zenon
<1> QED BY <1>7, <1>9

\* Stamps that are nowhere greater and have the same sum are the same.
LEMMA SumsCompare ==
    ASSUME NEW rows, NEW more, NEW S, IsFiniteSet(S),
           \A c \in S : /\ rows[c].stamp \in Int /\ more[c].stamp \in Int
                        /\ rows[c].stamp <= more[c].stamp,
           Total(rows, S) = Total(more, S)
    PROVE  \A c \in S : rows[c].stamp = more[c].stamp
<1>1. PICK f : f = Sums(rows, S)
    OBVIOUS
<1>2. PICK g : g = Sums(more, S)
    OBVIOUS
<1>3. /\ \A s \in SUBSET S : f[s] = Summed(rows, f, s)
      /\ \A s \in SUBSET S : g[s] = Summed(more, g, s)
    <2>1. ASSUME NEW s \in SUBSET S PROVE f[s] = Summed(rows, f, s)
        BY <1>1, SumsExist
    <2>2. ASSUME NEW s \in SUBSET S PROVE g[s] = Summed(more, g, s)
        BY <1>2, SumsExist
    <2> QED BY <2>1, <2>2
<1> DEFINE n == Cardinality(S)
           Fine(s) == /\ f[s] \in Int /\ g[s] \in Int /\ f[s] <= g[s]
                      /\ f[s] = g[s] => \A c \in s : rows[c].stamp = more[c].stamp
           done == {k \in 0..n : \A s \in SUBSET S : Cardinality(s) = k => Fine(s)}
<1>4. n \in Nat
    BY FS_CardinalityType
<1>5. Fine({})
    <2>1. f[{}] = 0 /\ g[{}] = 0
        BY <1>3 DEF Summed
    <2> QED BY <2>1
<1>6. 0 \in done
    <2>1. ASSUME NEW s \in SUBSET S, Cardinality(s) = 0 PROVE s = {}
        BY <2>1, FS_Subset, FS_EmptySet
    <2> HIDE DEF Fine
    <2> QED BY <1>4, <1>5, <2>1
<1>7. ASSUME NEW m \in 0 + 1..n, m - 1 \in done PROVE m \in done
    <2>1. ASSUME NEW s \in SUBSET S, Cardinality(s) = m PROVE Fine(s)
        <3>1. s # {}
            BY <2>1, <1>4, FS_EmptySet
        <3>2. PICK c : c = One(s)
            OBVIOUS
        <3>3. PICK rest : rest = s \ {c}
            OBVIOUS
        <3>4. c \in s /\ rest \in SUBSET S /\ Cardinality(rest) = m - 1
            BY <2>1, <3>1, <3>2, <3>3, WithoutOne
        <3>5. Fine(rest)
            <4> HIDE DEF Fine
            <4> QED BY <1>7, <3>4
        <3>6. f[s] = rows[c].stamp + f[rest] /\ g[s] = more[c].stamp + g[rest]
            BY <1>3, <3>1, <3>2, <3>3 DEF Summed
        <3>7. /\ rows[c].stamp \in Int /\ more[c].stamp \in Int
              /\ rows[c].stamp <= more[c].stamp
            BY <3>4
        <3>8. f[s] \in Int /\ g[s] \in Int /\ f[s] <= g[s]
            BY <3>5, <3>6, <3>7
        <3>9. f[s] = g[s] => rows[c].stamp = more[c].stamp /\ f[rest] = g[rest]
            BY <3>5, <3>6, <3>7
        <3> QED BY <3>3, <3>5, <3>8, <3>9
    <2>2. m \in 0..n
        BY <1>4
    <2> HIDE DEF Fine
    <2> QED BY <2>1, <2>2
<1>8. n \in done
    <2> HIDE DEF done, n
    <2> QED BY <1>4, <1>6, <1>7, Upwards
<1>9. Fine(S)
    <2> HIDE DEF Fine
    <2> QED BY <1>8
<1>10. f[S] = g[S]
    BY <1>1, <1>2 DEF Total
<1> QED BY <1>9, <1>10

-----------------------------------------------------------------------------
(* Regions: the squares of each.                                             *)

Versions == [stamp : Int, shape : Shapes]
Boundaries == [Codes -> Versions \cup {None}]
StoredIn(rows) == {c \in Codes : rows[c] # None}

RegionsType ==
    /\ clock \in Int
    /\ region \in Boundaries /\ shapes \in Boundaries
    /\ member \subseteq Codes \X mapped

\* A kept shape is a version of its region, and the present one if the stamp is.
ShapesBehind ==
    \A c \in Codes : shapes[c] # None =>
        /\ region[c] # None /\ shapes[c].stamp <= region[c].stamp
        /\ shapes[c].stamp = region[c].stamp => shapes[c] = region[c]

\* Boundaries as they once were.
Former(rows) ==
    /\ rows \in Boundaries
    /\ \A c \in StoredIn(rows) : region[c] # None /\ rows[c].stamp <= region[c].stamp

\* The boundaries that a batch saw: their signature and their stamps.
WasSeen(batch) ==
    \E rows : /\ Former(rows)
              /\ batch.sig[1] = Cardinality(StoredIn(rows))
              /\ batch.sig[3] = Total(rows, StoredIn(rows))
              /\ batch.stamps = [c \in StoredIn(rows) |-> rows[c].stamp]

\* Region c has the members its boundary gives it, among these squares.
Right(c, squares) == \A q \in squares : <<c, q>> \in member <=> q \in region[c].shape

BatchIsRight ==
    mapping.at = "testing" =>
        /\ mapping = [at |-> "testing", squares |-> mapping.squares, sig |-> mapping.sig,
                      stamps |-> mapping.stamps, left |-> mapping.left,
                      inside |-> mapping.inside]
        /\ mapping.squares \cap mapped = {}
        /\ WasSeen(mapping)
        /\ \A c \in DOMAIN mapping.stamps :
              shapes[c] # None => shapes[c].stamp = mapping.stamps[c]
        /\ mapping.left \subseteq DOMAIN mapping.stamps
        /\ mapping.inside \subseteq (DOMAIN mapping.stamps \ mapping.left) \X mapping.squares
        /\ \A c \in DOMAIN mapping.stamps \ mapping.left :
              region[c].stamp = mapping.stamps[c] =>
                  \A q \in mapping.squares : <<c, q>> \in mapping.inside <=> q \in region[c].shape

\* What a remap did not see mapped was mapped by the boundary it saw, and what is left
\* to write makes the rest right.
RemapIsRight ==
    /\ remap.at # "idle" =>
        /\ remap.snapshot \subseteq mapped
        /\ remap.left \subseteq DOMAIN remap.stamps /\ DOMAIN remap.stamps \subseteq Codes
        /\ \A c \in DOMAIN remap.stamps :
              /\ region[c] # None
              /\ remap.stamps[c] \in Int /\ remap.stamps[c] <= region[c].stamp
              /\ region[c].stamp = remap.stamps[c] => Right(c, mapped \ remap.snapshot)
    /\ remap.at = "writing" =>
        /\ remap = [at |-> "writing", code |-> remap.code, add |-> remap.add,
                    drop |-> remap.drop, stamps |-> remap.stamps, left |-> remap.left,
                    snapshot |-> remap.snapshot]
        /\ remap.code \in DOMAIN remap.stamps
        /\ remap.add \cup remap.drop \subseteq remap.snapshot
        /\ remap.add \cap remap.drop = {}
        /\ RE!StillThat(remap.code) =>
              \A q \in remap.snapshot :
                  q \in region[remap.code].shape <=>
                      (<<remap.code, q>> \in member \/ q \in remap.add) /\ q \notin remap.drop

Current == \A c \in Codes \ pending : region[c] # None => Right(c, mapped)

RegionInv ==
    /\ RegionsType /\ ShapesBehind
    /\ BatchIsRight /\ RemapIsRight /\ Current

LEMMA CurrentMeans == RegionInv => MembershipIsCurrent
<1> SUFFICES ASSUME RegionInv, NEW c \in RE!Stored \ pending
             PROVE  {q \in mapped : <<c, q>> \in member} = mapped \cap region[c].shape
    BY DEF MembershipIsCurrent, RE!MembershipIsCurrent
<1>1. c \in Codes \ pending /\ region[c] # None
    BY DEF RE!Stored
<1>2. Right(c, mapped)
    BY <1>1 DEF RegionInv, Current
<1> QED BY <1>2 DEF Right

\* The signature is the one a batch saw: then so are the stamps.
LEMMA SignatureTells ==
    ASSUME RegionInv, NEW batch, WasSeen(batch), RE!Signature = batch.sig
    PROVE  /\ DOMAIN batch.stamps = StoredIn(region)
           /\ \A c \in StoredIn(region) : region[c].stamp = batch.stamps[c]
<1>1. PICK rows : /\ Former(rows)
                  /\ batch.sig[1] = Cardinality(StoredIn(rows))
                  /\ batch.sig[3] = Total(rows, StoredIn(rows))
                  /\ batch.stamps = [c \in StoredIn(rows) |-> rows[c].stamp]
    BY DEF WasSeen
<1>2. RE!Stored = StoredIn(region) /\ StoredIn(rows) \subseteq StoredIn(region)
    BY <1>1 DEF RE!Stored, StoredIn, Former
<1>3. IsFiniteSet(StoredIn(region))
    BY RegionShape, FS_Subset DEF StoredIn
<1>4. Cardinality(StoredIn(rows)) = Cardinality(StoredIn(region))
    BY <1>1, <1>2, SignatureSums
<1>5. StoredIn(rows) = StoredIn(region)
    BY <1>2, <1>3, <1>4, FS_Subset
<1>6. Total(rows, StoredIn(region)) = Total(region, StoredIn(region))
    BY <1>1, <1>2, <1>5, SignatureSums
<1>7. ASSUME NEW c \in StoredIn(region)
      PROVE  /\ rows[c].stamp \in Int /\ region[c].stamp \in Int
             /\ rows[c].stamp <= region[c].stamp
    <2>1. region[c] \in Versions /\ rows[c] \in Versions
        BY <1>1, <1>5 DEF RegionInv, RegionsType, Boundaries, StoredIn, Former
    <2> QED BY <2>1, <1>1, <1>5 DEF Versions, Former
<1>8. \A c \in StoredIn(region) : rows[c].stamp = region[c].stamp
    BY <1>3, <1>6, <1>7, SumsCompare
<1> QED BY <1>1, <1>5, <1>8

\* The stamps a batch saw are no newer than the regions'.
LEMMA StampsWere ==
    ASSUME RegionInv, NEW batch, WasSeen(batch), NEW c \in DOMAIN batch.stamps
    PROVE  /\ c \in Codes /\ region[c] # None
           /\ batch.stamps[c] \in Int /\ batch.stamps[c] <= region[c].stamp
<1>1. PICK rows : /\ Former(rows)
                  /\ batch.stamps = [d \in StoredIn(rows) |-> rows[d].stamp]
    BY DEF WasSeen
<1>2. c \in StoredIn(rows) /\ batch.stamps[c] = rows[c].stamp
    BY <1>1
<1>3. rows[c] \in Versions
    BY <1>1, <1>2 DEF Former, Boundaries, StoredIn
<1> QED BY <1>1, <1>2, <1>3 DEF Former, Versions, StoredIn

\* What a step leaves alone stays right.
LEMMA RegionsStay ==
    /\ RegionsType /\ UNCHANGED <<region, shapes, member, mapped>> /\ clock' \in Int => RegionsType'
    /\ ShapesBehind /\ UNCHANGED <<region, shapes>> => ShapesBehind'
    /\ BatchIsRight /\ UNCHANGED <<region, mapped, shapes, mapping>> => BatchIsRight'
    /\ RemapIsRight /\ UNCHANGED <<region, mapped, member, remap>> => RemapIsRight'
    /\ Current /\ UNCHANGED <<region, mapped, member, pending>> => Current'
<1>1. RegionsType /\ UNCHANGED <<region, shapes, member, mapped>> /\ clock' \in Int => RegionsType'
    BY DEF RegionsType
<1>2. ShapesBehind /\ UNCHANGED <<region, shapes>> => ShapesBehind'
    BY DEF ShapesBehind
<1>3. BatchIsRight /\ UNCHANGED <<region, mapped, shapes, mapping>> => BatchIsRight'
    BY DEF BatchIsRight, WasSeen, Former
<1>4. RemapIsRight /\ UNCHANGED <<region, mapped, member, remap>> => RemapIsRight'
    BY DEF RemapIsRight, Right, RE!StillThat
<1>5. Current /\ UNCHANGED <<region, mapped, member, pending>> => Current'
    BY DEF Current, Right
<1> QED BY <1>1, <1>2, <1>3, <1>4, <1>5

\* A boundary is replaced: its stamp is greater than any that was seen.
LEMMA StoreKeeps ==
    ASSUME RegionInv, NEW c \in Codes, NEW shape \in Shapes, RE!Store(c, shape)
    PROVE  RegionInv'
<1>1. /\ region' = [region EXCEPT ![c] = [stamp |-> clock, shape |-> shape]]
      /\ pending' = pending \cup {c}
      /\ UNCHANGED <<clock, mapped, member, shapes, mapping, remap>>
      /\ region[c] # None => region[c].stamp < clock
    BY DEF RE!Store
<1>2. [stamp |-> clock, shape |-> shape] \in Versions /\ [stamp |-> clock, shape |-> shape] # None
    BY RegionShape DEF RegionInv, RegionsType, Versions
<1>3. region'[c] = [stamp |-> clock, shape |-> shape] /\ \A d \in Codes : d # c => region'[d] = region[d]
    BY <1>1 DEF RegionInv, RegionsType, Boundaries
<1>4. RegionsType'
    BY <1>1, <1>2 DEF RegionInv, RegionsType, Boundaries
<1>5. \A d \in Codes : region[d] # None => region[d].stamp \in Int
    BY DEF RegionInv, RegionsType, Boundaries, Versions
<1>6. \A d \in Codes : shapes[d] # None => shapes[d].stamp \in Int
    BY DEF RegionInv, RegionsType, Boundaries, Versions
<1>7. ShapesBehind'
    <2>1. ASSUME NEW d \in Codes, shapes[d] # None
          PROVE  /\ region'[d] # None /\ shapes[d].stamp <= region'[d].stamp
                 /\ shapes[d].stamp = region'[d].stamp => shapes[d] = region'[d]
        <3>1. region[d] # None /\ shapes[d].stamp <= region[d].stamp
            BY <2>1 DEF RegionInv, ShapesBehind
        <3>2. CASE d = c
            <4>1. shapes[d].stamp < clock
                BY <1>1, <1>5, <1>6, <2>1, <3>1, <3>2 DEF RegionInv, RegionsType
            <4> QED BY <1>2, <1>3, <1>6, <2>1, <3>2, <4>1 DEF RegionInv, RegionsType
        <3>3. CASE d # c
            BY <1>3, <2>1, <3>3 DEF RegionInv, ShapesBehind
        <3> QED BY <3>2, <3>3
    <2> QED BY <1>1, <2>1 DEF ShapesBehind
<1>8. \A rows : Former(rows) => Former(rows)'
    <2>1. ASSUME NEW rows, Former(rows), NEW d \in StoredIn(rows)
          PROVE  region'[d] # None /\ rows[d].stamp <= region'[d].stamp
        <3>1. d \in Codes /\ region[d] # None /\ rows[d].stamp <= region[d].stamp /\ rows[d] \in Versions
            BY <2>1 DEF Former, StoredIn, Boundaries
        <3> QED BY <1>1, <1>2, <1>3, <1>5, <3>1 DEF Versions, RegionInv, RegionsType
    <2> QED BY <2>1 DEF Former
<1>9. BatchIsRight'
    <2> SUFFICES ASSUME mapping.at = "testing" PROVE BatchIsRight'
        BY <1>1 DEF BatchIsRight
    <2>1. WasSeen(mapping)'
        BY <1>1, <1>8 DEF RegionInv, BatchIsRight, WasSeen
    <2>2. ASSUME NEW d \in DOMAIN mapping.stamps
          PROVE  d \in Codes /\ (region'[d].stamp = mapping.stamps[d] => region'[d] = region[d])
        <3>1. d \in Codes /\ region[d] # None /\ mapping.stamps[d] \in Int /\ mapping.stamps[d] <= region[d].stamp
            BY StampsWere DEF RegionInv, BatchIsRight
        <3> QED BY <1>1, <1>3, <1>5, <3>1 DEF RegionInv, RegionsType
    <2> QED BY <1>1, <2>1, <2>2 DEF RegionInv, BatchIsRight
<1>10. ASSUME NEW d \in DOMAIN remap.stamps, remap.at # "idle"
       PROVE  /\ d \in Codes /\ region'[d] # None
              /\ remap.stamps[d] \in Int /\ remap.stamps[d] <= region'[d].stamp
              /\ region'[d].stamp = remap.stamps[d] => region'[d] = region[d]
    <2>1. /\ d \in Codes /\ region[d] # None
          /\ remap.stamps[d] \in Int /\ remap.stamps[d] <= region[d].stamp
        BY <1>10 DEF RegionInv, RemapIsRight
    <2> QED BY <1>1, <1>2, <1>3, <1>5, <2>1 DEF RegionInv, RegionsType
<1>11. RemapIsRight'
    <2>1. ASSUME remap.at # "idle", NEW d \in DOMAIN remap.stamps,
                 region'[d].stamp = remap.stamps[d]
          PROVE  Right(d, mapped \ remap.snapshot)'
        BY <1>1, <1>10, <2>1 DEF RegionInv, RemapIsRight, Right
    <2>2. ASSUME remap.at = "writing", region'[remap.code].stamp = remap.stamps[remap.code]
          PROVE  region'[remap.code] = region[remap.code]
        BY <1>10, <2>2 DEF RegionInv, RemapIsRight
    <2> QED BY <1>1, <1>10, <2>1, <2>2 DEF RegionInv, RemapIsRight, RE!StillThat
<1>12. Current'
    BY <1>1, <1>3 DEF RegionInv, Current, Right
<1> QED BY <1>4, <1>7, <1>9, <1>11, <1>12 DEF RegionInv

\* A batch begins with what is stored, and drops the shapes of older versions.
LEMMA StartBatchKeeps ==
    ASSUME RegionInv, NEW qs, RE!StartBatch(qs)
    PROVE  RegionInv'
<1>1. /\ UNCHANGED <<clock, region, mapped, member, pending, remap>>
      /\ shapes' = RE!KeptShapes /\ qs \cap mapped = {}
      /\ mapping' = [at |-> "testing", squares |-> qs, sig |-> RE!Signature,
                     stamps |-> [c \in RE!Stored |-> region[c].stamp], left |-> RE!Stored,
                     inside |-> {}]
    BY DEF RE!StartBatch
<1>2. RE!Stored = StoredIn(region) /\ StoredIn(region) \subseteq Codes
    BY DEF RE!Stored, StoredIn
<1>3. ASSUME NEW c \in Codes, shapes'[c] # None
      PROVE  /\ shapes'[c] = shapes[c] /\ region[c] # None
             /\ shapes[c].stamp = region[c].stamp /\ shapes[c] = region[c]
    BY <1>1, <1>3 DEF RE!KeptShapes, RE!Stored, RegionInv, ShapesBehind
<1>4. shapes' \in Boundaries
    BY <1>1 DEF RE!KeptShapes, RegionInv, RegionsType, Boundaries
<1>5. RegionsType'
    BY <1>1, <1>4 DEF RegionInv, RegionsType
<1>6. \A c \in Codes : region[c] # None => region[c].stamp <= region[c].stamp
    BY DEF RegionInv, RegionsType, Boundaries, Versions
<1>7. ShapesBehind'
    BY <1>1, <1>3, <1>6 DEF ShapesBehind
<1>8. Former(region)'
    BY <1>1, <1>6 DEF Former, RegionInv, RegionsType, StoredIn
<1>9. WasSeen(mapping)'
    <2>1. /\ mapping'.sig[1] = Cardinality(StoredIn(region))
          /\ mapping'.sig[3] = Total(region, StoredIn(region))
          /\ mapping'.stamps = [c \in StoredIn(region) |-> region[c].stamp]
        BY <1>1, <1>2, SignatureSums
    <2>2. PICK rows : rows = region
        OBVIOUS
    <2>3. Former(rows)'
        BY <1>1, <1>8, <2>2 DEF Former
    <2> QED BY <2>1, <2>2, <2>3 DEF WasSeen
<1>10. BatchIsRight'
    <2>1. /\ mapping'.squares = qs /\ mapping'.left = StoredIn(region)
          /\ DOMAIN mapping'.stamps = StoredIn(region) /\ mapping'.inside = {}
          /\ \A c \in StoredIn(region) : mapping'.stamps[c] = region[c].stamp
          /\ mapping' = [at |-> "testing", squares |-> mapping'.squares, sig |-> mapping'.sig,
                         stamps |-> mapping'.stamps, left |-> mapping'.left,
                         inside |-> mapping'.inside]
        BY <1>1, <1>2
    <2>2. \A c \in StoredIn(region) : shapes'[c] # None => shapes'[c].stamp = region[c].stamp
        BY <1>2, <1>3
    <2> QED BY <1>1, <1>9, <2>1, <2>2 DEF BatchIsRight
<1> QED BY <1>1, <1>5, <1>7, <1>10, RegionsStay DEF RegionInv

\* One region of a batch is tested, by its shape as the batch saw it, or by none.
LEMMA TestKeeps ==
    ASSUME RegionInv, NEW c \in Codes, RE!Test(c)
    PROVE  RegionInv'
<1>1. mapping.at = "testing" /\ c \in mapping.left
    BY DEF RE!Test
<1>2. PICK loaded : loaded = IF shapes[c] # None THEN shapes[c]
                             ELSE IF region[c] # None /\ region[c].stamp = mapping.stamps[c]
                                  THEN region[c] ELSE None
    OBVIOUS
<1>3. PICK hits : hits = IF loaded = None THEN {} ELSE mapping.squares \cap loaded.shape
    OBVIOUS
<1>4. /\ shapes' = [shapes EXCEPT ![c] = loaded]
      /\ mapping' = [mapping EXCEPT !.left = @ \ {c}, !.inside = @ \cup ({c} \X hits)]
      /\ UNCHANGED <<clock, region, mapped, member, pending, remap>>
    BY <1>2, <1>3 DEF RE!Test
<1>5. /\ mapping = [at |-> "testing", squares |-> mapping.squares, sig |-> mapping.sig,
                    stamps |-> mapping.stamps, left |-> mapping.left, inside |-> mapping.inside]
      /\ mapping.squares \cap mapped = {} /\ WasSeen(mapping)
      /\ mapping.left \subseteq DOMAIN mapping.stamps
      /\ mapping.inside \subseteq (DOMAIN mapping.stamps \ mapping.left) \X mapping.squares
    BY <1>1 DEF RegionInv, BatchIsRight
<1>6. /\ mapping'.at = "testing" /\ mapping'.squares = mapping.squares
      /\ mapping'.sig = mapping.sig /\ mapping'.stamps = mapping.stamps
      /\ mapping'.left = mapping.left \ {c}
      /\ mapping'.inside = mapping.inside \cup ({c} \X hits)
      /\ mapping' = [at |-> "testing", squares |-> mapping'.squares, sig |-> mapping'.sig,
                     stamps |-> mapping'.stamps, left |-> mapping'.left,
                     inside |-> mapping'.inside]
    <2>1. PICK qs, sg, st, lf, in :
              /\ mapping = [at |-> "testing", squares |-> qs, sig |-> sg, stamps |-> st,
                            left |-> lf, inside |-> in]
              /\ lf = mapping.left /\ in = mapping.inside
        BY <1>5
    <2>2. mapping' = [at |-> "testing", squares |-> qs, sig |-> sg, stamps |-> st,
                      left |-> lf \ {c}, inside |-> in \cup ({c} \X hits)]
        BY <1>4, <2>1
    <2> QED BY <2>1, <2>2
<1>7. c \in DOMAIN mapping.stamps /\ region[c] # None
    BY <1>1, <1>5, StampsWere
<1>8. loaded = None \/ (loaded = region[c] /\ region[c].stamp = mapping.stamps[c])
            \/ (loaded = shapes[c] /\ shapes[c] # None)
    BY <1>2
<1>9. shapes[c] # None => shapes[c].stamp = mapping.stamps[c]
    BY <1>1, <1>7 DEF RegionInv, BatchIsRight
<1>10. region[c].stamp = mapping.stamps[c] => loaded = region[c]
    BY <1>2, <1>7, <1>9 DEF RegionInv, ShapesBehind
<1>11. shapes' \in Boundaries /\ \A d \in Codes : d # c => shapes'[d] = shapes[d]
    BY <1>4, <1>8 DEF RegionInv, RegionsType, Boundaries
<1>12. shapes'[c] = loaded
    BY <1>4 DEF RegionInv, RegionsType, Boundaries
<1>13. RegionsType'
    BY <1>4, <1>11 DEF RegionInv, RegionsType
<1>14. region[c].stamp <= region[c].stamp
    BY <1>7 DEF RegionInv, RegionsType, Boundaries, Versions
<1>15. ShapesBehind'
    BY <1>4, <1>7, <1>8, <1>11, <1>12, <1>14 DEF RegionInv, ShapesBehind
<1>16. hits \subseteq mapping.squares /\
       (region[c].stamp = mapping.stamps[c] => hits = mapping.squares \cap region[c].shape)
    BY <1>3, <1>7, <1>10
<1>17. BatchIsRight'
    <2>1. WasSeen(mapping)'
        BY <1>4, <1>5, <1>6 DEF WasSeen, Former
    <2>2. ASSUME NEW d \in DOMAIN mapping.stamps, shapes'[d] # None
          PROVE  shapes'[d].stamp = mapping.stamps[d]
        <3>1. d \in Codes
            BY <1>5, StampsWere
        <3>2. CASE d = c
            BY <1>8, <1>9, <1>12, <2>2, <3>2
        <3>3. CASE d # c
            BY <1>1, <1>11, <2>2, <3>1, <3>3 DEF RegionInv, BatchIsRight
        <3> QED BY <3>2, <3>3
    <2>3. mapping'.inside \subseteq (DOMAIN mapping.stamps \ mapping'.left) \X mapping.squares
        BY <1>5, <1>6, <1>7, <1>16
    <2>4. ASSUME NEW d \in DOMAIN mapping.stamps \ mapping'.left,
                 region[d].stamp = mapping.stamps[d], NEW q \in mapping.squares
          PROVE  <<d, q>> \in mapping'.inside <=> q \in region[d].shape
        <3>1. CASE d = c
            BY <1>1, <1>5, <1>6, <1>16, <2>4, <3>1
        <3>2. CASE d # c
            <4>1. d \in DOMAIN mapping.stamps \ mapping.left
                BY <1>6, <3>2
            <4>2. <<d, q>> \in mapping.inside <=> q \in region[d].shape
                BY <1>1, <2>4, <4>1 DEF RegionInv, BatchIsRight
            <4> QED BY <1>6, <3>2, <4>2
        <3> QED BY <3>1, <3>2
    <2> QED BY <1>4, <1>5, <1>6, <2>1, <2>2, <2>3, <2>4 DEF BatchIsRight
<1> QED BY <1>4, <1>13, <1>15, <1>17, RegionsStay DEF RegionInv

\* A batch is written: the regions are still those it tested.
LEMMA WriteBatchKeeps ==
    ASSUME RegionInv, RE!WriteBatch
    PROVE  RegionInv'
<1>1. /\ UNCHANGED <<clock, region, pending, shapes, remap>> /\ mapping'.at # "testing"
      /\ mapping.at = "testing" /\ mapping.left = {}
    BY DEF RE!WriteBatch
<1>2. BatchIsRight'
    BY <1>1 DEF BatchIsRight
<1>3. CASE UNCHANGED <<mapped, member>>
    BY <1>1, <1>2, <1>3, RegionsStay DEF RegionInv, RegionsType
<1>4. CASE /\ RE!Signature = mapping.sig
           /\ mapped' = mapped \cup mapping.squares
           /\ member' = member \cup mapping.inside
    <2>1. /\ mapping.squares \cap mapped = {} /\ WasSeen(mapping)
          /\ mapping.inside \subseteq
                 (DOMAIN mapping.stamps \ mapping.left) \X mapping.squares
        BY <1>1 DEF RegionInv, BatchIsRight
    <2>2. /\ DOMAIN mapping.stamps = StoredIn(region)
          /\ \A c \in StoredIn(region) : region[c].stamp = mapping.stamps[c]
        BY <1>4, <2>1, SignatureTells
    <2>3. ASSUME NEW c \in StoredIn(region), NEW q \in mapping.squares
          PROVE  <<c, q>> \in mapping.inside <=> q \in region[c].shape
        BY <1>1, <2>2 DEF RegionInv, BatchIsRight
    <2>4. member \subseteq Codes \X mapped
        BY DEF RegionInv, RegionsType
    <2>5. ASSUME NEW c \in StoredIn(region), NEW q \in mapping.squares
          PROVE  <<c, q>> \in member' <=> q \in region[c].shape
        BY <1>4, <2>1, <2>3, <2>4
    <2>6. ASSUME NEW c, NEW q \in mapped PROVE <<c, q>> \in member' <=> <<c, q>> \in member
        <3>1. q \notin mapping.squares
            BY <2>1
        <3>2. <<c, q>> \notin mapping.inside
            BY <2>1, <3>1
        <3> QED BY <1>4, <3>2
    <2>7. StoredIn(region) \subseteq Codes
        BY DEF StoredIn
    <2>8. RegionsType'
        <3>1. mapping.inside \subseteq StoredIn(region) \X mapping.squares
            BY <1>1, <2>1, <2>2
        <3>2. ASSUME NEW row \in member' PROVE row \in Codes \X mapped'
            BY <1>4, <2>4, <2>7, <3>1
        <3> QED BY <1>1, <3>2 DEF RegionInv, RegionsType
    <2>9. Current'
        <3>1. ASSUME NEW c \in Codes \ pending, region[c] # None, NEW q \in mapped'
              PROVE  <<c, q>> \in member' <=> q \in region[c].shape
            <4>1. c \in StoredIn(region)
                BY <3>1 DEF StoredIn
            <4>2. q \in mapped => (<<c, q>> \in member <=> q \in region[c].shape)
                BY <3>1 DEF RegionInv, Current, Right
            <4> QED BY <1>4, <2>5, <2>6, <4>1, <4>2
        <3> QED BY <1>1, <3>1 DEF Current, Right
    <2>10. RemapIsRight'
        <3>1. ASSUME remap.at # "idle", NEW c \in DOMAIN remap.stamps,
                     region[c].stamp = remap.stamps[c], NEW q \in mapped' \ remap.snapshot
              PROVE  <<c, q>> \in member' <=> q \in region[c].shape
            <4>1. c \in StoredIn(region)
                BY <3>1 DEF RegionInv, RemapIsRight, StoredIn
            <4>2. q \in mapped => (<<c, q>> \in member <=> q \in region[c].shape)
                BY <3>1 DEF RegionInv, RemapIsRight, Right
            <4> QED BY <1>4, <2>5, <2>6, <4>1, <4>2
        <3>2. ASSUME remap.at # "idle" PROVE remap.snapshot \subseteq mapped
            BY <3>2 DEF RegionInv, RemapIsRight
        <3>3. ASSUME remap.at # "idle", NEW c, NEW q \in remap.snapshot
              PROVE  <<c, q>> \in member' <=> <<c, q>> \in member
            BY <2>6, <3>2, <3>3
        <3>4. mapped \subseteq mapped'
            BY <1>4
        <3> QED BY <1>1, <3>1, <3>2, <3>3, <3>4 DEF RegionInv, RemapIsRight, Right, RE!StillThat
    <2> QED BY <1>1, <1>2, <2>8, <2>9, <2>10, RegionsStay DEF RegionInv
<1> QED BY <1>3, <1>4 DEF RE!WriteBatch

\* A remap begins with what is mapped.
LEMMA StartRemapKeeps ==
    ASSUME RegionInv, NEW cs, RE!StartRemap(cs)
    PROVE  RegionInv'
<1>1. /\ UNCHANGED <<clock, region, mapped, member, pending, shapes, mapping>>
      /\ remap' = [at |-> "next", stamps |-> [c \in cs |-> region[c].stamp],
                   left |-> cs, snapshot |-> mapped]
      /\ cs \subseteq StoredIn(region)
    BY DEF RE!StartRemap, RE!Stored, StoredIn
<1>2. \A c \in cs : /\ c \in Codes /\ region[c] # None /\ region[c].stamp \in Int
                    /\ region[c].stamp <= region[c].stamp
    BY <1>1 DEF RegionInv, RegionsType, Boundaries, Versions, StoredIn
<1>3. /\ remap'.at = "next" /\ remap'.left = cs /\ remap'.snapshot = mapped
      /\ DOMAIN remap'.stamps = cs /\ \A c \in cs : remap'.stamps[c] = region[c].stamp
    BY <1>1
<1>4. RemapIsRight'
    BY <1>1, <1>2, <1>3 DEF RemapIsRight, Right
<1> QED BY <1>1, <1>4, RegionsStay DEF RegionInv, RegionsType

\* What is to write for one region is what its boundary and its rows differ in.
LEMMA CompareKeeps ==
    ASSUME RegionInv, NEW c \in Codes, RE!Compare(c)
    PROVE  RegionInv'
<1>1. remap.at = "next" /\ c \in remap.left
    BY DEF RE!Compare
<1>2. PICK shape : shape = IF region[c].stamp = remap.stamps[c] THEN region[c].shape ELSE {}
    OBVIOUS
<1>3. PICK new : new = remap.snapshot \cap shape
    OBVIOUS
<1>4. PICK old : old = {q \in remap.snapshot : <<c, q>> \in member}
    OBVIOUS
<1>5. /\ UNCHANGED <<clock, region, mapped, member, pending, shapes, mapping>>
      /\ remap' = [at |-> "writing", code |-> c, add |-> new \ old, drop |-> old \ new,
                   stamps |-> remap.stamps, left |-> remap.left \ {c},
                   snapshot |-> remap.snapshot]
    BY <1>2, <1>3, <1>4 DEF RE!Compare
<1>6. /\ remap.snapshot \subseteq mapped
      /\ remap.left \subseteq DOMAIN remap.stamps /\ DOMAIN remap.stamps \subseteq Codes
      /\ \A d \in DOMAIN remap.stamps :
            /\ region[d] # None
            /\ remap.stamps[d] \in Int /\ remap.stamps[d] <= region[d].stamp
            /\ region[d].stamp = remap.stamps[d] => Right(d, mapped \ remap.snapshot)
    BY <1>1 DEF RegionInv, RemapIsRight
<1>7. region[c].stamp = remap.stamps[c] =>
          \A q \in remap.snapshot :
              q \in region[c].shape <=>
                  (<<c, q>> \in member \/ q \in new \ old) /\ q \notin old \ new
    BY <1>2, <1>3, <1>4
<1>8. new \subseteq remap.snapshot /\ old \subseteq remap.snapshot /\ (new \ old) \cap (old \ new) = {}
    BY <1>3, <1>4
<1>9. /\ remap'.at = "writing" /\ remap'.code = c /\ remap'.add = new \ old
      /\ remap'.drop = old \ new /\ remap'.stamps = remap.stamps
      /\ remap'.left = remap.left \ {c} /\ remap'.snapshot = remap.snapshot
      /\ remap' = [at |-> "writing", code |-> remap'.code, add |-> remap'.add,
                   drop |-> remap'.drop, stamps |-> remap'.stamps, left |-> remap'.left,
                   snapshot |-> remap'.snapshot]
    BY <1>5
<1>10. RemapIsRight'
    BY <1>1, <1>5, <1>6, <1>7, <1>8, <1>9 DEF RemapIsRight, Right, RE!StillThat
<1> QED BY <1>5, <1>10, RegionsStay DEF RegionInv, RegionsType

\* A chunk brings the region nearer to its boundary, and takes nothing right away.
LEMMA WriteChunkKeeps ==
    ASSUME RegionInv, NEW add, NEW drop, RE!WriteChunk(add, drop)
    PROVE  RegionInv'
<1>1. /\ remap.at = "writing" /\ add \subseteq remap.add /\ drop \subseteq remap.drop
      /\ RE!StillThat(remap.code)
      /\ member' = (member \cup ({remap.code} \X add)) \ ({remap.code} \X drop)
      /\ remap' = [remap EXCEPT !.add = @ \ add, !.drop = @ \ drop]
      /\ UNCHANGED <<clock, region, mapped, pending, shapes, mapping>>
    BY DEF RE!WriteChunk
<1>2. PICK code, ad, dr, st, lf, sn :
          /\ remap = [at |-> "writing", code |-> code, add |-> ad, drop |-> dr,
                      stamps |-> st, left |-> lf, snapshot |-> sn]
          /\ code = remap.code /\ ad = remap.add /\ dr = remap.drop /\ st = remap.stamps
          /\ lf = remap.left /\ sn = remap.snapshot
    BY <1>1 DEF RegionInv, RemapIsRight
<1>3. remap' = [at |-> "writing", code |-> code, add |-> ad \ add, drop |-> dr \ drop,
                stamps |-> st, left |-> lf, snapshot |-> sn]
    BY <1>1, <1>2
<1>4. /\ sn \subseteq mapped /\ lf \subseteq DOMAIN st /\ DOMAIN st \subseteq Codes
      /\ code \in DOMAIN st /\ ad \cup dr \subseteq sn /\ ad \cap dr = {}
      /\ \A c \in DOMAIN st :
            /\ region[c] # None /\ st[c] \in Int /\ st[c] <= region[c].stamp
            /\ region[c].stamp = st[c] => Right(c, mapped \ sn)
    BY <1>1, <1>2 DEF RegionInv, RemapIsRight
<1>5. ASSUME NEW q \in sn
      PROVE  q \in region[code].shape <=> (<<code, q>> \in member \/ q \in ad) /\ q \notin dr
    BY <1>1, <1>2 DEF RegionInv, RemapIsRight
<1>6. add \subseteq ad /\ drop \subseteq dr
    BY <1>1, <1>2
<1>7. ASSUME NEW c, NEW q
      PROVE  <<c, q>> \in member' <=>
                 \/ <<c, q>> \in member /\ ~(c = code /\ q \in drop)
                 \/ c = code /\ q \in add
    <2>1. <<c, q>> \in {code} \X add <=> c = code /\ q \in add
        OBVIOUS
    <2>2. <<c, q>> \in {code} \X drop <=> c = code /\ q \in drop
        OBVIOUS
    <2>3. ~(q \in add /\ q \in drop)
        BY <1>4, <1>6
    <2> QED BY <1>1, <1>2, <2>1, <2>2, <2>3
<1>8. ASSUME NEW q \in sn
      PROVE  q \in region[code].shape <=>
                 (<<code, q>> \in member' \/ q \in ad \ add) /\ q \notin dr \ drop
    BY <1>4, <1>5, <1>6, <1>7
<1>9. ASSUME NEW c, NEW q, q \notin sn PROVE <<c, q>> \in member' <=> <<c, q>> \in member
    BY <1>4, <1>6, <1>7, <1>9
<1>10. ASSUME NEW c \in DOMAIN st, region[c].stamp = st[c], NEW q \in mapped \ sn
       PROVE  <<c, q>> \in member' <=> q \in region[c].shape
    BY <1>4, <1>9, <1>10 DEF Right
<1>11. /\ remap'.at = "writing" /\ remap'.code = code /\ remap'.add = ad \ add
       /\ remap'.drop = dr \ drop /\ remap'.stamps = st /\ remap'.left = lf
       /\ remap'.snapshot = sn
       /\ remap' = [at |-> "writing", code |-> remap'.code, add |-> remap'.add,
                    drop |-> remap'.drop, stamps |-> remap'.stamps, left |-> remap'.left,
                    snapshot |-> remap'.snapshot]
    BY <1>3
<1>12. RemapIsRight'
    <2>1. (ad \ add) \cup (dr \ drop) \subseteq sn /\ (ad \ add) \cap (dr \ drop) = {}
        BY <1>4
    <2> QED BY <1>1, <1>4, <1>8, <1>10, <1>11, <2>1 DEF RemapIsRight, Right, RE!StillThat
<1>13. RegionsType'
    <2>1. ASSUME NEW row \in member' PROVE row \in Codes \X mapped
        BY <1>1, <1>2, <1>4, <1>6 DEF RegionInv, RegionsType
    <2> QED BY <1>1, <2>1 DEF RegionInv, RegionsType
<1>14. Current'
    <2>1. ASSUME NEW c \in Codes \ pending, region[c] # None, NEW q \in mapped
          PROVE  <<c, q>> \in member' <=> q \in region[c].shape
        <3>1. <<c, q>> \in member <=> q \in region[c].shape
            BY <2>1 DEF RegionInv, Current, Right
        <3>2. c = code /\ q \in add => q \in region[c].shape
            BY <1>4, <1>5, <1>6
        <3>3. c = code /\ q \in drop => q \notin region[c].shape
            BY <1>4, <1>5, <1>6
        <3> QED BY <1>7, <3>1, <3>2, <3>3
    <2> QED BY <1>1, <2>1 DEF Current, Right
<1> QED BY <1>1, <1>12, <1>13, <1>14, RegionsStay DEF RegionInv

\* A region is through, or is left to a newer remap.
LEMMA EndRegionKeeps ==
    ASSUME RegionInv, RE!EndRegion
    PROVE  RegionInv'
<1>1. /\ UNCHANGED <<clock, region, mapped, member, shapes, mapping>>
      /\ remap.at = "writing"
      /\ \/ remap.add = {} /\ remap.drop = {}
         \/ ~RE!StillThat(remap.code)
      /\ pending' = IF region[remap.code].stamp = remap.stamps[remap.code]
                    THEN pending \ {remap.code} ELSE pending
      /\ remap' = IF remap.left = {} THEN RE!Idle
                  ELSE [at |-> "next", stamps |-> remap.stamps, left |-> remap.left,
                        snapshot |-> remap.snapshot]
    BY DEF RE!EndRegion
<1>2. RemapIsRight'
    <2>1. CASE remap.left = {}
        BY <1>1, <2>1 DEF RemapIsRight, RE!Idle
    <2>2. CASE remap.left # {}
        <3>1. /\ remap'.at = "next" /\ remap'.stamps = remap.stamps
              /\ remap'.left = remap.left /\ remap'.snapshot = remap.snapshot
            BY <1>1, <2>2
        <3> QED BY <1>1, <3>1 DEF RegionInv, RemapIsRight, Right
    <2> QED BY <2>1, <2>2
<1>3. Current'
    <2>1. ASSUME NEW c \in Codes \ pending', region[c] # None PROVE Right(c, mapped)
        <3>1. CASE c \notin pending
            BY <2>1, <3>1 DEF RegionInv, Current
        <3>2. CASE c \in pending
            <4>1. c = remap.code /\ region[c].stamp = remap.stamps[c]
                BY <1>1, <2>1, <3>2
            <4>2. RE!StillThat(c) /\ remap.add = {} /\ remap.drop = {}
                BY <1>1, <4>1 DEF RE!StillThat
            <4>3. Right(c, remap.snapshot)
                BY <1>1, <4>1, <4>2 DEF RegionInv, RemapIsRight, Right
            <4>4. Right(c, mapped \ remap.snapshot)
                BY <1>1, <4>1 DEF RegionInv, RemapIsRight
            <4> QED BY <4>3, <4>4 DEF Right
        <3> QED BY <3>1, <3>2
    <2> QED BY <1>1, <2>1 DEF Current, Right
<1> QED BY <1>1, <1>2, <1>3, RegionsStay DEF RegionInv, RegionsType

LEMMA RegionStep == RegionInv /\ [RE!Next]_regionVars => RegionInv'
<1> SUFFICES ASSUME RegionInv, [RE!Next]_regionVars PROVE RegionInv'
    OBVIOUS
<1>1. CASE RE!Tick \/ (\E q \in Squares : RE!Play(q)) \/ UNCHANGED regionVars
    <2>1. /\ UNCHANGED <<region, mapped, member, pending, shapes, mapping, remap>>
          /\ clock' \in Int
        BY <1>1 DEF RE!Tick, RE!Play, regionVars, RegionInv, RegionsType
    <2> QED BY <2>1, RegionsStay DEF RegionInv
<1>2. CASE RE!Abandon
    <2>1. /\ UNCHANGED <<clock, region, mapped, member, pending, remap>>
          /\ mapping'.at # "testing"
          /\ shapes' = shapes \/ shapes' = [c \in Codes |-> None]
        BY <1>2 DEF RE!Abandon, RE!Idle
    <2>2. RegionsType' /\ ShapesBehind' /\ BatchIsRight'
        BY <2>1 DEF RegionInv, RegionsType, Boundaries, ShapesBehind, BatchIsRight
    <2> QED BY <2>1, <2>2, RegionsStay DEF RegionInv
<1>3. CASE RE!StopRemap
    <2>1. /\ UNCHANGED <<clock, region, mapped, member, pending, shapes, mapping>>
          /\ remap'.at = "idle"
        BY <1>3 DEF RE!StopRemap, RE!Idle
    <2>2. RemapIsRight'
        BY <2>1 DEF RemapIsRight
    <2> QED BY <2>1, <2>2, RegionsStay DEF RegionInv, RegionsType
<1> QED BY <1>1, <1>2, <1>3, StoreKeeps, StartBatchKeeps, TestKeeps, WriteBatchKeeps,
           StartRemapKeeps, CompareKeeps, WriteChunkKeeps, EndRegionKeeps DEF RE!Next

LEMMA RegionInit == RE!Init => RegionInv
<1> SUFFICES ASSUME RE!Init PROVE RegionInv
    OBVIOUS
<1>1. /\ clock = 1 /\ region = [c \in Codes |-> None] /\ shapes = [c \in Codes |-> None]
      /\ mapped = {} /\ member = {}
      /\ mapping.at = "idle" /\ remap.at = "idle"
    BY DEF RE!Init, RE!Idle
<1>2. RegionsType
    BY <1>1 DEF RegionsType, Boundaries
<1> QED BY <1>1, <1>2 DEF RegionInv, ShapesBehind, BatchIsRight, RemapIsRight, Current

\* Over the squares that were mapped, a region that no remap is due for has the members
\* its boundary gives it, however many regions, squares, batches and chunks there are.
THEOREM MembershipAlwaysCurrent == RE!Spec => []MembershipIsCurrent
<1>1. RegionInv /\ [RE!Next]_RE!regionVars => RegionInv'
    BY RegionStep DEF RE!regionVars, regionVars
<1> QED BY <1>1, RegionInit, CurrentMeans, PTL DEF RE!Spec
=============================================================================
