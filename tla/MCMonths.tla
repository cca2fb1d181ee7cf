------------------------------ MODULE MCMonths ------------------------------
(* What a month's close tells: Months (the frozen result and its Discord      *)
(* posts) and Announce (the public feed).  The feed reads months as closed    *)
(* rows and nothing of the outbox, so their steps commute: a behaviour        *)
(* follows one of them.                                                       *)
EXTENDS Months

CONSTANTS Calendar, Closing, Boards, Bots, Webs, PageSize, MaxTime, MaxNews, MaxRefreezes,
          Lengths, Backlogs   \* Announce's Length and MaxAge

VARIABLES follows, today, inSeason, busy, closed, feed, up, polled, served,
          asksFor, cursor, heard, cache, refreezes

annVars == <<today, inSeason, busy, closed, feed, up, polled, served,
             asksFor, cursor, heard, cache, refreezes>>

ASSUME FeedShape ==
    /\ Calendar \cap Closing = {}
    /\ IsFiniteSet(Calendar \cup Closing) /\ IsFiniteSet(Boards)
    /\ Lengths \in [Calendar \cup Closing -> Nat \ {0}]
    /\ {PageSize, MaxTime} \subseteq Nat

\* A week of two days is told on the day it ends, a month within a day.
TwoDays == [k \in Calendar \cup Closing |-> 2]
OneDayForMonths == [k \in Calendar \cup Closing |-> IF k \in Closing THEN 1 ELSE 0]

Ann == INSTANCE Announce WITH now <- today, Length <- Lengths, MaxAge <- Backlogs

\* What the feed starts from matters where the behaviour follows it.
AnyFeed ==
    /\ inSeason = {} /\ asksFor = [c \in Bots |-> Calendar \cup Closing]
    /\ busy = CHOOSE s \in SUBSET Ann!News : Cardinality(s) = MaxNews

MCInit ==
    /\ Init /\ Ann!Init
    /\ \/ follows = "Months" /\ AnyFeed
       \/ follows = "Announce"
MCNext ==
    \/ follows = "Months" /\ Next /\ UNCHANGED <<follows, annVars>>
    \/ follows = "Announce" /\ Ann!Next /\ UNCHANGED <<follows, vars>>
MCSpec == MCInit /\ [][MCNext]_<<follows, vars, annVars>>

\* The properties of Announce: no week with something to tell is lost to a
\* provider that raises, and no bot's cursor passes an announcement it has not
\* heard.
NewsGetsOut == Ann!NewsGetsOut
NothingSkipped == Ann!NothingSkipped
=============================================================================
