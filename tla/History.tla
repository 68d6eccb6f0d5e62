------------------------------- MODULE History ------------------------------
(***************************************************************************)
(* The poll worker: the loop that asks the game's history page by page,    *)
(* newest round first, keeps the rounds that the global recent-round cache *)
(* does not hold, and hands them to the handler and the router.            *)
(*                                                                         *)
(* Rounds are numbered as they end: round k is k.  The site goes on while  *)
(* pages are fetched, so a page may overlap the one before.  A round enters*)
(* the cache as its page is read, before it is handled; the cache is an LRU*)
(* of fixed capacity, smaller than a cold sweep (200 entries, 20 pages of  *)
(* 50), so a sweep evicts the rounds it began with.                        *)
(***************************************************************************)
EXTENDS Integers, Sequences, SequencesExt, FiniteSets

CONSTANTS
    PageSize, ColdMaxPages, WarmMaxPages, \* of PollWorker::Config
    CacheCap,       \* capacity_ of RecentRoundCache
    RollingCap,     \* capacity_ of RollingHistoryBuffer
    MaxRounds,      \* bound: rounds that end
    MaxErrors       \* bound: pages that fail

VARIABLES
    ended,      \* rounds that have ended at the site
    cache,      \* order_ of the cache: least recently put first
    running, cold, errors, fails, \* running_, cold_, errors_, consecutive_fails_
    pc, page,   \* where the loop is
    unread,     \* rounds of the page that parseHistoryBody has not come to
    batch, got, \* what fetchAndIngest has collected; whether the page was of use
    total,      \* what it has ingested
    rolling,    \* buf_ of RollingHistoryBuffer
    seen,       \* history: rounds in some fetched page
    handled,    \* history: the rounds handed to the handler, in order
    evicted     \* history: rounds that fell out of the cache

site == <<ended>>
client == <<cache, seen, evicted>>
poller == <<running, cold, errors, fails, pc, page, unread, batch, got, total>>
vars == <<site, client, poller, rolling, handled>>

Init ==
    /\ ended = 0 /\ cache = <<>> /\ seen = {} /\ evicted = {}
    /\ running = FALSE /\ cold = TRUE /\ errors = 0 /\ fails = 0 /\ pc = "none" /\ page = 0
    /\ unread = <<>> /\ batch = <<>> /\ got = 0 /\ total = 0 /\ rolling = <<>> /\ handled = <<>>

-----------------------------------------------------------------------------

\* The server, external: the rounds of a page, newest first.
Page(p) ==
    LET first == ended - (p - 1) * PageSize
        n == IF first < 1 THEN 0 ELSE IF first < PageSize THEN first ELSE PageSize IN
    [i \in 1 .. n |-> first - i + 1]

RoundEnds ==
    /\ ended < MaxRounds /\ ended' = ended + 1
    /\ UNCHANGED <<client, poller, rolling, handled>>

\* RecentRoundCache::put: a known round moves to the end, a new one is added
\* there and the front falls out.
Put(c, r) ==
    IF r \in ToSet(c) THEN Append(Remove(c, r), r)
    ELSE IF Len(c) < CacheCap THEN Append(c, r) ELSE Tail(Append(c, r))

\* !contains(gameId).
IsNew(c, r) == r \notin ToSet(c)

Start ==
    /\ pc = "none" /\ running' = TRUE /\ cold' = TRUE /\ pc' = "loop"
    /\ UNCHANGED <<site, client, errors, fails, page, unread, batch, got, total, rolling, handled>>

\* stop, from another thread at any time; the loop and the page loop notice.
Stop ==
    /\ running /\ running' = FALSE
    /\ UNCHANGED <<site, client, cold, errors, fails, pc, page, unread, batch, got, total, rolling, handled>>

Loop ==
    /\ pc = "loop"
    /\ IF running THEN pc' = "page" /\ page' = 1 /\ batch' = <<>> /\ total' = 0
                  ELSE pc' = "ended" /\ UNCHANGED <<page, batch, total>>
    /\ UNCHANGED <<site, client, running, cold, errors, fails, unread, got, rolling, handled>>

MaxPages == IF cold THEN ColdMaxPages ELSE WarmMaxPages

\* Mutant: a page of no use ends the sweep, the first one too.
AnyEmptyPage == got = 0

\* A page after the first that yields nothing, or fails, ends the sweep.
NothingNew == got = 0 /\ page > 1

\* pull: fetchPage, which sends the request, ...
FetchOk ==
    /\ pc = "page" /\ page <= MaxPages /\ running
    /\ unread' = Page(page) /\ seen' = seen \cup ToSet(Page(page))
    /\ got' = 0 /\ pc' = "parse"
    /\ UNCHANGED <<site, cache, evicted, running, cold, errors, fails, page, batch, total, rolling, handled>>
FetchFails ==
    /\ pc = "page" /\ page <= MaxPages /\ running /\ errors < MaxErrors
    /\ errors' = errors + 1 /\ fails' = fails + 1 /\ got' = 0 /\ pc' = "pulled"
    /\ UNCHANGED <<site, client, running, cold, page, unread, batch, total, rolling, handled>>

\* ... goes through the page and the cache round by round (parseHistoryBody; an
\* unreadable or implausible round is never reported and is no round here), ...
ParseRound ==
    LET r == Head(unread) IN
    /\ pc = "parse" /\ unread # <<>> /\ unread' = Tail(unread)
    /\ IF IsNew(cache, r)
       THEN /\ cache' = Put(cache, r)
            /\ evicted' = evicted \cup ((ToSet(cache) \cup {r}) \ ToSet(Put(cache, r)))
            /\ batch' = Append(batch, r) /\ got' = got + 1
       ELSE UNCHANGED <<cache, evicted, batch, got>>
    /\ UNCHANGED <<site, seen, running, cold, errors, fails, pc, page, total, rolling, handled>>

\* ... and returns, ...
Parsed ==
    /\ pc = "parse" /\ unread = <<>>
    /\ fails' = 0 /\ pc' = "pulled"
    /\ UNCHANGED <<site, client, running, cold, errors, page, unread, batch, got, total, rolling, handled>>

\* ... whether to go on, ...
Pulled ==
    /\ pc = "pulled"
    /\ IF NothingNew THEN pc' = "handle" /\ UNCHANGED page ELSE pc' = "page" /\ page' = page + 1
    /\ UNCHANGED <<site, client, running, cold, errors, fails, unread, batch, got, total, rolling, handled>>
PagesDone ==
    /\ pc = "page" /\ (page > MaxPages \/ ~running)
    /\ pc' = "handle"
    /\ UNCHANGED <<site, client, running, cold, errors, fails, page, unread, batch, got, total, rolling, handled>>

\* Mutant: a stop drops what is fetched.
HandlesWhileRunning == running /\ batch # <<>>

\* The batch is handled also after a stop.
MoreToHandle == batch # <<>>

\* ... and the rounds, in the order fetched: handler, rolling history, router.
Handle ==
    LET r == Head(batch)
        pushed == Append(rolling, r) IN
    /\ pc = "handle" /\ MoreToHandle
    /\ handled' = Append(handled, r) /\ total' = total + 1 /\ batch' = Tail(batch)
    /\ rolling' = IF Len(pushed) > RollingCap THEN Tail(pushed) ELSE pushed
    /\ UNCHANGED <<site, client, running, cold, errors, fails, pc, page, unread, got>>

\* The pause of loop, interval or backoff, whose length no property tells apart;
\* the first sweep that ingested something ends the cold phase.
Pause ==
    /\ pc = "handle" /\ ~MoreToHandle
    /\ batch' = <<>> /\ cold' = (cold /\ total = 0) /\ pc' = "sleep"
    /\ UNCHANGED <<site, client, running, errors, fails, page, unread, got, total, rolling, handled>>
Wake ==
    /\ pc = "sleep" /\ pc' = "loop"
    /\ UNCHANGED <<site, client, running, cold, errors, fails, page, unread, batch, got, total, rolling, handled>>

PollLoop == Loop \/ FetchOk \/ FetchFails \/ ParseRound \/ Parsed \/ Pulled \/ PagesDone \/ Handle \/ Pause \/ Wake

Next == RoundEnds \/ Start \/ Stop \/ PollLoop

\* A request has a timeout of 2500 ms and a pause an end, so the thread goes on;
\* MaxErrors bounds the failed requests.
Fairness == WF_vars(PollLoop)
Spec == Init /\ [][Next]_vars /\ Fairness

-----------------------------------------------------------------------------

\* What a sequence holds more than once.
Repeated(s) == {s[i] : i \in {k \in DOMAIN s : \E j \in DOMAIN s : k < j /\ s[j] = s[k]}}

(* Every round that was in a page is still to be read, is in the batch or  *)
(* has been handled, although it is in the cache, and so no longer new,    *)
(* from the moment it is read: neither a failed page nor a stop between    *)
(* the fetch and the handler loses it.                                     *)
FetchedIsHandled == seen \subseteq ToSet(unread) \cup ToSet(batch) \cup ToSet(handled)

(* A round is handled a second time only if it fell out of the cache: an   *)
(* overlap of pages, while rounds end during the sweep, repeats nothing.   *)
(* Cold sweeps do evict (crash_history_client.hpp:124), so the warm pages  *)
(* after one hand their rounds on again.                                   *)
TwiceOnlyIfEvicted == Repeated(handled) \subseteq evicted

(* The poll worker hands every round it has fetched on, and once while it  *)
(* is cached.                                                              *)
HandledOnce == FetchedIsHandled /\ TwiceOnlyIfEvicted


Due == {r \in 1 .. ended : r \notin ToSet(handled) /\ ended - r < WarmMaxPages * PageSize}

(* While the worker runs it catches up: the rounds within the reach of its *)
(* warm pages are all handled some time after they end, also when a page   *)
(* failed in between.                                                      *)
CatchesUp == running /\ Due # {} ~> Due = {} \/ ~running

-----------------------------------------------------------------------------
(* The inductive invariant of HandledOnce.                                 *)

TypeOK ==
    /\ ended \in Nat /\ page \in Nat
    /\ {cache, unread, batch, handled} \subseteq Seq(Int)

\* A page is read while parseHistoryBody has the thread, and the batch is empty
\* when a sweep begins.
Phases ==
    /\ pc # "parse" => unread = <<>>
    /\ pc \in {"none", "loop", "sleep", "ended"} => batch = <<>>
    /\ pc = "page" => page >= 1

\* What is cached was passed on, and what was passed on is cached or evicted.
Known == ToSet(batch) \cup ToSet(handled)
CacheOK == ToSet(cache) \subseteq Known /\ Known \subseteq ToSet(cache) \cup evicted

\* The batch will repeat, after what is handled, only what was evicted.
BatchOnce == Repeated(batch) \subseteq evicted /\ ToSet(handled) \cap ToSet(batch) \subseteq evicted

IInv == TypeOK /\ Phases /\ CacheOK /\ BatchOnce /\ HandledOnce
=============================================================================
