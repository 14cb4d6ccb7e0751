---------------------------- MODULE CallerLimits ----------------------------
(***************************************************************************)
(* What one caller of /api/search may have: `RateLimiter`                  *)
(* (lib/rate-limit.ts) counts requests in a fixed window that is swept     *)
(* lazily, and `CostMeter` (lib/cost-meter.ts) counts the milliseconds its *)
(* searches took in a ring of buckets that expire by being overwritten,    *)
(* and holds back, or refuses, who spends too much while others wait.      *)
(*                                                                         *)
(* An action is the code of the route between two awaits; what is awaited  *)
(* is the tarpit's sleep.  The clock counts buckets.  A millisecond is a   *)
(* unit of cost.  `burned` and `taken` are what really happened within the *)
(* window, kept the plain way: a list by age that shifts as time passes.   *)
(***************************************************************************)
EXTENDS Integers, FiniteSets, Sums

CONSTANTS
    Callers,          \* the keys of `limitKey`
    Limit,            \* searches a window admits: `searchRatePerMinute`
    Buckets,          \* `BUCKETS`, and the buckets of the limiter's window
    BudgetMs, ContendedMs, SoloBudgetMs, RefuseAtMs,
    MaxTarpits,       \* `maxConcurrentTarpits`
    MaxKeys,          \* `maxKeys`, callers the meter tracks
    Costs,            \* bound: what a search may take; none at all if refused
    MaxClock,         \* bound: when time stops
    MaxPending        \* bound: searches of a caller between two awaits

ASSUME LimitsAssumption ==
    /\ IsFiniteSet(Callers)
    /\ Limit \in Nat \ {0} /\ Buckets \in Nat \ {0}
    /\ {BudgetMs, ContendedMs, SoloBudgetMs, RefuseAtMs} \subseteq Nat \ {0}
    /\ {MaxTarpits, MaxKeys, MaxClock, MaxPending} \subseteq Nat
    /\ MaxKeys > 0 /\ MaxClock >= Buckets
    /\ Costs \subseteq Nat

VARIABLES
    clock,
    windows,   \* the limiter's `windows`
    lastSweep,
    spends,    \* the meter's `spends`, a ring per tracked caller
    totals,    \* the ring of everybody
    tarpit,    \* searches asleep in `admit`
    admitted,  \* searches `admit` has let through, not yet run
    burned,    \* history: what each caller's searches took, by age
    taken,     \* history: the searches the limiter let through, by age
    heldBack   \* history: whom the meter slowed or refused in the last step

limiterVars == <<windows, lastSweep>>
meterVars == <<spends, totals>>
vars == <<clock, limiterVars, meterVars, tarpit, admitted, burned, taken, heldBack>>

Slots == 0 .. Buckets - 1
Ages == 0 .. Buckets - 1
Window == [count : 1 .. Limit, startedAt : Nat]
NoWindow == [count |-> 0]
Ring == [at : [Slots -> Int], ms : [Slots -> Nat]]
EmptyRing == [at |-> [i \in Slots |-> -1], ms |-> [i \in Slots |-> 0]]
Untracked == [at |-> <<>>, ms |-> <<>>]
Nobody == {}

LimitsTypeOK ==
    /\ clock \in Buckets .. MaxClock /\ lastSweep \in 0 .. clock
    /\ windows \in [Callers -> Window \cup {NoWindow}]
    /\ spends \in [Callers -> Ring \cup {Untracked}]
    /\ totals \in Ring
    /\ {tarpit, admitted} \subseteq [Callers -> 0 .. MaxPending]
    /\ burned \in [Callers -> [Ages -> Nat]]
    /\ taken \in [Callers -> [Ages -> Nat]]
    /\ heldBack \subseteq Callers

Init ==
    /\ clock = Buckets
    /\ windows = [c \in Callers |-> NoWindow] /\ lastSweep = 0
    /\ spends = [c \in Callers |-> Untracked] /\ totals = EmptyRing
    /\ tarpit = [c \in Callers |-> 0] /\ admitted = [c \in Callers |-> 0]
    /\ burned = [c \in Callers |-> [a \in Ages |-> 0]]
    /\ taken = [c \in Callers |-> [a \in Ages |-> 0]]
    /\ heldBack = Nobody

-----------------------------------------------------------------------------
(* RateLimiter.                                                            *)

Over(w) == w # NoWindow /\ clock - w.startedAt >= Buckets

\* Mutant: a sweep forgets every window.
SweptBare ==
    IF clock - lastSweep < Buckets THEN windows ELSE [c \in Callers |-> NoWindow]

\* `sweep`, at most once a window: the windows that are over go.
Swept ==
    IF clock - lastSweep < Buckets THEN windows
    ELSE [c \in Callers |-> IF Over(windows[c]) THEN NoWindow ELSE windows[c]]

\* `take`: every call may sweep; a caller with no window, or one that is over,
\* gets a fresh one.
Fresh(c) == Swept[c] = NoWindow \/ Over(Swept[c])
\* Mutant: the window admits one more.
RefusesLate(c) == ~Fresh(c) /\ Swept[c].count > Limit
Refuses(c) == ~Fresh(c) /\ Swept[c].count >= Limit
Sweeps == lastSweep' = IF clock - lastSweep < Buckets THEN lastSweep ELSE clock
Takes(c) ==
    /\ windows' = [Swept EXCEPT ![c] =
        IF Fresh(c) THEN [count |-> 1, startedAt |-> clock]
                    ELSE [count |-> @.count + 1, startedAt |-> @.startedAt]]
    /\ Sweeps
    /\ taken' = [taken EXCEPT ![c][0] = @ + 1]

\* What a caller is told, without a sweep: `remaining`, and what `retryAfter` rounds up
\* to seconds for a caller that was just refused.
Stale(c) == windows[c] = NoWindow \/ Over(windows[c])
Remaining(c) == IF Stale(c) THEN Limit ELSE Limit - windows[c].count
ClosesIn(c) == IF Stale(c) THEN 0 ELSE windows[c].startedAt + Buckets - clock

-----------------------------------------------------------------------------
(* CostMeter.                                                              *)

\* Mutant: a slot is added to, whatever bucket it holds.
AddOver(r, ms) ==
    LET slot == clock % Buckets IN
        [at |-> [r.at EXCEPT ![slot] = clock], ms |-> [r.ms EXCEPT ![slot] = @ + ms]]

\* `add`: a slot that holds an older bucket is overwritten.
Add(r, ms) ==
    LET slot == clock % Buckets IN
        [at |-> [r.at EXCEPT ![slot] = clock],
         ms |-> [r.ms EXCEPT ![slot] = IF r.at[slot] = clock THEN @ + ms ELSE ms]]

SumOf(r) ==
    Total([i \in Slots |-> IF r.at[i] >= clock - (Buckets - 1) THEN r.ms[i] ELSE 0])

Tracked == {c \in Callers : spends[c] # Untracked}
Spent(c) == IF c \in Tracked THEN SumOf(spends[c]) ELSE 0
Busy == SumOf(totals)

\* Mutant: whoever else is in the map counts, however long ago.
OthersTracked(c) == Tracked \ {c} # {}

\* `othersActive`, by subtraction.
OthersActive(c) == Busy - Spent(c) > 0

\* `evictCheapest`: a tracked caller, the first of those who spent least.
Cheapest == {c \in Tracked : \A d \in Tracked : Spent(c) <= Spent(d)}

\* `record`: a new caller may cost the cheapest one its ring.
Records(c, ms) ==
    IF ms = 0 THEN UNCHANGED <<meterVars, burned>>
    ELSE
        /\ totals' = Add(totals, ms)
        /\ burned' = [burned EXCEPT ![c][0] = @ + ms]
        /\ \/ /\ c \in Tracked
              /\ spends' = [spends EXCEPT ![c] = Add(@, ms)]
           \/ /\ c \notin Tracked
              /\ Cardinality(Tracked) < MaxKeys
              /\ spends' = [spends EXCEPT ![c] = Add(EmptyRing, ms)]
           \/ /\ c \notin Tracked
              /\ Cardinality(Tracked) >= MaxKeys
              /\ \E victim \in Cheapest :
                    spends' = [spends EXCEPT ![victim] = Untracked,
                                             ![c] = Add(EmptyRing, ms)]

\* `verdict`: a runaway is refused alone or not; the budget only binds while the
\* server is contended and somebody else is about.
Runaway(c) == Spent(c) >= SoloBudgetMs
Greedy(c) == Busy >= ContendedMs /\ Spent(c) >= BudgetMs /\ OthersActive(c)
VerdictRefuses(c) == Runaway(c) \/ (Greedy(c) /\ Spent(c) >= RefuseAtMs)
VerdictSlows(c) == ~VerdictRefuses(c) /\ Greedy(c)

-----------------------------------------------------------------------------
(* GET /api/search.                                                        *)

InTarpit == Total(tarpit)

\* The limiter refuses; the sweep happens all the same.
SearchLimited(c) ==
    /\ Refuses(c)
    /\ windows' = Swept /\ Sweeps
    /\ heldBack' = Nobody
    /\ UNCHANGED <<clock, meterVars, tarpit, admitted, burned, taken>>

\* `admit` lets the search through.
SearchAllowed(c) ==
    /\ ~Refuses(c) /\ Takes(c)
    /\ ~VerdictRefuses(c) /\ ~VerdictSlows(c)
    /\ admitted[c] < MaxPending
    /\ admitted' = [admitted EXCEPT ![c] = @ + 1]
    /\ heldBack' = Nobody
    /\ UNCHANGED <<clock, meterVars, tarpit, burned>>

\* `admit` puts it to sleep.
SearchSlowed(c) ==
    /\ ~Refuses(c) /\ Takes(c)
    /\ VerdictSlows(c) /\ InTarpit < MaxTarpits
    /\ tarpit[c] < MaxPending
    /\ tarpit' = [tarpit EXCEPT ![c] = @ + 1]
    /\ heldBack' = {c}
    /\ UNCHANGED <<clock, meterVars, admitted, burned>>

\* `admit` refuses, or has no room left to let it sleep.
SearchRefused(c) ==
    /\ ~Refuses(c) /\ Takes(c)
    /\ VerdictRefuses(c) \/ (VerdictSlows(c) /\ InTarpit >= MaxTarpits)
    /\ heldBack' = {c}
    /\ UNCHANGED <<clock, meterVars, tarpit, admitted, burned>>

\* The sleep ends; the verdict is not asked for again.
Wakes(c) ==
    /\ tarpit[c] > 0 /\ admitted[c] < MaxPending
    /\ tarpit' = [tarpit EXCEPT ![c] = @ - 1]
    /\ admitted' = [admitted EXCEPT ![c] = @ + 1]
    /\ heldBack' = Nobody
    /\ UNCHANGED <<clock, limiterVars, meterVars, burned, taken>>

\* The search runs and is charged what it took; a query out of bounds costs nothing.
Runs(c, ms) ==
    /\ admitted[c] > 0
    /\ admitted' = [admitted EXCEPT ![c] = @ - 1]
    /\ Records(c, ms)
    /\ heldBack' = Nobody
    /\ UNCHANGED <<clock, limiterVars, tarpit, taken>>

Older(h) == [a \in Ages |-> IF a = 0 THEN 0 ELSE h[a - 1]]
TimePasses ==
    /\ clock < MaxClock
    /\ clock' = clock + 1
    /\ burned' = [c \in Callers |-> Older(burned[c])]
    /\ taken' = [c \in Callers |-> Older(taken[c])]
    /\ heldBack' = Nobody
    /\ UNCHANGED <<limiterVars, meterVars, tarpit, admitted>>

Next ==
    \/ TimePasses
    \/ \E c \in Callers :
        \/ SearchLimited(c) \/ SearchAllowed(c) \/ SearchSlowed(c) \/ SearchRefused(c)
        \/ Wakes(c)
        \/ \E ms \in Costs \cup {0} : Runs(c, ms)

Spec == Init /\ [][Next]_vars

-----------------------------------------------------------------------------
(* Properties.                                                             *)

InWindow(h) == Total(h)

\* The limiter "lets a burst through at a boundary", and no more than one: within
\* any span as long as a window, a caller gets less than twice the limit, however
\* windows are opened, swept and opened again.
BurstBounded == \A c \in Callers : InWindow(taken[c]) < 2 * Limit

\* `take` "treats a stale entry as a fresh window" and `remaining` "reads it the same
\* way": a caller is refused just when it would read that no call is left, whatever
\* the refusal's own sweep drops, and is then told to come back later, not now.
ToldTheTruth ==
    \A c \in Callers :
        /\ Refuses(c) <=> Remaining(c) = 0
        /\ Refuses(c) => ClosesIn(c) > 0

\* The lazy limiter is one whose windows close on time.
Windows == INSTANCE FixedWindow WITH
    Length <- Buckets,
    left <- [c \in Callers |-> Remaining(c)],
    closesIn <- [c \in Callers |-> ClosesIn(c)]
ClosesOnTime == Windows!Spec

\* The rings are what was spent: the total is what everybody's searches took within
\* the window, evicted callers included, and nobody is charged more than that.
MeterIsHonest ==
    /\ Busy = Total([c \in Callers |-> InWindow(burned[c])])
    /\ \A c \in Callers : Spent(c) <= InWindow(burned[c])

\* "With nobody else in the window there is nobody to be fair to": whoever is slowed
\* or refused shares the window with somebody else's work, or is a runaway.  It
\* holds although a caller whose ring was dropped to make room for another meets
\* its own old work in the total.
AloneNobodyWaits ==
    \A c \in heldBack :
        \/ \E d \in Callers \ {c} : InWindow(burned[d]) > 0
        \/ InWindow(burned[c]) >= SoloBudgetMs
=============================================================================
