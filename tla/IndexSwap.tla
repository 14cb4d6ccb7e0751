----------------------------- MODULE IndexSwap -----------------------------
(***************************************************************************)
(* How the title index is built, gated, promoted and adopted: the build    *)
(* job (jobs/build-index.ts) is a process of its own that works on         *)
(* titles.new.db and renames it over titles.db; the server holds the file  *)
(* it opened, builds one at boot when there is none (server/index-build),  *)
(* refreshes it every night (server/index-refresh), and swaps the promoted *)
(* one in without a restart, or rolls back (server/live-index).            *)
(*                                                                         *)
(* `db`, `new` and `prev` are the paths titles.db, titles.new.db and       *)
(* titles.prev.db.  What lies at a path is an index: the file one build    *)
(* creates and goes on writing whatever the path is renamed to, and that a *)
(* server goes on holding once it opened it.  A build's steps interleave   *)
(* with those of the server and of another build.                          *)
(***************************************************************************)
EXTENDS Naturals, FiniteSets

CONSTANTS
    Builds,       \* bound: build processes alive at a time
    MaxIndexes,   \* bound: index files that exist at a time
    Environment   \* what the world does in a behaviour

\* A power cut; a build killed or failing before its promotion; the clock of the
\* nightly refresh striking during the build of the first index; a server that comes
\* back while the build that the one before it left running still runs.
EnvironmentEvents == {"power", "kill", "early_cron", "orphan"}
NoBuild == "no build"

ASSUME SwapAssumption ==
    /\ IsFiniteSet(Builds) /\ NoBuild \notin Builds
    /\ MaxIndexes \in Nat
    /\ Environment \subseteq EnvironmentEvents

Indexes == 1 .. MaxIndexes
None == 0

VARIABLES
    db, new, prev, \* what lies at each path
    whole,         \* indexes whose build has finished writing
    accurate,      \* finished indexes that pass the canary
    stage,         \* [Builds -> Stages]
    writes,        \* the index a build is writing
    up,            \* the server runs
    engine,        \* the index it holds open
    moved,         \* `fileMovedUnderUs`
    bootBuild,     \* the build of the first index, this server's
    refresh,       \* the build the refresher waits for
    opened         \* history: some server has served an index

fileVars == <<db, new, prev>>
indexVars == <<whole, accurate>>
buildVars == <<stage, writes>>
serverVars == <<up, engine, moved, bootBuild, refresh, opened>>
vars == <<fileVars, indexVars, buildVars, serverVars>>

\* A build: nothing, fetching, writing titles.new.db, written and vacuumed,
\* through the gates, between the steps of `promote`, and its exit code.
Stages == {"off", "fetch", "write", "gate", "passed", "aside", "into", "exit0", "exit1"}
Running == {"fetch", "write", "gate", "passed", "aside", "into"}

SwapTypeOK ==
    /\ {db, new, prev, engine} \subseteq Indexes \cup {None}
    /\ accurate \subseteq whole /\ whole \subseteq Indexes
    /\ stage \in [Builds -> Stages]
    /\ writes \in [Builds -> Indexes \cup {None}]
    /\ up \in BOOLEAN /\ moved \in BOOLEAN /\ opened \in BOOLEAN
    /\ {bootBuild, refresh} \subseteq Builds \cup {NoBuild}

\* An empty data directory.
Init ==
    /\ db = None /\ new = None /\ prev = None
    /\ whole = {} /\ accurate = {}
    /\ stage = [b \in Builds |-> "off"]
    /\ writes = [b \in Builds |-> None]
    /\ up = FALSE /\ engine = None /\ moved = FALSE
    /\ bootBuild = NoBuild /\ refresh = NoBuild
    /\ opened = FALSE

\* What a reader of index i finds.  A file still being written may open and may
\* pass the canary, or not.
Passes(i) ==
    IF i = None THEN {FALSE}
    ELSE IF i \in whole THEN {i \in accurate}
    ELSE BOOLEAN

\* Opening adds what the machine can fail at.
Opens(i) == IF TRUE \in Passes(i) THEN BOOLEAN ELSE {FALSE}

-----------------------------------------------------------------------------
(* The build job, jobs/build-index.ts.                                     *)

Go(b, to) == stage' = [stage EXCEPT ![b] = to]

\* No drift upstream and a live index: nothing to do.
NothingToDo(b) ==
    /\ stage[b] = "fetch"
    /\ db # None
    /\ Go(b, "exit0")
    /\ UNCHANGED <<fileVars, indexVars, writes, serverVars>>

\* Index files that exist no more, or will not once titles.new.db is unlinked.
Gone == Indexes \ ({db, prev, engine} \cup {writes[b] : b \in Builds})

\* Mutant: what lies at titles.new.db is written over.
CreatesIndexInPlace(b) ==
    /\ stage[b] = "fetch"
    /\ \E i \in IF new = None THEN Gone ELSE {new} :
        /\ new' = i
        /\ writes' = [writes EXCEPT ![b] = i]
        /\ whole' = whole \ {i}
    /\ Go(b, "write")
    /\ UNCHANGED <<db, prev, accurate, serverVars>>

\* `buildIndex` unlinks what lies at titles.new.db and creates its own.
CreatesIndex(b) ==
    /\ stage[b] = "fetch"
    /\ \E i \in Gone :
        /\ \A j \in Gone : i <= j
        /\ new' = i
        /\ writes' = [writes EXCEPT ![b] = i]
        /\ whole' = whole \ {i}
        /\ accurate' = accurate \ {i}
    /\ Go(b, "write")
    /\ UNCHANGED <<db, prev, serverVars>>

\* The index is written and vacuumed.  `vacuumIndex` fails when nothing is left
\* at titles.new.db, and gives up when another build holds what lies there.
FinishesIndex(b) ==
    /\ stage[b] = "write"
    /\ Go(b, IF new = None THEN "exit1" ELSE "gate")
    /\ whole' = whole \cup {writes[b]}
    /\ \/ accurate' = accurate \cup {writes[b]}
       \/ UNCHANGED accurate
    /\ UNCHANGED <<fileVars, writes, serverVars>>

\* The gates, volume, capabilities and canary, read titles.new.db by its path.
Gate(b) ==
    /\ stage[b] = "gate"
    /\ \E ok \in Passes(new) : Go(b, IF ok THEN "passed" ELSE "exit1")
    /\ UNCHANGED <<fileVars, indexVars, writes, serverVars>>

\* `promote`: make room for the live index, set it aside, move the new one in.
PromoteMakesRoom(b) ==
    /\ stage[b] = "passed"
    /\ IF new = None THEN Go(b, "exit1") /\ UNCHANGED prev
       ELSE IF db = None THEN Go(b, "into") /\ UNCHANGED prev
       ELSE Go(b, "aside") /\ prev' = None
    /\ UNCHANGED <<db, new, indexVars, writes, serverVars>>

\* Mutant: the live index is deleted to make room.
PromoteDeletesLive(b) ==
    /\ stage[b] = "aside"
    /\ Go(b, "into") /\ db' = None
    /\ UNCHANGED <<new, prev, indexVars, writes, serverVars>>

PromoteSetsAside(b) ==
    /\ stage[b] = "aside"
    /\ IF db = None THEN Go(b, "exit1") /\ UNCHANGED <<db, prev>>
       ELSE Go(b, "into") /\ prev' = db /\ db' = None
    /\ UNCHANGED <<new, indexVars, writes, serverVars>>

PromoteMovesIn(b) ==
    /\ stage[b] = "into"
    /\ IF new = None THEN Go(b, "exit1") /\ UNCHANGED <<db, new>>
       ELSE Go(b, "exit0") /\ db' = new /\ new' = None
    /\ UNCHANGED <<prev, indexVars, writes, serverVars>>

\* A build fails on the network or the disk, or is killed, before it promotes.
BuildFails(b) ==
    /\ "kill" \in Environment
    /\ stage[b] \in {"fetch", "write", "gate", "passed"}
    /\ Go(b, "exit1")
    /\ UNCHANGED <<fileVars, indexVars, writes, serverVars>>

\* A build nobody waits for any more exits.
OrphanExits(b) ==
    /\ stage[b] \in {"exit0", "exit1"}
    /\ b \notin {bootBuild, refresh}
    /\ Go(b, "off")
    /\ writes' = [writes EXCEPT ![b] = None]
    /\ UNCHANGED <<fileVars, indexVars, serverVars>>

BuildSteps(b) ==
    \/ NothingToDo(b) \/ CreatesIndex(b) \/ FinishesIndex(b) \/ Gate(b)
    \/ PromoteMakesRoom(b) \/ PromoteSetsAside(b) \/ PromoteMovesIn(b)
    \/ OrphanExits(b)

-----------------------------------------------------------------------------
(* The server: boot, the build of the first index, the nightly refresh.    *)

Starts(b) ==
    /\ stage[b] = "off"
    /\ Go(b, "fetch")

\* Boot with an index: the holder opens it, with no canary, or the process ends.
MayBoot == ~up /\ ("orphan" \in Environment \/ \A b \in Builds : stage[b] = "off")
\* Mutant: with no titles.db, titles.new.db is served.
BootsWithWhatever ==
    /\ MayBoot
    /\ {db, new} # {None}
    /\ up' = TRUE
    /\ engine' = IF db # None THEN db ELSE new
    /\ moved' = FALSE
    /\ opened' = TRUE
    /\ UNCHANGED <<fileVars, indexVars, buildVars, bootBuild, refresh>>

BootsWithIndex ==
    /\ MayBoot
    /\ db # None
    /\ up' = TRUE
    /\ engine' = db
    /\ moved' = FALSE
    /\ opened' = TRUE
    /\ UNCHANGED <<fileVars, indexVars, buildVars, bootBuild, refresh>>

\* Boot without one, `index.refreshOnBoot` on: the server comes up and builds one.
BootsWithout(b) ==
    /\ MayBoot
    /\ db = None
    /\ Starts(b)
    /\ up' = TRUE
    /\ bootBuild' = b
    /\ UNCHANGED <<fileVars, indexVars, writes, engine, moved, refresh, opened>>

\* Mutant: a call does not join the refresh that runs.
RefreshStartsAnother(b) ==
    /\ up
    /\ bootBuild = NoBuild
    /\ Starts(b)
    /\ refresh' = b
    /\ UNCHANGED <<fileVars, indexVars, writes, up, engine, moved, bootBuild, opened>>

\* The cron strikes, or the boot found a stage missing: `run` starts a build.  A
\* call while one runs joins it.
RefreshStarts(b) ==
    /\ up
    /\ refresh = NoBuild
    /\ bootBuild # NoBuild => "early_cron" \in Environment
    /\ Starts(b)
    /\ refresh' = b
    /\ UNCHANGED <<fileVars, indexVars, writes, up, engine, moved, bootBuild, opened>>

\* `swap`: the server answers out of index i from here on.
Swaps(i) == engine' = i /\ moved' = FALSE /\ opened' = TRUE

\* `open`: there is no engine yet; a refusal changes nothing.
OpenIndex ==
    /\ \/ TRUE \in Opens(db) /\ Swaps(db)
       \/ FALSE \in Opens(db) /\ UNCHANGED <<engine, moved, opened>>
    /\ UNCHANGED <<db, prev>>

\* The index on disk is the one already open, and the holder still vouches for it.
Vouched == engine # None /\ ~moved /\ engine = db

\* Mutant: a refused promotion is left where it is.
ReloadIndexOnly ==
    IF Vouched THEN UNCHANGED <<db, prev, engine, moved, opened>>
    ELSE \/ TRUE \in Opens(db) /\ Swaps(db) /\ UNCHANGED <<db, prev>>
         \/ FALSE \in Opens(db) /\ UNCHANGED <<db, prev, engine, moved, opened>>

\* `reload`: skipped if there is nothing new to open; else the file at the path is
\* opened and swapped in, or, refused, `rollback` puts the previous one back and that
\* one is tried.  When there is nothing to roll back to, or it is no good either, the
\* holder keeps an engine it does not vouch for.
ReloadIndex ==
    IF Vouched THEN UNCHANGED <<db, prev, engine, moved, opened>>
    ELSE \/ TRUE \in Opens(db) /\ Swaps(db) /\ UNCHANGED <<db, prev>>
         \/ /\ FALSE \in Opens(db)
            /\ \/ /\ prev = None
                  /\ UNCHANGED <<db, prev, engine, opened>>
                  /\ moved' = TRUE
               \/ /\ prev # None
                  /\ db' = prev
                  /\ prev' = None
                  /\ \/ TRUE \in Opens(prev) /\ Swaps(prev)
                     \/ /\ FALSE \in Opens(prev)
                        /\ moved' = TRUE
                        /\ UNCHANGED <<engine, opened>>

\* The boot build exits: its index is opened, unless it failed.
BootBuildEnds ==
    /\ bootBuild # NoBuild
    /\ stage[bootBuild] \in {"exit0", "exit1"}
    /\ IF stage[bootBuild] = "exit0" THEN OpenIndex
       ELSE UNCHANGED <<db, prev, engine, moved, opened>>
    /\ Go(bootBuild, "off")
    /\ writes' = [writes EXCEPT ![bootBuild] = None]
    /\ bootBuild' = NoBuild
    /\ UNCHANGED <<new, indexVars, up, refresh>>

\* Mutant: a refresh only ever reloads, so the first index is never opened.
RefreshEndsReloading ==
    /\ refresh # NoBuild
    /\ stage[refresh] \in {"exit0", "exit1"}
    /\ IF stage[refresh] = "exit1" \/ engine = None
         THEN UNCHANGED <<db, prev, engine, moved, opened>>
         ELSE ReloadIndex
    /\ Go(refresh, "off")
    /\ writes' = [writes EXCEPT ![refresh] = None]
    /\ refresh' = NoBuild
    /\ UNCHANGED <<new, indexVars, up, bootBuild>>

\* `execute` after its await: nothing on a failed build; else the first index is
\* opened, or the promoted one reloaded.
RefreshEnds ==
    /\ refresh # NoBuild
    /\ stage[refresh] \in {"exit0", "exit1"}
    /\ IF stage[refresh] = "exit1" THEN UNCHANGED <<db, prev, engine, moved, opened>>
       ELSE IF engine = None THEN OpenIndex
       ELSE ReloadIndex
    /\ Go(refresh, "off")
    /\ writes' = [writes EXCEPT ![refresh] = None]
    /\ refresh' = NoBuild
    /\ UNCHANGED <<new, indexVars, up, bootBuild>>

-----------------------------------------------------------------------------
(* Stops.                                                                  *)

ServerGone ==
    /\ up' = FALSE /\ engine' = None /\ moved' = FALSE
    /\ bootBuild' = NoBuild /\ refresh' = NoBuild
    /\ UNCHANGED <<new, prev, indexVars, opened>>

\* SIGTERM to the server: it kills the build of the first index, and leaves a
\* refresh's build running.
ServerStops ==
    /\ up
    /\ stage' = [b \in Builds |-> IF b = bootBuild THEN "off" ELSE stage[b]]
    /\ writes' = [b \in Builds |-> IF b = bootBuild THEN None ELSE writes[b]]
    /\ ServerGone
    /\ UNCHANGED db

\* Power is cut, between any two steps: only the files are left.
AllGone ==
    /\ "power" \in Environment
    /\ stage' = [b \in Builds |-> "off"]
    /\ writes' = [b \in Builds |-> None]
    /\ ServerGone
PowerCut == AllGone /\ UNCHANGED db

\* The same inside `rollback`, which has unlinked the refused index and not yet
\* renamed the previous one.
PowerCutInRollback ==
    /\ refresh # NoBuild /\ stage[refresh] = "exit0"
    /\ engine # None /\ ~Vouched
    /\ FALSE \in Opens(db)
    /\ prev # None
    /\ db' = None
    /\ AllGone

Next ==
    \/ \E b \in Builds :
        BuildSteps(b) \/ BuildFails(b) \/ BootsWithout(b) \/ RefreshStarts(b)
    \/ BootsWithIndex \/ BootBuildEnds \/ RefreshEnds \/ ServerStops
    \/ PowerCut \/ PowerCutInRollback

Spec == Init /\ [][Next]_vars

\* Builds go on and exit, the nightly refresh comes, and whatever a step can fail
\* at it does not fail at for ever.
GoodIndex(b) == FinishesIndex(b) /\ accurate' # accurate
GoodGate(b) == Gate(b) /\ stage'[b] = "passed"
GoodRefresh == RefreshEnds /\ Vouched'
FairSpec ==
    /\ Spec
    /\ WF_vars(BootBuildEnds) /\ WF_vars(RefreshEnds) /\ SF_vars(GoodRefresh)
    /\ \A b \in Builds :
        /\ WF_vars(RefreshStarts(b)) /\ WF_vars(BuildSteps(b))
        /\ SF_vars(CreatesIndex(b)) /\ SF_vars(GoodIndex(b)) /\ SF_vars(GoodGate(b))
        /\ SF_vars(PromoteMakesRoom(b))

-----------------------------------------------------------------------------
(* Properties.                                                             *)

\* vacuumIndex: "The one thing that would be unforgivable is promoting a
\* half-written file".  What lies at titles.db, or was set aside from there, is
\* an index whose build had finished, between any two steps of builds and server.
PromotedIsWhole == {db, prev} \subseteq whole \cup {None}

\* What the next ones hold under, and the code does not see to: builds do not meet, and
\* a server knows of every build that runs.
NoTwoBuilds == \A a, b \in Builds : stage[a] \in Running /\ stage[b] \in Running => a = b
NoStrayBuild == up => \A b \in Builds : stage[b] \in Running => b \in {bootBuild, refresh}

\* There is always something to go back to: once an index was served, a finished
\* one is at titles.db or titles.prev.db, whatever power cut hits `promote`.
SomethingToServe == opened => {db, prev} \cap whole # {}

\* The holder never serves a file that is not at titles.db without saying so:
\* unless a promotion is under way or waits to be adopted, the engine is the
\* index on disk, or `fileMovedUnderUs` is set and health reports no numbers.
Promoting == \E b \in Builds : stage[b] \in {"into", "exit0"}
EngineIsOnDisk == (engine # None /\ ~moved /\ ~Promoting) => engine = db

\* A server that stays up comes to serve the index on disk again, after a first
\* build that failed, a refused promotion or a failed rollback, without a restart:
\* a later refresh opens what it finds.
ServesAgain == <>[]up => []<>Vouched

\* The promise of ServedIndex, kept by files, builds and swaps.
Promise == INSTANCE ServedIndex WITH
    Nothing <- None, finished <- whole, served <- engine
KeepsPromise == Promise!Spec
=============================================================================
