--------------------------- MODULE IndexSwapProofs ---------------------------
(***************************************************************************)
(* What IndexSwap keeps for every set of builds, any number of index files *)
(* and whatever the world does.  Types hold in every behaviour.  The rest  *)
(* is about the behaviours the code hopes for and does not see to: those   *)
(* in which builds do not meet, `[]NoTwoBuilds`, and for the holder's word *)
(* those in which the server also knows of every build that runs,          *)
(* `[]NoStrayBuild`.  Without the first, OnlyWholeIsPromoted is false: the *)
(* run index_first_build_race is the counterexample.  BuildsNeverMeet says *)
(* where both hold: when the nightly refresh does not strike during the    *)
(* build of the first index and no server boots beside a build that the    *)
(* one before it left.                                                     *)
(***************************************************************************)
EXTENDS IndexSwap, TLAPS

LEMMA NoneIsNoIndex == None \notin Indexes
BY SwapAssumption DEF SwapAssumption, Indexes, None

\* What opens is there.
LEMMA WhatOpens ==
    ASSUME NEW i, TRUE \in Opens(i)
    PROVE  i # None
BY DEF Opens, Passes

-----------------------------------------------------------------------------
(* Types, in every behaviour.                                              *)

Types ==
    /\ db \in Indexes \cup {None} /\ new \in Indexes \cup {None}
    /\ prev \in Indexes \cup {None} /\ engine \in Indexes \cup {None}
    /\ accurate \subseteq whole /\ whole \subseteq Indexes
    /\ stage \in [Builds -> Stages]
    /\ writes \in [Builds -> Indexes \cup {None}]
    /\ up \in BOOLEAN /\ moved \in BOOLEAN /\ opened \in BOOLEAN
    /\ bootBuild \in Builds \cup {NoBuild} /\ refresh \in Builds \cup {NoBuild}
    /\ \A b \in Builds : stage[b] = "write" => writes[b] \in Indexes

LEMMA InitTypes == Init => Types
BY NoneIsNoIndex DEF Init, Types, Stages, None

LEMMA TypesStep ==
    ASSUME Types, [Next]_vars
    PROVE  Types'
<1> USE SwapAssumption, NoneIsNoIndex DEF SwapAssumption, Types, Stages, Go, fileVars, indexVars, buildVars, serverVars
<1>1. ASSUME NEW b \in Builds, NothingToDo(b)
      PROVE  Types'
  BY <1>1 DEF NothingToDo
<1>2. ASSUME NEW b \in Builds, CreatesIndex(b)
      PROVE  Types'
  BY <1>2 DEF CreatesIndex, Gone
<1>3. ASSUME NEW b \in Builds, FinishesIndex(b)
      PROVE  Types'
  BY <1>3 DEF FinishesIndex
<1>4. ASSUME NEW b \in Builds, Gate(b)
      PROVE  Types'
  BY <1>4 DEF Gate
<1>5. ASSUME NEW b \in Builds, PromoteMakesRoom(b)
      PROVE  Types'
  BY <1>5 DEF PromoteMakesRoom
<1>6. ASSUME NEW b \in Builds, PromoteSetsAside(b)
      PROVE  Types'
  BY <1>6 DEF PromoteSetsAside
<1>7. ASSUME NEW b \in Builds, PromoteMovesIn(b)
      PROVE  Types'
  BY <1>7 DEF PromoteMovesIn
<1>8. ASSUME NEW b \in Builds, OrphanExits(b)
      PROVE  Types'
  BY <1>8 DEF OrphanExits
<1>9. ASSUME NEW b \in Builds, BuildFails(b)
      PROVE  Types'
  BY <1>9 DEF BuildFails
<1>10. ASSUME NEW b \in Builds, BootsWithout(b)
      PROVE  Types'
  BY <1>10 DEF BootsWithout, Starts, MayBoot
<1>11. ASSUME NEW b \in Builds, RefreshStarts(b)
      PROVE  Types'
  BY <1>11 DEF RefreshStarts, Starts
<1>12. ASSUME BootsWithIndex
      PROVE  Types'
  BY <1>12 DEF BootsWithIndex, MayBoot
<1>13. ASSUME BootBuildEnds
      PROVE  Types'
  BY <1>13 DEF BootBuildEnds, OpenIndex, Swaps
<1>14. ASSUME RefreshEnds
      PROVE  Types'
  BY <1>14 DEF RefreshEnds, OpenIndex, ReloadIndex, Swaps, Vouched
<1>15. ASSUME ServerStops
      PROVE  Types'
  BY <1>15 DEF ServerStops, ServerGone
<1>16. ASSUME PowerCut
      PROVE  Types'
  BY <1>16 DEF PowerCut, AllGone, ServerGone
<1>17. ASSUME PowerCutInRollback
      PROVE  Types'
  BY <1>17 DEF PowerCutInRollback, AllGone, ServerGone
<1>18. CASE UNCHANGED vars
  BY <1>18 DEF vars
<1> QED
  BY <1>1, <1>2, <1>3, <1>4, <1>5, <1>6, <1>7, <1>8, <1>9,
     <1>10, <1>11, <1>12, <1>13, <1>14, <1>15, <1>16, <1>17, <1>18 DEF Next, BuildSteps

LEMMA TypesHold == Spec => []Types
<1>1. Types /\ [Next]_vars => Types'
  BY TypesStep
<1> QED
  BY <1>1, InitTypes, PTL DEF Spec

\* The files, the builds and the server have their types in every reachable state.
THEOREM SwapTypes == Spec => []SwapTypeOK
<1>1. Types => SwapTypeOK
  BY DEF Types, SwapTypeOK
<1> QED
  BY <1>1, TypesHold, PTL

-----------------------------------------------------------------------------
(* Where builds do not meet.                                               *)

\* At most one build is there, somebody waits for it while a server runs, and a
\* server that is gone waits for none.
OneBuild ==
    /\ \A a, b \in Builds : stage[a] # "off" /\ stage[b] # "off" => a = b
    /\ up => \A b \in Builds : stage[b] # "off" => b \in {bootBuild, refresh}
    /\ \A b \in {bootBuild, refresh} : b # NoBuild => stage[b] # "off"
    /\ ~up => bootBuild = NoBuild /\ refresh = NoBuild
    /\ bootBuild # NoBuild => refresh = NoBuild

Apart == {"early_cron", "orphan"} \cap Environment = {}

LEMMA OneBuildStep ==
    ASSUME Apart, Types, OneBuild, [Next]_vars
    PROVE  OneBuild'
<1> USE SwapAssumption DEF SwapAssumption, Apart, Types, OneBuild, Stages, Go, fileVars, indexVars, buildVars, serverVars
<1>1. ASSUME NEW b \in Builds, NothingToDo(b)
      PROVE  OneBuild'
  BY <1>1 DEF NothingToDo
<1>2. ASSUME NEW b \in Builds, CreatesIndex(b)
      PROVE  OneBuild'
  BY <1>2 DEF CreatesIndex, Gone
<1>3. ASSUME NEW b \in Builds, FinishesIndex(b)
      PROVE  OneBuild'
  BY <1>3 DEF FinishesIndex
<1>4. ASSUME NEW b \in Builds, Gate(b)
      PROVE  OneBuild'
  BY <1>4 DEF Gate
<1>5. ASSUME NEW b \in Builds, PromoteMakesRoom(b)
      PROVE  OneBuild'
  BY <1>5 DEF PromoteMakesRoom
<1>6. ASSUME NEW b \in Builds, PromoteSetsAside(b)
      PROVE  OneBuild'
  BY <1>6 DEF PromoteSetsAside
<1>7. ASSUME NEW b \in Builds, PromoteMovesIn(b)
      PROVE  OneBuild'
  BY <1>7 DEF PromoteMovesIn
<1>8. ASSUME NEW b \in Builds, OrphanExits(b)
      PROVE  OneBuild'
  BY <1>8 DEF OrphanExits
<1>9. ASSUME NEW b \in Builds, BuildFails(b)
      PROVE  OneBuild'
  BY <1>9 DEF BuildFails
<1>10. ASSUME NEW b \in Builds, BootsWithout(b)
      PROVE  OneBuild'
  BY <1>10 DEF BootsWithout, Starts, MayBoot
<1>11. ASSUME NEW b \in Builds, RefreshStarts(b)
      PROVE  OneBuild'
  BY <1>11 DEF RefreshStarts, Starts
<1>12. ASSUME BootsWithIndex
      PROVE  OneBuild'
  BY <1>12 DEF BootsWithIndex, MayBoot
<1>13. ASSUME BootBuildEnds
      PROVE  OneBuild'
  BY <1>13 DEF BootBuildEnds, OpenIndex, Swaps
<1>14. ASSUME RefreshEnds
      PROVE  OneBuild'
  BY <1>14 DEF RefreshEnds, OpenIndex, ReloadIndex, Swaps, Vouched
<1>15. ASSUME ServerStops
      PROVE  OneBuild'
  BY <1>15 DEF ServerStops, ServerGone
<1>16. ASSUME PowerCut
      PROVE  OneBuild'
  BY <1>16 DEF PowerCut, AllGone, ServerGone
<1>17. ASSUME PowerCutInRollback
      PROVE  OneBuild'
  BY <1>17 DEF PowerCutInRollback, AllGone, ServerGone
<1>18. CASE UNCHANGED vars
  BY <1>18 DEF vars
<1> QED
  BY <1>1, <1>2, <1>3, <1>4, <1>5, <1>6, <1>7, <1>8, <1>9,
     <1>10, <1>11, <1>12, <1>13, <1>14, <1>15, <1>16, <1>17, <1>18 DEF Next, BuildSteps

\* The two conditions of the theorems below hold where neither the early cron nor
\* an orphan strikes, as in the run index_swap.
LEMMA BuildsNeverMeet == ASSUME Apart PROVE Spec => []NoTwoBuilds /\ []NoStrayBuild
<1>1. Init => OneBuild
  BY DEF Init, OneBuild
<1>2. Types /\ OneBuild /\ [Next]_vars => OneBuild'
  BY OneBuildStep
<1>3. OneBuild => NoTwoBuilds /\ NoStrayBuild
  BY DEF OneBuild, NoTwoBuilds, NoStrayBuild, Running
<1> QED
  BY <1>1, <1>2, <1>3, TypesHold, PTL DEF Spec

-----------------------------------------------------------------------------
(* What is promoted, and what there is to serve.                           *)

\* What lies at titles.new.db is what the build under way writes, and finished from
\* the gates on.
NewIsTheBuilds ==
    \A b \in Builds :
        /\ stage[b] = "write" => new = writes[b] /\ writes[b] \in Indexes
        /\ stage[b] \in {"gate", "passed", "aside", "into"} => new \in whole

\* Every path a server may serve from holds a finished index, and so does it.
ServedIsWhole == db \in whole \cup {None} /\ prev \in whole \cup {None} /\ engine \in whole \cup {None}

\* Once an index was served there is one.
OneIsThere == opened => db # None \/ prev # None

FilesInv == NewIsTheBuilds /\ ServedIsWhole /\ OneIsThere

LEMMA FilesStep ==
    ASSUME Types, FilesInv, NoTwoBuilds, NoTwoBuilds', [Next]_vars
    PROVE  FilesInv'
<1> USE SwapAssumption, NoneIsNoIndex DEF SwapAssumption, Types, FilesInv, NewIsTheBuilds,
    ServedIsWhole, OneIsThere, NoTwoBuilds, Running, Stages, Go, fileVars, indexVars, buildVars, serverVars
<1>1. ASSUME NEW b \in Builds, NothingToDo(b)
      PROVE  FilesInv'
  BY <1>1 DEF NothingToDo
<1>2. ASSUME NEW b \in Builds, CreatesIndex(b)
      PROVE  FilesInv'
  BY <1>2 DEF CreatesIndex, Gone
<1>3. ASSUME NEW b \in Builds, FinishesIndex(b)
      PROVE  FilesInv'
  BY <1>3 DEF FinishesIndex
<1>4. ASSUME NEW b \in Builds, Gate(b)
      PROVE  FilesInv'
  BY <1>4 DEF Gate
<1>5. ASSUME NEW b \in Builds, PromoteMakesRoom(b)
      PROVE  FilesInv'
  BY <1>5 DEF PromoteMakesRoom
<1>6. ASSUME NEW b \in Builds, PromoteSetsAside(b)
      PROVE  FilesInv'
  BY <1>6 DEF PromoteSetsAside
<1>7. ASSUME NEW b \in Builds, PromoteMovesIn(b)
      PROVE  FilesInv'
  BY <1>7 DEF PromoteMovesIn
<1>8. ASSUME NEW b \in Builds, OrphanExits(b)
      PROVE  FilesInv'
  BY <1>8 DEF OrphanExits
<1>9. ASSUME NEW b \in Builds, BuildFails(b)
      PROVE  FilesInv'
  BY <1>9 DEF BuildFails
<1>10. ASSUME NEW b \in Builds, BootsWithout(b)
      PROVE  FilesInv'
  BY <1>10 DEF BootsWithout, Starts, MayBoot
<1>11. ASSUME NEW b \in Builds, RefreshStarts(b)
      PROVE  FilesInv'
  BY <1>11 DEF RefreshStarts, Starts
<1>12. ASSUME BootsWithIndex
      PROVE  FilesInv'
  BY <1>12 DEF BootsWithIndex, MayBoot
<1>13. ASSUME BootBuildEnds
      PROVE  FilesInv'
  <2>1. /\ UNCHANGED <<new, whole, accurate>>
        /\ \A b \in Builds : stage'[b] \in {stage[b], "off"} /\ (stage'[b] # "off" => writes'[b] = writes[b])
    BY <1>13 DEF BootBuildEnds
  <2>2. \/ UNCHANGED <<db, prev, engine, opened>>
        \/ engine' = db /\ db # None /\ opened' = TRUE /\ UNCHANGED <<db, prev>>
    BY <1>13, WhatOpens DEF BootBuildEnds, OpenIndex, Swaps
  <2> QED
    BY <2>1, <2>2
<1>14. ASSUME RefreshEnds
      PROVE  FilesInv'
  <2>1. /\ UNCHANGED <<new, whole, accurate>>
        /\ \A b \in Builds : stage'[b] \in {stage[b], "off"} /\ (stage'[b] # "off" => writes'[b] = writes[b])
    BY <1>14 DEF RefreshEnds
  <2>2. \/ UNCHANGED <<db, prev, engine, opened>>
        \/ engine' = db /\ db # None /\ opened' = TRUE /\ UNCHANGED <<db, prev>>
        \/ /\ db' = prev /\ prev # None /\ prev' = None
           /\ engine' \in {prev, engine}
    <3>1. CASE stage[refresh] = "exit1"
      BY <1>14, <3>1 DEF RefreshEnds
    <3>2. CASE stage[refresh] = "exit0" /\ engine = None
      BY <1>14, <3>2, WhatOpens DEF RefreshEnds, OpenIndex, Swaps
    <3>3. CASE stage[refresh] = "exit0" /\ engine # None
      <4>1. ReloadIndex
        BY <1>14, <3>3 DEF RefreshEnds
      <4>2. (TRUE \in Opens(db) => db # None) /\ (TRUE \in Opens(prev) => prev # None)
        BY WhatOpens
      <4>3. CASE Vouched
        BY <4>1, <4>3 DEF ReloadIndex
      <4>4. CASE TRUE \in Opens(db) /\ Swaps(db) /\ UNCHANGED <<db, prev>>
        BY <4>2, <4>4 DEF Swaps
      <4>5. CASE ~Vouched /\ ~(TRUE \in Opens(db) /\ Swaps(db) /\ UNCHANGED <<db, prev>>)
        <5>1. \/ UNCHANGED <<db, prev, engine, opened>>
              \/ /\ prev # None /\ db' = prev /\ prev' = None
                 /\ Swaps(prev) \/ UNCHANGED <<engine, opened>>
          BY <4>1, <4>5, Zenon DEF ReloadIndex
        <5> QED
          BY <5>1 DEF Swaps
      <4> QED
        BY <4>3, <4>4, <4>5
    <3> QED
      BY <1>14, <3>1, <3>2, <3>3 DEF RefreshEnds
  <2> QED
    BY <2>1, <2>2
<1>15. ASSUME ServerStops
      PROVE  FilesInv'
  BY <1>15 DEF ServerStops, ServerGone
<1>16. ASSUME PowerCut
      PROVE  FilesInv'
  BY <1>16 DEF PowerCut, AllGone, ServerGone
<1>17. ASSUME PowerCutInRollback
      PROVE  FilesInv'
  BY <1>17 DEF PowerCutInRollback, AllGone, ServerGone
<1>18. CASE UNCHANGED vars
  BY <1>18 DEF vars
<1> QED
  BY <1>1, <1>2, <1>3, <1>4, <1>5, <1>6, <1>7, <1>8, <1>9,
     <1>10, <1>11, <1>12, <1>13, <1>14, <1>15, <1>16, <1>17, <1>18 DEF Next, BuildSteps

LEMMA FilesHold == Spec /\ []NoTwoBuilds => []FilesInv
<1>1. Init => FilesInv
  BY NoneIsNoIndex DEF Init, FilesInv, NewIsTheBuilds, ServedIsWhole, OneIsThere, None
<1>2. Types /\ FilesInv /\ NoTwoBuilds /\ NoTwoBuilds' /\ [Next]_vars => FilesInv'
  BY FilesStep
<1> QED
  BY <1>1, <1>2, TypesHold, PTL DEF Spec

\* `promote` never moves or sets aside an index whose build had not finished, wherever
\* a build fails, the server stops or power is cut, if builds do not meet.
THEOREM OnlyWholeIsPromoted == Spec /\ []NoTwoBuilds => []PromotedIsWhole
<1>1. FilesInv => PromotedIsWhole
  BY DEF FilesInv, ServedIsWhole, PromotedIsWhole
<1> QED
  BY <1>1, FilesHold, PTL

\* Once an index was served, titles.db or titles.prev.db is a finished one, between
\* any two renames of `promote` and `rollback`, if builds do not meet.
THEOREM AlwaysSomethingToServe == Spec /\ []NoTwoBuilds => []SomethingToServe
<1>1. FilesInv => SomethingToServe
  BY DEF FilesInv, ServedIsWhole, OneIsThere, SomethingToServe
<1> QED
  BY <1>1, FilesHold, PTL

-----------------------------------------------------------------------------
(* What the holder says.                                                   *)

\* The server waits for builds that are there, one as the first and another as a
\* refresh, and when it is gone for none.
Awaited ==
    /\ ~up => engine = None /\ bootBuild = NoBuild /\ refresh = NoBuild
    /\ \A b \in {bootBuild, refresh} : b # NoBuild => stage[b] # "off"
    /\ bootBuild # NoBuild => bootBuild # refresh

\* The build of the first index runs before there is anything to serve or refresh.
FirstAlone ==
    bootBuild # NoBuild /\ stage[bootBuild] \in Running => refresh = NoBuild /\ engine = None

\* Only a refresh that has not been adopted yet puts the engine's file elsewhere.
Unadopted ==
    engine # None /\ ~moved /\ engine # db => refresh # NoBuild /\ stage[refresh] \in {"into", "exit0"}

HolderInv == Awaited /\ FirstAlone /\ Unadopted

LEMMA HolderStep ==
    ASSUME Types, FilesInv, HolderInv, NoTwoBuilds, NoTwoBuilds', NoStrayBuild, [Next]_vars
    PROVE  HolderInv'
<1> USE SwapAssumption, NoneIsNoIndex DEF SwapAssumption, Types, FilesInv, NewIsTheBuilds, HolderInv,
    Awaited, FirstAlone, Unadopted, NoTwoBuilds, NoStrayBuild, Running, Stages, Go, fileVars, indexVars, buildVars, serverVars
<1>1. ASSUME NEW b \in Builds, NothingToDo(b)
      PROVE  HolderInv'
  BY <1>1 DEF NothingToDo
<1>2. ASSUME NEW b \in Builds, CreatesIndex(b)
      PROVE  HolderInv'
  BY <1>2 DEF CreatesIndex, Gone
<1>3. ASSUME NEW b \in Builds, FinishesIndex(b)
      PROVE  HolderInv'
  BY <1>3 DEF FinishesIndex
<1>4. ASSUME NEW b \in Builds, Gate(b)
      PROVE  HolderInv'
  BY <1>4 DEF Gate
<1>5. ASSUME NEW b \in Builds, PromoteMakesRoom(b)
      PROVE  HolderInv'
  BY <1>5 DEF PromoteMakesRoom
<1>6. ASSUME NEW b \in Builds, PromoteSetsAside(b)
      PROVE  HolderInv'
  BY <1>6 DEF PromoteSetsAside
<1>7. ASSUME NEW b \in Builds, PromoteMovesIn(b)
      PROVE  HolderInv'
  BY <1>7 DEF PromoteMovesIn
<1>8. ASSUME NEW b \in Builds, OrphanExits(b)
      PROVE  HolderInv'
  BY <1>8 DEF OrphanExits
<1>9. ASSUME NEW b \in Builds, BuildFails(b)
      PROVE  HolderInv'
  BY <1>9 DEF BuildFails
<1>10. ASSUME NEW b \in Builds, BootsWithout(b)
      PROVE  HolderInv'
  BY <1>10 DEF BootsWithout, Starts, MayBoot
<1>11. ASSUME NEW b \in Builds, RefreshStarts(b)
      PROVE  HolderInv'
  BY <1>11 DEF RefreshStarts, Starts
<1>12. ASSUME BootsWithIndex
      PROVE  HolderInv'
  BY <1>12 DEF BootsWithIndex, MayBoot
<1>13. ASSUME BootBuildEnds
      PROVE  HolderInv'
  <2>1. /\ bootBuild \in Builds /\ stage[bootBuild] \in {"exit0", "exit1"} /\ bootBuild' = NoBuild
        /\ UNCHANGED <<up, refresh>>
        /\ \A b \in Builds \ {bootBuild} : stage'[b] = stage[b]
    BY <1>13 DEF BootBuildEnds
  <2>2. up /\ refresh # bootBuild
    BY <2>1
  <2>3. \/ db' = db /\ engine' = engine /\ moved' = moved
        \/ engine' = db' /\ moved' = FALSE
    <3>1. CASE stage[bootBuild] = "exit1"
      BY <1>13, <3>1 DEF BootBuildEnds
    <3>2. CASE stage[bootBuild] = "exit0"
      <4>1. OpenIndex
        BY <1>13, <3>2 DEF BootBuildEnds
      <4> QED
        BY <4>1, Zenon DEF OpenIndex, Swaps
    <3> QED
      BY <1>13, <3>1, <3>2 DEF BootBuildEnds
  <2> QED
    BY <2>1, <2>2, <2>3
<1>14. ASSUME RefreshEnds
      PROVE  HolderInv'
  <2>1. /\ refresh \in Builds /\ stage[refresh] \in {"exit0", "exit1"} /\ refresh' = NoBuild
        /\ UNCHANGED <<up, bootBuild>>
        /\ \A b \in Builds \ {refresh} : stage'[b] = stage[b]
    BY <1>14 DEF RefreshEnds
  <2>2. up /\ refresh # bootBuild
    BY <2>1
  <2>3. ~(bootBuild # NoBuild /\ stage[bootBuild] \in Running)
    BY <2>1
  <2>4. engine' # None /\ ~moved' => engine' = db'
    <3>1. CASE stage[refresh] = "exit1"
      BY <1>14, <2>1, <3>1 DEF RefreshEnds
    <3>2. CASE stage[refresh] = "exit0" /\ engine = None
      BY <1>14, <2>1, <3>2 DEF RefreshEnds, OpenIndex, Swaps
    <3>3. CASE stage[refresh] = "exit0" /\ engine # None
      BY <1>14, <2>1, <3>3 DEF RefreshEnds, ReloadIndex, Swaps, Vouched
    <3> QED
      BY <2>1, <3>1, <3>2, <3>3
  <2> QED
    BY <2>1, <2>2, <2>3, <2>4
<1>15. ASSUME ServerStops
      PROVE  HolderInv'
  BY <1>15 DEF ServerStops, ServerGone
<1>16. ASSUME PowerCut
      PROVE  HolderInv'
  BY <1>16 DEF PowerCut, AllGone, ServerGone
<1>17. ASSUME PowerCutInRollback
      PROVE  HolderInv'
  BY <1>17 DEF PowerCutInRollback, AllGone, ServerGone
<1>18. CASE UNCHANGED vars
  BY <1>18 DEF vars
<1> QED
  BY <1>1, <1>2, <1>3, <1>4, <1>5, <1>6, <1>7, <1>8, <1>9,
     <1>10, <1>11, <1>12, <1>13, <1>14, <1>15, <1>16, <1>17, <1>18 DEF Next, BuildSteps

\* The holder serves the file at titles.db, or a promotion is under way, or it says
\* that its file was moved, if builds do not meet and the server knows of those that run.
THEOREM HolderIsHonest == Spec /\ []NoTwoBuilds /\ []NoStrayBuild => []EngineIsOnDisk
<1>1. Init => HolderInv
  BY DEF Init, HolderInv, Awaited, FirstAlone, Unadopted
<1>2. Types /\ FilesInv /\ HolderInv /\ NoTwoBuilds /\ NoTwoBuilds' /\ NoStrayBuild /\ [Next]_vars
        => HolderInv'
  BY HolderStep
<1>3. Types /\ HolderInv => EngineIsOnDisk
  BY DEF Types, HolderInv, Unadopted, EngineIsOnDisk, Promoting
<1> QED
  BY <1>1, <1>2, <1>3, TypesHold, FilesHold, PTL DEF Spec

-----------------------------------------------------------------------------
(* The refinement.                                                         *)

\* Every step of builds and server finishes an index, deletes one nobody serves,
\* swaps in a finished one, closes the engine, or is a stutter.
LEMMA StepIsAbstract ==
    ASSUME Types, FilesInv, [Next]_vars
    PROVE  [Promise!Next]_<<whole, engine>>
<1> USE NoneIsNoIndex DEF Types, FilesInv, ServedIsWhole, NewIsTheBuilds, Promise!Next,
    Promise!Finish, Promise!Serve, Promise!Delete, Promise!Close, fileVars, indexVars, buildVars, serverVars
<1>1. ASSUME NEW b \in Builds, CreatesIndex(b)
      PROVE  \E i \in Indexes : Promise!Delete(i)
  BY <1>1 DEF CreatesIndex, Gone
<1>2. ASSUME NEW b \in Builds, FinishesIndex(b)
      PROVE  Promise!Finish(writes[b])
  BY <1>2 DEF FinishesIndex
<1>3. ASSUME BootsWithIndex
      PROVE  Promise!Serve(db)
  BY <1>3 DEF BootsWithIndex
<1>4. ASSUME BootBuildEnds \/ RefreshEnds
      PROVE  \/ UNCHANGED <<whole, engine>>
             \/ db # None /\ Promise!Serve(db)
             \/ prev # None /\ Promise!Serve(prev)
  BY <1>4, WhatOpens DEF BootBuildEnds, RefreshEnds, OpenIndex, ReloadIndex, Swaps
<1>5. ASSUME ServerStops \/ PowerCut \/ PowerCutInRollback
      PROVE  Promise!Close
  BY <1>5 DEF ServerStops, PowerCut, PowerCutInRollback, AllGone, ServerGone
<1>6. ASSUME NEW b \in Builds,
             \/ NothingToDo(b) \/ Gate(b) \/ PromoteMakesRoom(b) \/ PromoteSetsAside(b)
             \/ PromoteMovesIn(b) \/ OrphanExits(b) \/ BuildFails(b) \/ BootsWithout(b)
             \/ RefreshStarts(b)
      PROVE  UNCHANGED <<whole, engine>>
  BY <1>6 DEF NothingToDo, Gate, PromoteMakesRoom, PromoteSetsAside, PromoteMovesIn,
    OrphanExits, BuildFails, BootsWithout, RefreshStarts
<1>7. CASE UNCHANGED vars
  BY <1>7 DEF vars
<1>8. ASSUME NEW b \in Builds, FinishesIndex(b)
      PROVE  writes[b] \in Indexes
  BY <1>8 DEF FinishesIndex
<1> QED
  BY <1>1, <1>2, <1>3, <1>4, <1>5, <1>6, <1>7, <1>8 DEF Next, BuildSteps, BootsWithIndex

\* The detailed machine implements the promise of ServedIndex: readers are answered
\* out of finished indexes, which change in one step, if builds do not meet.
THEOREM PromiseKept == Spec /\ []NoTwoBuilds => KeepsPromise
<1>1. Init => Promise!Init
  BY DEF Init, Promise!Init
<1>2. Types /\ FilesInv /\ [Next]_vars => [Promise!Next]_<<whole, engine>>
  BY StepIsAbstract
<1> QED
  BY <1>1, <1>2, TypesHold, FilesHold, PTL DEF Spec, KeepsPromise, Promise!Spec
=============================================================================
