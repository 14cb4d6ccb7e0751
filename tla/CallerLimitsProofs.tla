-------------------------- MODULE CallerLimitsProofs --------------------------
(***************************************************************************)
(* What CallerLimits keeps for every set of callers, every limit, every    *)
(* number of buckets, every budget and every cost: a caller gets less than *)
(* twice the limit in any span as long as a window, the meter's rings hold *)
(* what was really spent, and nobody is held back alone.                   *)
(***************************************************************************)
EXTENDS CallerLimits, SumsProofs

-----------------------------------------------------------------------------
(* Remainders.                                                             *)

LEMMA Divided ==
    ASSUME NEW n \in Int, NEW b \in Nat \ {0}
    PROVE  n = (b * (n \div b)) + (n % b) /\ n \div b \in Int /\ n % b \in 0 .. b - 1
OBVIOUS

LEMMA DividedOnce ==
    ASSUME NEW b \in Nat \ {0}, NEW p \in Int, NEW q \in Int,
           NEW r \in 0 .. b - 1, NEW s \in 0 .. b - 1, (b * p) + r = (b * q) + s
    PROVE  r = s
<1>1. p < q => b * (q - p) >= b
  OBVIOUS
<1>2. p > q => b * (p - q) >= b
  OBVIOUS
<1>3. /\ b * (q - p) = (b * q) - (b * p) /\ b * (p - q) = (b * p) - (b * q)
      /\ b * (q - p) \in Int /\ b * (p - q) \in Int /\ b * q \in Int /\ b * p \in Int
  OBVIOUS
<1>4. ~(p < q) /\ ~(p > q)
  BY <1>1, <1>2, <1>3
<1> QED
  BY <1>4

LEMMA RoundAgain ==
    ASSUME NEW n \in Int, NEW b \in Nat \ {0}
    PROVE  (n + b) % b = n % b
<1>1. n = (b * (n \div b)) + (n % b) /\ n \div b \in Int /\ n % b \in 0 .. b - 1
  BY Divided
<1>2. /\ n + b = (b * ((n + b) \div b)) + ((n + b) % b)
      /\ (n + b) \div b \in Int /\ (n + b) % b \in 0 .. b - 1
  <2>1. n + b \in Int
    OBVIOUS
  <2> QED
    BY <2>1, Divided
<1> DEFINE p == (n \div b) + 1
           q == (n + b) \div b
           r == n % b
           s == (n + b) % b
<1>3. b * p = (b * (n \div b)) + b /\ p \in Int
  BY <1>1
<1>4. (b * p) + r = (b * q) + s
  <2>1. b * (n \div b) \in Int /\ r \in Int
    BY <1>1
  <2> QED
    BY <1>1, <1>2, <1>3, <2>1
<1> HIDE DEF p, q, r, s
<1>5. r = s
  BY <1>1, <1>2, <1>3, <1>4, DividedOnce DEF q, r, s
<1> QED
  BY <1>5 DEF r, s

LEMMA SameRound ==
    ASSUME NEW n \in Int, NEW m \in Int, NEW b \in Nat \ {0}, n % b = m % b, n <= m, m < n + b
    PROVE  n = m
<1> DEFINE d == (m \div b) - (n \div b)
<1>1. m - n = b * d /\ d \in Int
  BY Divided
<1> HIDE DEF d
<1>2. d > 0 => b * d >= b
  BY <1>1
<1>3. d < 0 => b * d <= -b
  BY <1>1
<1>4. d = 0
  BY <1>1, <1>2, <1>3
<1> QED
  BY <1>1, <1>4

-----------------------------------------------------------------------------
(* A ring.                                                                 *)

\* Where the bucket of an age is kept.
Slot(t, a) == (t - a) % Buckets

\* A slot holds the bucket of its age, or one that has left the window.
Honest(t, r) == \A a \in Ages : r.at[Slot(t, a)] = t - a \/ r.at[Slot(t, a)] <= t - Buckets

\* What the ring says of each age.
Reads(t, r) == [a \in Ages |-> IF r.at[Slot(t, a)] = t - a THEN r.ms[Slot(t, a)] ELSE 0]

LEMMA BucketsIsNat == Buckets \in Nat \ {0} /\ IsFiniteSet(Ages) /\ IsFiniteSet(Slots)
BY LimitsAssumption, FS_Interval DEF LimitsAssumption, Ages, Slots

LEMMA SlotIsSlot ==
    ASSUME NEW t \in Int, NEW a \in Ages
    PROVE  Slot(t, a) \in Slots
<1>1. t - a \in Int
  BY BucketsIsNat DEF Ages
<1> QED
  BY <1>1, BucketsIsNat, Divided DEF Slot, Slots

LEMMA SlotsDiffer ==
    ASSUME NEW t \in Int, NEW a \in Ages, NEW b \in Ages, Slot(t, a) = Slot(t, b)
    PROVE  a = b
<1>1. a \in Int /\ b \in Int /\ t - a \in Int /\ t - b \in Int
  BY BucketsIsNat DEF Ages
<1>2. CASE a >= b
  <2>1. t - a <= t - b /\ t - b < (t - a) + Buckets
    BY <1>1, <1>2, BucketsIsNat DEF Ages
  <2>2. t - a = t - b
    BY <1>1, <2>1, BucketsIsNat, SameRound DEF Slot
  <2> QED
    BY <1>1, <2>2
<1>3. CASE a < b
  <2>1. t - b <= t - a /\ t - a < (t - b) + Buckets
    BY <1>1, <1>3, BucketsIsNat DEF Ages
  <2>2. t - b = t - a
    BY <1>1, <2>1, BucketsIsNat, SameRound DEF Slot
  <2> QED
    BY <1>1, <2>2
<1> QED
  BY <1>1, <1>2, <1>3

LEMMA SlotMoves ==
    ASSUME NEW t \in Int
    PROVE  /\ \A a \in Ages \ {0} : a - 1 \in Ages /\ Slot(t + 1, a) = Slot(t, a - 1)
           /\ Buckets - 1 \in Ages /\ Slot(t + 1, 0) = Slot(t, Buckets - 1)
<1>1. ASSUME NEW a \in Ages \ {0}
      PROVE  a - 1 \in Ages /\ Slot(t + 1, a) = Slot(t, a - 1)
  <2>1. (t + 1) - a = t - (a - 1)
    BY BucketsIsNat DEF Ages
  <2> QED
    BY <2>1, BucketsIsNat DEF Ages, Slot
<1>2. Slot(t + 1, 0) = Slot(t, Buckets - 1)
  <2> DEFINE n == t - (Buckets - 1)
  <2>1. n \in Int /\ n + Buckets = (t + 1) - 0
    BY BucketsIsNat
  <2> HIDE DEF n
  <2>2. (n + Buckets) % Buckets = n % Buckets
    BY <2>1, BucketsIsNat, RoundAgain
  <2> QED
    BY <2>1, <2>2 DEF Slot, n
<1> QED
  BY <1>1, <1>2, BucketsIsNat DEF Ages

\* `sum` adds up what the ring says of the ages within the window.
LEMMA SumIsReads ==
    ASSUME clock \in Int, NEW r \in Ring, Honest(clock, r)
    PROVE  Reads(clock, r) \in [Ages -> Nat] /\ SumOf(r) = Total(Reads(clock, r))
<1> DEFINE counted == [i \in Slots |-> IF r.at[i] >= clock - (Buckets - 1) THEN r.ms[i] ELSE 0]
           slot == [a \in Ages |-> Slot(clock, a)]
           reads == Reads(clock, r)
<1>1. counted \in [Slots -> Int] /\ slot \in [Ages -> Slots]
  BY SlotIsSlot DEF Ring
<1>2. reads \in [Ages -> Nat]
  BY SlotIsSlot DEF Reads, Ring
<1>3. \A a, b \in Ages : slot[a] = slot[b] => a = b
  BY SlotsDiffer
<1>4. \A i \in Slots : \E a \in Ages : slot[a] = i
  <2>1. slot \in Injection(Ages, Slots)
    BY <1>1, <1>3 DEF Injection, IsInjective
  <2>2. Cardinality(Ages) = Cardinality(Slots)
    BY DEF Ages, Slots
  <2> HIDE DEF slot
  <2>3. slot \in Surjection(Ages, Slots)
    BY <2>1, <2>2, BucketsIsNat, FS_Injection
  <2> QED
    BY <2>3 DEF Surjection
<1>5. \A a \in Ages : reads[a] = counted[slot[a]]
  <2> SUFFICES ASSUME NEW a \in Ages
               PROVE  reads[a] = counted[slot[a]]
    OBVIOUS
  <2>1. /\ Slot(clock, a) \in Slots /\ r.at[Slot(clock, a)] \in Int
        /\ a \in 0 .. Buckets - 1
    BY SlotIsSlot DEF Ring, Ages
  <2>2. r.at[Slot(clock, a)] = clock - a \/ r.at[Slot(clock, a)] <= clock - Buckets
    BY DEF Honest
  <2>3. r.at[Slot(clock, a)] >= clock - (Buckets - 1) <=> r.at[Slot(clock, a)] = clock - a
    BY <2>1, <2>2, BucketsIsNat
  <2> QED
    BY <2>1, <2>3 DEF Reads
<1>6. counted = [i \in Slots |-> counted[i]] /\ SumOf(r) = Total(counted)
  BY DEF SumOf
<1> HIDE DEF counted, slot, reads
<1>7. reads \in [Ages -> Int]
  BY <1>2
<1>8. Total(reads) = Total(counted)
  BY <1>1, <1>3, <1>4, <1>5, <1>7, BucketsIsNat, TotalRenamed
<1> QED
  BY <1>2, <1>6, <1>8 DEF reads

\* `add`: the youngest age grows, the others stay.
LEMMA AddKeeps ==
    ASSUME clock \in Int, NEW r \in Ring, NEW ms \in Nat, Honest(clock, r)
    PROVE  /\ Add(r, ms) \in Ring /\ Honest(clock, Add(r, ms))
           /\ \A a \in Ages : Reads(clock, Add(r, ms))[a] = Reads(clock, r)[a] + (IF a = 0 THEN ms ELSE 0)
<1> DEFINE slot == clock % Buckets
           s == Add(r, ms)
<1>1. 0 \in Ages /\ slot = Slot(clock, 0)
  BY BucketsIsNat DEF Ages, Slot
<1>2. slot \in Slots
  BY <1>1, SlotIsSlot
<1>3. s = [at |-> [r.at EXCEPT ![slot] = clock],
           ms |-> [r.ms EXCEPT ![slot] = IF r.at[slot] = clock THEN r.ms[slot] + ms ELSE ms]]
  BY DEF Add
<1> HIDE DEF slot
<1>4. /\ s \in Ring
      /\ s.at[slot] = clock
      /\ s.ms[slot] = IF r.at[slot] = clock THEN r.ms[slot] + ms ELSE ms
      /\ \A i \in Slots \ {slot} : s.at[i] = r.at[i] /\ s.ms[i] = r.ms[i]
  BY <1>2, <1>3 DEF Ring
<1> HIDE DEF s
<1>5. \A a \in Ages \ {0} : Slot(clock, a) \in Slots \ {slot}
  BY <1>1, SlotIsSlot, SlotsDiffer
<1>6. Honest(clock, s)
  <2> SUFFICES ASSUME NEW a \in Ages
               PROVE  s.at[Slot(clock, a)] = clock - a \/ s.at[Slot(clock, a)] <= clock - Buckets
    BY DEF Honest
  <2>1. CASE a = 0
    BY <1>1, <1>4, <2>1
  <2>2. CASE a # 0
    BY <1>4, <1>5, <2>2 DEF Honest
  <2> QED
    BY <2>1, <2>2
<1>7. ASSUME NEW a \in Ages
      PROVE  Reads(clock, s)[a] = Reads(clock, r)[a] + (IF a = 0 THEN ms ELSE 0)
  <2>1. CASE a = 0
    <3>1. Reads(clock, s)[a] = s.ms[slot] /\ clock - a = clock
      BY <1>1, <1>4, <2>1 DEF Reads
    <3>2. Reads(clock, r)[a] = IF r.at[slot] = clock THEN r.ms[slot] ELSE 0
      BY <1>1, <2>1 DEF Reads
    <3>3. r.ms[slot] \in Nat
      BY <1>2 DEF Ring
    <3> QED
      BY <1>4, <2>1, <3>1, <3>2, <3>3
  <2>2. CASE a # 0
    <3>1. Reads(clock, s)[a] = Reads(clock, r)[a]
      BY <1>4, <1>5, <2>2 DEF Reads
    <3>2. Reads(clock, r)[a] \in Nat
      BY SlotIsSlot DEF Reads, Ring
    <3> QED
      BY <2>2, <3>1, <3>2
  <2> QED
    BY <2>1, <2>2
<1> QED
  BY <1>4, <1>6, <1>7 DEF s

\* Nothing is done to a ring as time passes: its oldest slot is read as empty.
LEMMA TimeKeeps ==
    ASSUME NEW t \in Int, NEW r \in Ring, Honest(t, r)
    PROVE  /\ Honest(t + 1, r)
           /\ \A a \in Ages : Reads(t + 1, r)[a] = IF a = 0 THEN 0 ELSE Reads(t, r)[a - 1]
<1>1. ASSUME NEW a \in Ages, a # 0
      PROVE  /\ r.at[Slot(t + 1, a)] = (t + 1) - a \/ r.at[Slot(t + 1, a)] <= (t + 1) - Buckets
             /\ Reads(t + 1, r)[a] = Reads(t, r)[a - 1]
  <2>1. a - 1 \in Ages /\ Slot(t + 1, a) = Slot(t, a - 1) /\ (t + 1) - a = t - (a - 1)
    BY <1>1, SlotMoves, BucketsIsNat DEF Ages
  <2>2. r.at[Slot(t, a - 1)] = t - (a - 1) \/ r.at[Slot(t, a - 1)] <= t - Buckets
    BY <2>1 DEF Honest
  <2>3. r.at[Slot(t, a - 1)] \in Int
    BY <2>1, SlotIsSlot DEF Ring
  <2> QED
    BY <2>1, <2>2, <2>3, BucketsIsNat DEF Reads
<1>2. /\ r.at[Slot(t + 1, 0)] <= (t + 1) - Buckets
      /\ Reads(t + 1, r)[0] = 0
  <2>1. Buckets - 1 \in Ages /\ Slot(t + 1, 0) = Slot(t, Buckets - 1) /\ 0 \in Ages
    BY SlotMoves, BucketsIsNat DEF Ages
  <2>2. /\ r.at[Slot(t + 1, 0)] \in Int
        /\ \/ r.at[Slot(t + 1, 0)] = t - (Buckets - 1)
           \/ r.at[Slot(t + 1, 0)] <= t - Buckets
    BY <2>1, SlotIsSlot DEF Ring, Honest
  <2>3. r.at[Slot(t + 1, 0)] <= (t + 1) - Buckets /\ r.at[Slot(t + 1, 0)] # (t + 1) - 0
    BY <2>2, BucketsIsNat
  <2> QED
    BY <2>1, <2>3 DEF Reads
<1> QED
  BY <1>1, <1>2 DEF Honest

LEMMA EmptyReads ==
    ASSUME clock \in Int, clock >= Buckets
    PROVE  /\ EmptyRing \in Ring /\ Honest(clock, EmptyRing)
           /\ \A a \in Ages : Reads(clock, EmptyRing)[a] = 0
<1>1. EmptyRing \in Ring
  BY DEF EmptyRing, Ring
<1>2. ASSUME NEW a \in Ages
      PROVE  EmptyRing.at[Slot(clock, a)] = -1 /\ -1 <= clock - Buckets /\ -1 # clock - a
  BY SlotIsSlot, BucketsIsNat DEF EmptyRing, Ages
<1> QED
  BY <1>1, <1>2 DEF Honest, Reads

-----------------------------------------------------------------------------
(* Types.                                                                  *)

LEMMA RingsAreTracked ==
    /\ \A r \in Ring : r # Untracked
    /\ \A w \in Window : w # NoWindow /\ w.count \in 1 .. Limit /\ w.startedAt \in Nat
<1>1. 0 \in Slots
  BY BucketsIsNat DEF Slots
<1>2. ASSUME NEW r \in Ring
      PROVE  r # Untracked
  <2>1. DOMAIN r.at = Slots
    BY DEF Ring
  <2>2. DOMAIN Untracked.at = {}
    BY DEF Untracked
  <2> QED
    BY <1>1, <2>1, <2>2
<1>3. ASSUME NEW w \in Window
      PROVE  w # NoWindow /\ w.count \in 1 .. Limit /\ w.startedAt \in Nat
  BY DEF Window, NoWindow
<1> QED
  BY <1>2, <1>3

LEMMA ClockIsNat ==
    ASSUME LimitsTypeOK
    PROVE  clock \in Nat /\ clock \in Int /\ clock >= Buckets
BY BucketsIsNat, LimitsAssumption DEF LimitsAssumption, LimitsTypeOK

\* A sweep only drops windows that are over.
LEMMA SweptKeeps ==
    ASSUME LimitsTypeOK
    PROVE  /\ Swept \in [Callers -> Window \cup {NoWindow}]
           /\ \A c \in Callers : \/ Swept[c] = windows[c]
                                 \/ Swept[c] = NoWindow /\ Over(windows[c])
BY DEF LimitsTypeOK, Swept

LEMMA SweepsTypes ==
    ASSUME LimitsTypeOK, Sweeps
    PROVE  lastSweep' \in 0 .. clock
<1>1. clock \in Nat /\ lastSweep \in 0 .. clock
  BY ClockIsNat DEF LimitsTypeOK
<1> QED
  BY <1>1 DEF Sweeps

\* What `take` does to the window of the caller it lets through.
LEMMA TakesOne ==
    ASSUME LimitsTypeOK, NEW c \in Callers, ~Refuses(c), Takes(c)
    PROVE  /\ windows' \in [Callers -> Window \cup {NoWindow}]
           /\ lastSweep' \in 0 .. clock
           /\ taken' \in [Callers -> [Ages -> Nat]]
           /\ \A d \in Callers \ {c} : windows'[d] = Swept[d] /\ taken'[d] = taken[d]
           /\ taken'[c] = [taken[c] EXCEPT ![0] = taken[c][0] + 1]
           /\ IF Fresh(c) THEN windows'[c] = [count |-> 1, startedAt |-> clock]
              ELSE /\ Swept[c] = windows[c] /\ windows[c] \in Window /\ ~Over(windows[c])
                   /\ windows[c].count < Limit
                   /\ windows'[c] = [count |-> windows[c].count + 1,
                                     startedAt |-> windows[c].startedAt]
<1>1. /\ clock \in Nat /\ Limit \in Nat \ {0} /\ 0 \in Ages
      /\ taken \in [Callers -> [Ages -> Nat]]
  BY ClockIsNat, BucketsIsNat, LimitsAssumption DEF LimitsAssumption, LimitsTypeOK, Ages
<1>2. lastSweep' \in 0 .. clock
  BY SweepsTypes DEF Takes
<1> DEFINE w == IF Fresh(c) THEN [count |-> 1, startedAt |-> clock]
                ELSE [count |-> Swept[c].count + 1, startedAt |-> Swept[c].startedAt]
<1>3. windows' = [Swept EXCEPT ![c] = w] /\ taken' = [taken EXCEPT ![c][0] = taken[c][0] + 1]
  <2>1. windows' = [Swept EXCEPT ![c] = w]
    BY DEF Takes
  <2>2. taken' = [taken EXCEPT ![c][0] = taken[c][0] + 1]
    BY Zenon DEF Takes
  <2> QED
    BY <2>1, <2>2
<1>4. CASE Fresh(c)
  <2>1. w = [count |-> 1, startedAt |-> clock] /\ w \in Window
    BY <1>1, <1>4 DEF Window
  <2> HIDE DEF w
  <2> QED
    BY <1>1, <1>2, <1>3, <1>4, <2>1, SweptKeeps
<1>5. CASE ~Fresh(c)
  <2>1. /\ Swept[c] # NoWindow /\ ~Over(Swept[c]) /\ ~(Swept[c].count >= Limit)
    BY <1>5 DEF Fresh, Refuses
  <2>2. Swept[c] = windows[c] /\ windows[c] \in Window /\ windows[c].count \in 1 .. Limit
    BY <2>1, SweptKeeps, RingsAreTracked
  <2>3. windows[c].count < Limit /\ ~Over(windows[c])
    BY <1>1, <2>1, <2>2
  <2>4. w = [count |-> windows[c].count + 1, startedAt |-> windows[c].startedAt]
    BY <1>5, <2>2 DEF Window
  <2>5. w \in Window
    BY <1>1, <2>2, <2>3, <2>4 DEF Window
  <2> HIDE DEF w
  <2> QED
    BY <1>1, <1>2, <1>3, <1>5, <2>2, <2>3, <2>4, <2>5, SweptKeeps
<1> QED
  BY <1>4, <1>5

LEMMA AddTypes ==
    ASSUME clock \in Int, NEW r \in Ring, NEW ms \in Nat
    PROVE  Add(r, ms) \in Ring
<1> DEFINE slot == clock % Buckets
<1>1. slot \in Slots
  BY BucketsIsNat, Divided DEF Slots
<1> HIDE DEF slot
<1> DEFINE v == IF r.at[slot] = clock THEN r.ms[slot] + ms ELSE ms
<1>2. v \in Nat
  BY <1>1 DEF Ring
<1>3. Add(r, ms) = [at |-> [r.at EXCEPT ![slot] = clock], ms |-> [r.ms EXCEPT ![slot] = v]]
  BY DEF Add, slot
<1> HIDE DEF v
<1> QED
  BY <1>1, <1>2, <1>3 DEF Ring

LEMMA EmptyIsRing == EmptyRing \in Ring
BY DEF EmptyRing, Ring

\* What `record` does, whichever caller loses its ring for it.
LEMMA RecordsOne ==
    ASSUME LimitsTypeOK, NEW c \in Callers, NEW ms \in Nat, Records(c, ms), ms # 0
    PROVE  /\ totals' = Add(totals, ms)
           /\ burned' \in [Callers -> [Ages -> Nat]]
           /\ burned'[c] = [burned[c] EXCEPT ![0] = burned[c][0] + ms]
           /\ \A d \in Callers \ {c} : burned'[d] = burned[d]
           /\ spends'[c] = Add(IF c \in Tracked THEN spends[c] ELSE EmptyRing, ms)
           /\ \A d \in Callers \ {c} : spends'[d] = spends[d] \/ spends'[d] = Untracked
           /\ spends' \in [Callers -> Ring \cup {Untracked}]
           /\ totals' \in Ring
<1>1. /\ clock \in Int /\ 0 \in Ages
      /\ spends \in [Callers -> Ring \cup {Untracked}] /\ totals \in Ring
      /\ burned \in [Callers -> [Ages -> Nat]]
  BY ClockIsNat, BucketsIsNat DEF LimitsTypeOK, Ages
<1>2. totals' = Add(totals, ms) /\ totals' \in Ring
  BY <1>1, AddTypes DEF Records
<1>3. /\ burned' = [burned EXCEPT ![c] = [burned[c] EXCEPT ![0] = burned[c][0] + ms]]
      /\ [burned[c] EXCEPT ![0] = burned[c][0] + ms] \in [Ages -> Nat]
  BY <1>1 DEF Records
<1>4. Add(EmptyRing, ms) \in Ring /\ (c \in Tracked => Add(spends[c], ms) \in Ring)
  BY <1>1, EmptyIsRing, AddTypes DEF Tracked
<1>5. /\ spends'[c] = Add(IF c \in Tracked THEN spends[c] ELSE EmptyRing, ms)
      /\ \A d \in Callers \ {c} : spends'[d] = spends[d] \/ spends'[d] = Untracked
      /\ spends' \in [Callers -> Ring \cup {Untracked}]
  <2>1. CASE c \in Tracked /\ spends' = [spends EXCEPT ![c] = Add(spends[c], ms)]
    BY <1>1, <1>4, <2>1
  <2>2. CASE c \notin Tracked /\ spends' = [spends EXCEPT ![c] = Add(EmptyRing, ms)]
    BY <1>1, <1>4, <2>2
  <2>3. ASSUME c \notin Tracked,
               NEW victim \in Cheapest,
               spends' = [spends EXCEPT ![victim] = Untracked, ![c] = Add(EmptyRing, ms)]
        PROVE  /\ spends'[c] = Add(IF c \in Tracked THEN spends[c] ELSE EmptyRing, ms)
               /\ \A d \in Callers \ {c} : spends'[d] = spends[d] \/ spends'[d] = Untracked
               /\ spends' \in [Callers -> Ring \cup {Untracked}]
    <3>1. victim \in Callers /\ victim # c
      BY <2>3 DEF Cheapest, Tracked
    <3> QED
      BY <1>1, <1>4, <2>3, <3>1
  <2>4. \/ c \in Tracked /\ spends' = [spends EXCEPT ![c] = Add(spends[c], ms)]
        \/ c \notin Tracked /\ spends' = [spends EXCEPT ![c] = Add(EmptyRing, ms)]
        \/ c \notin Tracked /\ \E victim \in Cheapest :
              spends' = [spends EXCEPT ![victim] = Untracked, ![c] = Add(EmptyRing, ms)]
    BY DEF Records
  <2> QED
    BY <2>1, <2>2, <2>3, <2>4
<1> QED
  BY <1>1, <1>2, <1>3, <1>5

LEMMA TypesAtFirst == Init => LimitsTypeOK
<1>1. Buckets \in Nat \ {0} /\ MaxClock \in Nat /\ MaxClock >= Buckets /\ MaxPending \in Nat
  BY LimitsAssumption DEF LimitsAssumption
<1>2. EmptyRing \in Ring
  BY EmptyIsRing
<1> QED
  BY <1>1, <1>2 DEF Init, LimitsTypeOK, Nobody

LEMMA TypesKept == LimitsTypeOK /\ [Next]_vars => LimitsTypeOK'
<1> SUFFICES ASSUME LimitsTypeOK, [Next]_vars
             PROVE  LimitsTypeOK'
  OBVIOUS
<1> USE DEF LimitsTypeOK
<1>1. clock \in Nat /\ clock \in Buckets .. MaxClock /\ Buckets \in Nat \ {0} /\ MaxClock \in Nat /\ MaxPending \in Nat
  BY ClockIsNat, LimitsAssumption DEF LimitsAssumption
<1>2. CASE UNCHANGED vars
  BY <1>2 DEF vars, limiterVars, meterVars
<1>3. CASE TimePasses
  <2>1. clock' = clock + 1 /\ clock' \in Buckets .. MaxClock /\ lastSweep' \in 0 .. clock'
    BY <1>1, <1>3 DEF TimePasses, limiterVars
  <2>2. \A h \in [Ages -> Nat] : Older(h) \in [Ages -> Nat]
    BY <1>1 DEF Older, Ages
  <2>3. burned' \in [Callers -> [Ages -> Nat]] /\ taken' \in [Callers -> [Ages -> Nat]]
    BY <1>3, <2>2 DEF TimePasses
  <2> QED
    BY <1>3, <2>1, <2>3 DEF TimePasses, limiterVars, meterVars, Nobody
<1>4. ASSUME NEW c \in Callers, SearchLimited(c)
      PROVE  LimitsTypeOK'
  <2>1. windows' \in [Callers -> Window \cup {NoWindow}] /\ lastSweep' \in 0 .. clock
    BY <1>4, SweptKeeps, SweepsTypes DEF SearchLimited
  <2> QED
    BY <1>4, <2>1 DEF SearchLimited, meterVars, Nobody
<1>5. ASSUME NEW c \in Callers, ~Refuses(c), Takes(c)
      PROVE  /\ windows' \in [Callers -> Window \cup {NoWindow}]
             /\ lastSweep' \in 0 .. clock
             /\ taken' \in [Callers -> [Ages -> Nat]]
  BY <1>5, TakesOne
<1>6. ASSUME NEW c \in Callers, SearchAllowed(c)
      PROVE  LimitsTypeOK'
  <2>1. admitted' \in [Callers -> 0 .. MaxPending]
    BY <1>1, <1>6 DEF SearchAllowed
  <2> QED
    BY <1>5, <1>6, <2>1 DEF SearchAllowed, meterVars, Nobody
<1>7. ASSUME NEW c \in Callers, SearchSlowed(c)
      PROVE  LimitsTypeOK'
  <2>1. tarpit' \in [Callers -> 0 .. MaxPending]
    BY <1>1, <1>7 DEF SearchSlowed
  <2> QED
    BY <1>5, <1>7, <2>1 DEF SearchSlowed, meterVars
<1>8. ASSUME NEW c \in Callers, SearchRefused(c)
      PROVE  LimitsTypeOK'
  BY <1>5, <1>8 DEF SearchRefused, meterVars
<1>9. ASSUME NEW c \in Callers, Wakes(c)
      PROVE  LimitsTypeOK'
  <2>1. tarpit' \in [Callers -> 0 .. MaxPending] /\ admitted' \in [Callers -> 0 .. MaxPending]
    BY <1>1, <1>9 DEF Wakes
  <2> QED
    BY <1>9, <2>1 DEF Wakes, limiterVars, meterVars, Nobody
<1>10. ASSUME NEW c \in Callers, NEW ms \in Costs \cup {0}, Runs(c, ms)
       PROVE  LimitsTypeOK'
  <2>1. admitted' \in [Callers -> 0 .. MaxPending]
    BY <1>1, <1>10 DEF Runs
  <2>2. ms \in Nat
    BY LimitsAssumption DEF LimitsAssumption
  <2>3. /\ spends' \in [Callers -> Ring \cup {Untracked}] /\ totals' \in Ring
        /\ burned' \in [Callers -> [Ages -> Nat]]
    <3>1. CASE ms = 0
      BY <1>10, <3>1 DEF Runs, Records, meterVars
    <3>2. CASE ms # 0
      BY <1>10, <2>2, <3>2, RecordsOne DEF Runs
    <3> QED
      BY <3>1, <3>2
  <2> QED
    BY <1>10, <2>1, <2>3 DEF Runs, limiterVars, Nobody
<1> QED
  BY <1>2, <1>3, <1>4, <1>6, <1>7, <1>8, <1>9, <1>10 DEF Next

\* Every variable keeps its type: a window never counts past the limit, a slot of a
\* ring never goes below zero, time stops at its bound.
THEOREM LimitsTypes == Spec => []LimitsTypeOK
<1> QED
  BY TypesAtFirst, TypesKept, PTL DEF Spec

-----------------------------------------------------------------------------
(* The limiter.                                                            *)

Since(c) == clock - windows[c].startedAt

\* A window that still counts.
Holding(c) == windows[c] # NoWindow /\ Since(c) < Buckets

\* What is as young as an age, and what is older.
Young(h, n) == [a \in Ages |-> IF a <= n THEN h[a] ELSE 0]
Old(h, n) == [a \in Ages |-> IF a > n THEN h[a] ELSE 0]
Recent(h, n) == Total(Young(h, n))
Elder(h, n) == Total(Old(h, n))

\* A window counts what was taken since it was opened, by a search; what is older
\* than the window is less than the limit.  Who has none has taken less than that.
WindowKept(c) ==
    /\ windows[c] # NoWindow => windows[c].startedAt <= clock
    /\ IF Holding(c)
       THEN /\ Recent(taken[c], Since(c)) = windows[c].count
            /\ taken[c][Since(c)] > 0
            /\ Elder(taken[c], Since(c)) < Limit
       ELSE taken[c][0] = 0 /\ Total(taken[c]) < Limit
WindowsKept == \A c \in Callers : WindowKept(c)

LEMMA HistoryTypes ==
    ASSUME NEW h \in [Ages -> Nat], NEW n \in Int
    PROVE  /\ Young(h, n) \in [Ages -> Nat] /\ Old(h, n) \in [Ages -> Nat]
           /\ Older(h) \in [Ages -> Nat]
           /\ Recent(h, n) \in Nat /\ Elder(h, n) \in Nat /\ Total(h) \in Nat
           /\ Total(Older(h)) \in Nat
           /\ Total(h) = Recent(h, n) + Elder(h, n)
<1>1. Young(h, n) \in [Ages -> Nat] /\ Old(h, n) \in [Ages -> Nat]
  BY DEF Young, Old
<1>2. Older(h) \in [Ages -> Nat]
  BY BucketsIsNat DEF Older, Ages
<1>3. \A f \in [Ages -> Nat] : f \in [Ages -> Int]
  OBVIOUS
<1>4. \A a \in Ages : h[a] = Young(h, n)[a] + Old(h, n)[a]
  BY BucketsIsNat DEF Young, Old, Ages
<1>5. Total(h) = Total(Young(h, n)) + Total(Old(h, n))
  BY <1>1, <1>3, <1>4, BucketsIsNat, TotalOfSums
<1> QED
  BY <1>1, <1>2, <1>5, BucketsIsNat, TotalIsNat DEF Recent, Elder

\* One more, now.
LEMMA OneMore ==
    ASSUME NEW h \in [Ages -> Nat], NEW n \in Nat
    PROVE  LET g == [h EXCEPT ![0] = h[0] + 1] IN
           Recent(g, n) = Recent(h, n) + 1 /\ Elder(g, n) = Elder(h, n)
<1> DEFINE g == [h EXCEPT ![0] = h[0] + 1]
<1>1. 0 \in Ages /\ n \in Int /\ \A a \in Ages : a \in Nat
  BY BucketsIsNat DEF Ages
<1>2. Young(h, n) \in [Ages -> Int] /\ Young(h, n)[0] = h[0] /\ h[0] \in Nat
  BY <1>1 DEF Young
<1> DEFINE y == Young(h, n)
           v == h[0] + 1
<1>3. Young(g, n) = [y EXCEPT ![0] = v]
  <2>1. \A a \in Ages : (IF a <= n THEN g[a] ELSE 0) = IF a = 0 THEN v ELSE y[a]
    BY <1>1 DEF Young
  <2> QED
    BY <2>1, <1>2 DEF Young
<1>4. Total(Young(g, n)) = Total(y) - h[0] + v
  <2>1. y \in [Ages -> Int] /\ y[0] = h[0] /\ v \in Int
    BY <1>2
  <2> HIDE DEF y, v
  <2>2. Total([y EXCEPT ![0] = v]) = Total(y) - y[0] + v
    BY <1>1, <2>1, BucketsIsNat, TotalChanged
  <2> QED
    BY <1>3, <2>1, <2>2
<1>5. Old(g, n) = Old(h, n)
  BY <1>1 DEF Old
<1>6. Recent(h, n) \in Nat
  BY <1>1, HistoryTypes
<1> QED
  BY <1>2, <1>4, <1>5, <1>6 DEF Recent, Elder

\* As time passes, what was oldest is lost.
LEMMA OlderTotal ==
    ASSUME NEW h \in [Ages -> Nat]
    PROVE  Total(Older(h)) = Total(h) - h[Buckets - 1]
<1> DEFINE g == [h EXCEPT ![Buckets - 1] = 0]
           back == [a \in Ages |-> IF a = 0 THEN Buckets - 1 ELSE a - 1]
<1>1. /\ Buckets - 1 \in Ages /\ 0 \in Ages
      /\ \A a \in Ages : a \in Nat /\ a < Buckets /\ (a # 0 => a - 1 \in Ages /\ a - 1 # Buckets - 1)
      /\ \A a \in Ages : a # Buckets - 1 => a + 1 \in Ages
  BY BucketsIsNat DEF Ages
<1>2. g \in [Ages -> Int] /\ h \in [Ages -> Int] /\ Older(h) \in [Ages -> Int]
  BY <1>1, HistoryTypes DEF Older
<1>3. Total(g) = Total(h) - h[Buckets - 1] + 0
  <2> DEFINE last == Buckets - 1
  <2>1. last \in Ages /\ 0 \in Int /\ h \in [Ages -> Int]
    BY <1>1, <1>2
  <2> HIDE DEF last
  <2>2. Total([h EXCEPT ![last] = 0]) = Total(h) - h[last] + 0
    BY <2>1, BucketsIsNat, TotalChanged
  <2> QED
    BY <2>2 DEF last
<1>4. back \in [Ages -> Ages]
  BY <1>1
<1>5. \A a, b \in Ages : back[a] = back[b] => a = b
  BY <1>1
<1>6. \A b \in Ages : \E a \in Ages : back[a] = b
  <2> SUFFICES ASSUME NEW b \in Ages
               PROVE  \E a \in Ages : back[a] = b
    OBVIOUS
  <2>1. CASE b = Buckets - 1
    BY <1>1, <2>1
  <2>2. CASE b # Buckets - 1
    <3>1. b + 1 \in Ages /\ back[b + 1] = b
      BY <1>1, <2>2
    <3> QED
      BY <3>1
  <2> QED
    BY <2>1, <2>2
<1>7. \A a \in Ages : Older(h)[a] = g[back[a]]
  BY <1>1 DEF Older
<1>8. Total(Older(h)) = Total(g)
  <2> DEFINE o == Older(h)
  <2>1. o \in [Ages -> Int] /\ \A a \in Ages : o[a] = g[back[a]]
    BY <1>2, <1>7
  <2> HIDE DEF g, back, o
  <2>2. Total(o) = Total(g)
    <3> DEFINE T == Ages
    <3>1. /\ IsFiniteSet(Ages) /\ g \in [T -> Int] /\ o \in [Ages -> Int]
          /\ back \in [Ages -> T] /\ \A b \in T : \E a \in Ages : back[a] = b
      BY <1>2, <1>4, <1>6, <2>1, BucketsIsNat
    <3> HIDE DEF T
    <3> QED
      BY ONLY <1>5, <2>1, <3>1, TotalRenamed
  <2> QED
    BY <2>2 DEF o
<1> HIDE DEF g, back
<1>9. Total(h) \in Int /\ h[Buckets - 1] \in Int
  BY <1>1, <1>2, BucketsIsNat, TotalType
<1> QED
  BY <1>3, <1>8, <1>9

\* A split by age moves along.
LEMMA OlderSplit ==
    ASSUME NEW h \in [Ages -> Nat], NEW n \in Nat, n + 1 \in Ages
    PROVE  /\ Recent(Older(h), n + 1) = Recent(h, n)
           /\ Elder(Older(h), n + 1) <= Elder(h, n)
<1>1. /\ Buckets - 1 \in Ages /\ n < Buckets - 1 /\ n \in Int
      /\ \A a \in Ages : a \in Nat /\ (a # 0 => a - 1 \in Ages)
  BY BucketsIsNat DEF Ages
<1>2. Young(h, n) \in [Ages -> Nat] /\ Old(h, n) \in [Ages -> Nat]
  BY <1>1, HistoryTypes
<1>3. Young(Older(h), n + 1) = Older(Young(h, n))
  BY <1>1 DEF Young, Older
<1>4. Old(Older(h), n + 1) = Older(Old(h, n))
  BY <1>1 DEF Old, Older
<1>5. Young(h, n)[Buckets - 1] = 0 /\ Old(h, n)[Buckets - 1] \in Nat
  BY <1>1, <1>2, BucketsIsNat DEF Young
<1>6. /\ Total(Older(Young(h, n))) = Total(Young(h, n)) - 0
      /\ Total(Older(Old(h, n))) = Total(Old(h, n)) - Old(h, n)[Buckets - 1]
  BY <1>2, <1>5, OlderTotal
<1>7. Recent(h, n) \in Nat /\ Elder(h, n) \in Nat
  BY <1>1, HistoryTypes
<1> QED
  BY <1>3, <1>4, <1>5, <1>6, <1>7 DEF Recent, Elder

LEMMA LimiterTypes ==
    ASSUME LimitsTypeOK, NEW c \in Callers
    PROVE  /\ taken[c] \in [Ages -> Nat] /\ clock \in Nat
           /\ Limit \in Nat \ {0} /\ 0 \in Ages
           /\ windows[c] # NoWindow =>
                /\ windows[c] \in Window /\ windows[c].startedAt \in Nat
                /\ windows[c].count \in 1 .. Limit
                /\ Since(c) \in Int
           /\ Holding(c) <=> windows[c] # NoWindow /\ ~Over(windows[c])
<1>1. /\ windows[c] \in Window \cup {NoWindow} /\ taken[c] \in [Ages -> Nat]
      /\ clock \in Nat /\ Buckets \in Nat \ {0} /\ Limit \in Nat \ {0} /\ 0 \in Ages
  BY ClockIsNat, BucketsIsNat, LimitsAssumption DEF LimitsAssumption, LimitsTypeOK, Ages
<1>2. windows[c] # NoWindow =>
        windows[c] \in Window /\ windows[c].startedAt \in Nat /\ windows[c].count \in 1 .. Limit
  BY <1>1, RingsAreTracked
<1> QED
  BY <1>1, <1>2 DEF Since, Holding, Over

LEMMA WindowsAtFirst == Init => WindowsKept
<1> SUFFICES ASSUME Init, NEW c \in Callers
             PROVE  WindowKept(c)
  BY DEF WindowsKept
<1>1. taken[c] \in [Ages -> Int] /\ \A a \in Ages : taken[c][a] = 0
  BY DEF Init
<1>2. Total(taken[c]) = 0
  BY <1>1, BucketsIsNat, TotalOfNone
<1>3. 0 \in Ages /\ 0 < Limit /\ windows[c] = NoWindow
  BY BucketsIsNat, LimitsAssumption DEF LimitsAssumption, Ages, Init
<1> QED
  BY <1>1, <1>2, <1>3 DEF WindowKept, Holding

\* A sweep is no loss: who had a window that is over has no window.
LEMMA SweepIsNoLoss ==
    ASSUME LimitsTypeOK, NEW c \in Callers, WindowKept(c),
           windows'[c] = Swept[c], taken'[c] = taken[c], clock' = clock
    PROVE  WindowKept(c)'
<1>1. CASE windows'[c] = windows[c]
  BY <1>1 DEF WindowKept, Holding, Since
<1>2. CASE windows'[c] = NoWindow /\ Over(windows[c])
  <2>1. ~Holding(c) /\ ~Holding(c)'
    BY <1>2, LimiterTypes DEF Holding
  <2> QED
    BY <1>2, <2>1 DEF WindowKept
<1> QED
  BY <1>1, <1>2, SweptKeeps

LEMMA TakingKeeps ==
    ASSUME LimitsTypeOK, NEW c \in Callers, ~Refuses(c), Takes(c), clock' = clock, WindowsKept
    PROVE  WindowsKept'
<1> DEFINE h == taken[c]
           g == [h EXCEPT ![0] = h[0] + 1]
<1>1. /\ h \in [Ages -> Nat] /\ clock \in Nat /\ 0 \in Ages /\ Limit \in Nat \ {0}
      /\ WindowKept(c) /\ Buckets \in Nat \ {0}
  BY LimiterTypes, BucketsIsNat DEF WindowsKept
<1>2. taken'[c] = g
  BY TakesOne
<1>3. ASSUME NEW d \in Callers \ {c}
      PROVE  WindowKept(d)'
  BY TakesOne, SweepIsNoLoss DEF WindowsKept
<1>4. CASE Fresh(c)
  <2>1. windows'[c] = [count |-> 1, startedAt |-> clock]
    BY <1>4, TakesOne
  <2>2. windows'[c] # NoWindow /\ windows'[c].count = 1 /\ windows'[c].startedAt = clock
    <3>1. windows'[c] \in Window
      BY <1>1, <2>1 DEF Window
    <3> QED
      BY <2>1, <3>1, RingsAreTracked
  <2>3. Holding(c)' /\ Since(c)' = 0
    BY <1>1, <2>2 DEF Holding, Since
  <2>4. ~Holding(c)
    BY <1>4, SweptKeeps, LimiterTypes DEF Fresh
  <2>5. h[0] = 0 /\ Total(h) < Limit
    BY <1>1, <2>4 DEF WindowKept
  <2>6. Young(h, 0) \in [Ages -> Int] /\ \A a \in Ages : Young(h, 0)[a] = 0
    BY <1>1, <2>5 DEF Young, Ages
  <2>7. Recent(h, 0) = 0
    BY <2>6, BucketsIsNat, TotalOfNone DEF Recent
  <2>8. Recent(g, 0) = 1 /\ Elder(g, 0) = Elder(h, 0)
    BY <1>1, <2>7, OneMore
  <2>9. Elder(h, 0) < Limit
    BY <1>1, <2>5, <2>7, HistoryTypes
  <2>10. g[0] > 0
    BY <1>1, <2>5
  <2> HIDE DEF g, h
  <2>11. WindowKept(c)'
    BY <1>1, <1>2, <2>2, <2>3, <2>8, <2>9, <2>10 DEF WindowKept
  <2> QED
    BY <1>3, <2>11 DEF WindowsKept
<1>5. CASE ~Fresh(c)
  <2>1. /\ windows[c] \in Window /\ ~Over(windows[c])
        /\ windows'[c] = [count |-> windows[c].count + 1, startedAt |-> windows[c].startedAt]
        /\ windows[c].count < Limit
    BY <1>5, TakesOne
  <2>2. /\ windows[c] # NoWindow /\ windows[c].startedAt \in Nat
        /\ windows[c].count \in 1 .. Limit
    BY <2>1, RingsAreTracked
  <2>3. Holding(c) /\ windows[c].startedAt <= clock
    BY <1>1, <2>1, <2>2, LimiterTypes DEF WindowKept
  <2>4. /\ windows'[c] # NoWindow
        /\ windows'[c].count = windows[c].count + 1 /\ windows'[c].startedAt = windows[c].startedAt
    <3>1. windows'[c] \in Window
      BY <1>1, <2>1, <2>2 DEF Window
    <3> QED
      BY <2>1, <3>1, RingsAreTracked
  <2>5. Since(c)' = Since(c) /\ Since(c) \in Nat /\ Since(c) \in Ages /\ Holding(c)'
    BY <1>1, <2>2, <2>3, <2>4 DEF Since, Holding, Ages
  <2>6. Recent(g, Since(c)) = Recent(h, Since(c)) + 1 /\ Elder(g, Since(c)) = Elder(h, Since(c))
    BY <1>1, <2>5, OneMore
  <2>7. /\ Recent(h, Since(c)) = windows[c].count /\ h[Since(c)] > 0
        /\ Elder(h, Since(c)) < Limit
    BY <1>1, <2>3 DEF WindowKept
  <2>8. g[Since(c)] > 0
    BY <1>1, <2>5, <2>7
  <2> HIDE DEF g, h
  <2>9. WindowKept(c)'
    BY <1>1, <1>2, <2>3, <2>4, <2>5, <2>6, <2>7, <2>8 DEF WindowKept
  <2> QED
    BY <1>3, <2>9 DEF WindowsKept
<1> QED
  BY <1>4, <1>5

\* The window that ends was opened by a search that leaves the span with it.
LEMMA TimeKeepsWindows ==
    ASSUME LimitsTypeOK, TimePasses, WindowsKept
    PROVE  WindowsKept'
<1> SUFFICES ASSUME NEW c \in Callers
             PROVE  WindowKept(c)'
  BY DEF WindowsKept
<1> DEFINE h == taken[c]
<1>1. /\ h \in [Ages -> Nat] /\ clock \in Nat /\ 0 \in Ages /\ Limit \in Nat \ {0}
      /\ WindowKept(c) /\ Buckets \in Nat \ {0}
  BY LimiterTypes, BucketsIsNat DEF WindowsKept
<1>2. /\ clock' = clock + 1 /\ windows'[c] = windows[c] /\ taken'[c] = Older(h)
  BY DEF TimePasses, limiterVars
<1>3. Older(h)[0] = 0 /\ Buckets - 1 \in Ages /\ h[Buckets - 1] \in Nat
  BY <1>1 DEF Older, Ages
<1>4. Total(Older(h)) = Total(h) - h[Buckets - 1] /\ Total(h) \in Nat
  BY <1>1, OlderTotal, HistoryTypes
<1>5. windows'[c] # NoWindow => windows'[c].startedAt <= clock'
  BY <1>1, <1>2, LimiterTypes DEF WindowKept
<1>6. CASE ~Holding(c)
  <2>1. ~Holding(c)'
    BY <1>1, <1>2, <1>6, LimiterTypes DEF Holding, Since
  <2>2. Total(h) < Limit
    BY <1>1, <1>6 DEF WindowKept
  <2>3. Total(Older(h)) < Limit
    BY <1>1, <1>3, <1>4, <2>2
  <2> HIDE DEF h
  <2> QED
    BY <1>2, <1>3, <1>5, <2>1, <2>3 DEF WindowKept
<1>7. CASE Holding(c)
  <2> DEFINE n == Since(c)
  <2>1. /\ windows[c] # NoWindow /\ windows[c].startedAt \in Nat
        /\ windows[c].count \in 1 .. Limit
        /\ windows[c].startedAt <= clock
    BY <1>1, <1>7, LimiterTypes DEF WindowKept, Holding
  <2>2. n \in Nat /\ n < Buckets /\ n \in Ages /\ Since(c)' = n + 1
    BY <1>1, <1>2, <1>7, <2>1 DEF Since, Holding, Ages
  <2>3. Recent(h, n) = windows[c].count /\ h[n] > 0 /\ Elder(h, n) < Limit
    BY <1>1, <1>7 DEF WindowKept
  <2>4. /\ Total(h) = Recent(h, n) + Elder(h, n) /\ Elder(Older(h), n + 1) \in Nat
        /\ Elder(h, n) \in Nat
    <3>1. n \in Int /\ n + 1 \in Int
      BY <2>2
    <3> HIDE DEF n, h
    <3>2. Older(h) \in [Ages -> Nat]
      BY <1>1, <3>1, HistoryTypes
    <3> QED
      BY <1>1, <3>1, <3>2, HistoryTypes
  <2> HIDE DEF n
  <2>5. CASE n + 1 = Buckets
    <3>1. ~Holding(c)'
      BY <1>2, <2>2, <2>5 DEF Holding
    <3>2. Old(h, n) \in [Ages -> Int] /\ \A a \in Ages : Old(h, n)[a] = 0
      BY <1>1, <2>2, <2>5 DEF Old, Ages
    <3>3. Elder(h, n) = 0
      BY <3>2, BucketsIsNat, TotalOfNone DEF Elder
    <3>4. n = Buckets - 1
      BY <1>1, <2>2, <2>5
    <3>5. Total(Older(h)) < Limit
      BY <1>1, <1>3, <1>4, <2>1, <2>3, <2>4, <3>3, <3>4
    <3> HIDE DEF h
    <3> QED
      BY <1>2, <1>3, <1>5, <3>1, <3>5 DEF WindowKept
  <2>6. CASE n + 1 # Buckets
    <3>1. n + 1 \in Ages /\ n + 1 # 0 /\ (n + 1) - 1 = n
      BY <1>1, <2>2, <2>6 DEF Ages
    <3>2. Holding(c)'
      BY <1>1, <1>2, <2>1, <2>2, <2>6 DEF Holding
    <3>3. Recent(Older(h), n + 1) = Recent(h, n) /\ Elder(Older(h), n + 1) <= Elder(h, n)
      BY <1>1, <2>2, <3>1, OlderSplit
    <3>4. Older(h)[n + 1] = h[n]
      BY <3>1 DEF Older
    <3>5. Elder(Older(h), n + 1) < Limit
      BY <1>1, <2>3, <2>4, <3>3
    <3> HIDE DEF h
    <3> QED
      BY <1>2, <1>5, <2>2, <2>3, <3>2, <3>3, <3>4, <3>5 DEF WindowKept
  <2> QED
    BY <2>5, <2>6
<1> QED
  BY <1>6, <1>7

LEMMA WindowsStay == LimitsTypeOK /\ WindowsKept /\ [Next]_vars => WindowsKept'
<1> SUFFICES ASSUME LimitsTypeOK, WindowsKept, [Next]_vars
             PROVE  WindowsKept'
  OBVIOUS
<1>1. CASE UNCHANGED <<clock, windows, taken>>
  BY <1>1 DEF WindowsKept, WindowKept, Holding, Since
<1>2. ASSUME NEW c \in Callers, SearchLimited(c)
      PROVE  WindowsKept'
  BY <1>2, SweepIsNoLoss DEF SearchLimited, WindowsKept
<1>3. ASSUME NEW c \in Callers, SearchAllowed(c) \/ SearchSlowed(c) \/ SearchRefused(c)
      PROVE  WindowsKept'
  BY <1>3, TakingKeeps DEF SearchAllowed, SearchSlowed, SearchRefused
<1>4. ASSUME NEW c \in Callers, NEW ms \in Costs \cup {0}, Wakes(c) \/ Runs(c, ms)
      PROVE  UNCHANGED <<clock, windows, taken>>
  BY <1>4 DEF Wakes, Runs, limiterVars
<1>5. UNCHANGED vars => UNCHANGED <<clock, windows, taken>>
  BY DEF vars, limiterVars
<1> QED
  BY <1>1, <1>2, <1>3, <1>4, <1>5, TimeKeepsWindows DEF Next

LEMMA WindowsBound == LimitsTypeOK /\ WindowsKept => BurstBounded
<1> SUFFICES ASSUME LimitsTypeOK, WindowsKept, NEW c \in Callers
             PROVE  Total(taken[c]) < 2 * Limit
  BY DEF BurstBounded, InWindow
<1>1. /\ taken[c] \in [Ages -> Nat] /\ Limit \in Nat \ {0} /\ WindowKept(c)
  BY LimiterTypes DEF WindowsKept
<1>2. CASE Holding(c)
  <2>1. windows[c].count \in 1 .. Limit /\ Since(c) \in Int
    BY <1>2, LimiterTypes DEF Holding
  <2>2. /\ Total(taken[c]) = Recent(taken[c], Since(c)) + Elder(taken[c], Since(c))
        /\ Elder(taken[c], Since(c)) \in Nat
    BY <1>1, <2>1, HistoryTypes
  <2>3. Recent(taken[c], Since(c)) = windows[c].count /\ Elder(taken[c], Since(c)) < Limit
    BY <1>1, <1>2 DEF WindowKept
  <2> QED
    BY <1>1, <2>1, <2>2, <2>3
<1>3. CASE ~Holding(c)
  <2>1. Total(taken[c]) < Limit /\ Total(taken[c]) \in Nat
    BY <1>1, <1>3, HistoryTypes DEF WindowKept
  <2> QED
    BY <1>1, <2>1
<1> QED
  BY <1>2, <1>3

\* Within any span as long as a window a caller gets less than twice the limit,
\* however its windows are opened, swept and opened again.
THEOREM BurstIsBounded == Spec => []BurstBounded
<1>1. Init => LimitsTypeOK /\ WindowsKept
  BY TypesAtFirst, WindowsAtFirst
<1>2. LimitsTypeOK /\ WindowsKept /\ [Next]_vars => (LimitsTypeOK /\ WindowsKept)'
  BY TypesKept, WindowsStay
<1> QED
  BY <1>1, <1>2, WindowsBound, PTL DEF Spec

-----------------------------------------------------------------------------
(* The limiter implements FixedWindow.                                     *)

\* What a caller is told follows from its window alone, over or not.
LEMMA WhatIsTold ==
    ASSUME LimitsTypeOK, NEW c \in Callers
    PROVE  /\ Stale(c) => Remaining(c) = Limit /\ ClosesIn(c) = 0
           /\ ~Stale(c) =>
                /\ windows[c] \in Window /\ windows[c].count \in 1 .. Limit
                /\ windows[c].startedAt \in Nat
                /\ Remaining(c) = Limit - windows[c].count /\ Remaining(c) \in 0 .. Limit - 1
                /\ ClosesIn(c) = windows[c].startedAt + Buckets - clock /\ ClosesIn(c) > 0
           /\ clock \in Nat /\ Limit \in Nat \ {0} /\ Buckets \in Nat \ {0}
<1>1. clock \in Nat /\ Limit \in Nat \ {0} /\ Buckets \in Nat \ {0}
  BY LimiterTypes, BucketsIsNat
<1>2. CASE Stale(c)
  BY <1>1, <1>2 DEF Remaining, ClosesIn
<1>3. CASE ~Stale(c)
  <2>1. windows[c] # NoWindow /\ ~(clock - windows[c].startedAt >= Buckets)
    BY <1>3 DEF Stale, Over
  <2>2. /\ windows[c] \in Window /\ windows[c].count \in 1 .. Limit
        /\ windows[c].startedAt \in Nat
    BY <2>1, LimiterTypes
  <2>3. /\ Remaining(c) = Limit - windows[c].count
        /\ ClosesIn(c) = windows[c].startedAt + Buckets - clock
    BY <1>3 DEF Remaining, ClosesIn
  <2> QED
    BY <1>1, <1>3, <2>1, <2>2, <2>3
<1> QED
  BY <1>1, <1>2, <1>3

\* A search is let through or refused by what is left.
LEMMA RefusedIfNoneLeft ==
    ASSUME LimitsTypeOK, NEW c \in Callers
    PROVE  /\ Fresh(c) <=> Stale(c)
           /\ Refuses(c) <=> Remaining(c) = 0
           /\ Refuses(c) => ~Stale(c)
<1>1. Swept[c] = windows[c] \/ (Swept[c] = NoWindow /\ Over(windows[c]))
  BY SweptKeeps
<1>2. Fresh(c) <=> Stale(c)
  BY <1>1 DEF Fresh, Stale
<1>3. CASE Stale(c)
  BY <1>2, <1>3, WhatIsTold DEF Refuses
<1>4. CASE ~Stale(c)
  <2>1. Swept[c] = windows[c]
    BY <1>1, <1>4 DEF Stale
  <2> QED
    BY <1>2, <1>4, <2>1, WhatIsTold DEF Refuses
<1> QED
  BY <1>2, <1>3, <1>4

\* A sweep is not seen.
LEMMA SweepIsNotSeen ==
    ASSUME LimitsTypeOK, NEW c \in Callers, windows'[c] = Swept[c], clock' = clock
    PROVE  Remaining(c)' = Remaining(c) /\ ClosesIn(c)' = ClosesIn(c)
<1>1. CASE windows'[c] = windows[c]
  BY <1>1 DEF Remaining, ClosesIn, Stale, Over
<1>2. CASE windows'[c] = NoWindow /\ Over(windows[c])
  BY <1>2 DEF Remaining, ClosesIn, Stale
<1> QED
  BY <1>1, <1>2, SweptKeeps

\* A search that is let through takes one of what is left.
LEMMA TakingIsTake ==
    ASSUME LimitsTypeOK, NEW c \in Callers, ~Refuses(c), Takes(c), clock' = clock
    PROVE  /\ Remaining(c) > 0
           /\ Remaining(c)' = Remaining(c) - 1
           /\ ClosesIn(c)' = IF ClosesIn(c) = 0 THEN Buckets ELSE ClosesIn(c)
<1>1. /\ Fresh(c) <=> Stale(c)
      /\ Remaining(c) # 0
  BY RefusedIfNoneLeft
<1>2. CASE Stale(c)
  <2>1. windows'[c] = [count |-> 1, startedAt |-> clock]
    BY <1>1, <1>2, TakesOne
  <2>2. windows'[c] # NoWindow
    <3>1. windows'[c] \in Window
      BY <2>1, WhatIsTold DEF Window
    <3> QED
      BY <3>1, RingsAreTracked
  <2>3. ~Stale(c)'
    BY <2>1, <2>2, WhatIsTold DEF Stale, Over
  <2>4. Remaining(c)' = Limit - 1 /\ ClosesIn(c)' = clock + Buckets - clock
    BY <2>1, <2>3 DEF Remaining, ClosesIn
  <2> QED
    BY <1>2, <2>4, WhatIsTold
<1>3. CASE ~Stale(c)
  <2>1. windows'[c] = [count |-> windows[c].count + 1, startedAt |-> windows[c].startedAt]
    BY <1>1, <1>3, TakesOne
  <2>2. windows[c].count < Limit
    BY <1>1, <1>3, TakesOne
  <2>3. windows'[c] # NoWindow
    <3>1. windows'[c] \in Window
      BY <1>3, <2>1, <2>2, WhatIsTold DEF Window
    <3> QED
      BY <3>1, RingsAreTracked
  <2>4. ~(clock - windows[c].startedAt >= Buckets)
    BY <1>3 DEF Stale, Over
  <2>5. ~Stale(c)'
    BY <2>1, <2>3, <2>4 DEF Stale, Over
  <2>6. /\ Remaining(c)' = Limit - (windows[c].count + 1)
        /\ ClosesIn(c)' = windows[c].startedAt + Buckets - clock
    BY <2>1, <2>5 DEF Remaining, ClosesIn
  <2> QED
    BY <1>1, <1>3, <2>6, WhatIsTold
<1> QED
  BY <1>2, <1>3

\* A window is one bucket nearer to its end.
LEMMA TimeIsTick ==
    ASSUME LimitsTypeOK, NEW c \in Callers, clock' = clock + 1, windows' = windows
    PROVE  /\ Remaining(c)' = IF ClosesIn(c) <= 1 THEN Limit ELSE Remaining(c)
           /\ ClosesIn(c)' = IF ClosesIn(c) <= 1 THEN 0 ELSE ClosesIn(c) - 1
<1>1. CASE Stale(c)
  <2>1. Stale(c)'
    BY <1>1, LimiterTypes, WhatIsTold DEF Stale, Over
  <2>2. Remaining(c)' = Limit /\ ClosesIn(c)' = 0
    BY <2>1 DEF Remaining, ClosesIn
  <2> QED
    BY <1>1, <2>2, WhatIsTold
<1>2. CASE ~Stale(c) /\ ClosesIn(c) <= 1
  <2>1. Stale(c)'
    BY <1>2, WhatIsTold DEF Stale, Over
  <2> QED
    BY <1>2, <2>1 DEF Remaining, ClosesIn
<1>3. CASE ~Stale(c) /\ ~(ClosesIn(c) <= 1)
  <2>1. ~Stale(c)'
    BY <1>3, WhatIsTold DEF Stale, Over
  <2>2. /\ Remaining(c)' = Limit - windows[c].count
        /\ ClosesIn(c)' = windows[c].startedAt + Buckets - (clock + 1)
    BY <2>1 DEF Remaining, ClosesIn
  <2> QED
    BY <1>3, <2>2, WhatIsTold
<1> QED
  BY <1>1, <1>2, <1>3

\* Nobody is refused who would read that calls are left, or let through who would
\* read that none is, although `take` sweeps and `remaining` does not.
THEOREM WhatIsToldIsTrue == Spec => []ToldTheTruth
<1>1. LimitsTypeOK => ToldTheTruth
  BY RefusedIfNoneLeft, WhatIsTold DEF ToldTheTruth
<1> QED
  BY <1>1, LimitsTypes, PTL

LEMMA FirstIsAbstract == Init => Windows!Init
<1> SUFFICES ASSUME Init, NEW c \in Callers
             PROVE  Remaining(c) = Limit /\ ClosesIn(c) = 0
  BY DEF Windows!Init
<1> QED
  BY DEF Init, Remaining, ClosesIn, Stale

LEMMA StepIsAbstract ==
    ASSUME LimitsTypeOK, [Next]_vars
    PROVE  [Windows!Next]_<<[c \in Callers |-> Remaining(c)], [c \in Callers |-> ClosesIn(c)]>>
<1> DEFINE left == [c \in Callers |-> Remaining(c)]
           closesIn == [c \in Callers |-> ClosesIn(c)]
<1>1. ASSUME \A c \in Callers : Remaining(c)' = Remaining(c) /\ ClosesIn(c)' = ClosesIn(c)
      PROVE  UNCHANGED <<left, closesIn>>
  BY <1>1
<1>2. CASE UNCHANGED <<clock, windows>>
  BY <1>1, <1>2 DEF Remaining, ClosesIn, Stale, Over
<1>3. ASSUME NEW c \in Callers, SearchLimited(c)
      PROVE  UNCHANGED <<left, closesIn>>
  BY <1>1, <1>3, SweepIsNotSeen DEF SearchLimited
<1>4. ASSUME NEW c \in Callers, SearchAllowed(c) \/ SearchSlowed(c) \/ SearchRefused(c)
      PROVE  Windows!Take(c)
  <2>1. ~Refuses(c) /\ Takes(c) /\ clock' = clock
    BY <1>4 DEF SearchAllowed, SearchSlowed, SearchRefused
  <2>2. \A d \in Callers \ {c} : windows'[d] = Swept[d]
    BY <2>1, TakesOne
  <2>3. \A d \in Callers \ {c} : Remaining(d)' = Remaining(d) /\ ClosesIn(d)' = ClosesIn(d)
    BY <2>1, <2>2, SweepIsNotSeen
  <2>4. /\ Remaining(c) > 0 /\ Remaining(c)' = Remaining(c) - 1
        /\ ClosesIn(c)' = IF ClosesIn(c) = 0 THEN Buckets ELSE ClosesIn(c)
    BY <2>1, TakingIsTake
  <2>5. left[c] > 0 /\ left' = [left EXCEPT ![c] = left[c] - 1]
    BY <2>3, <2>4
  <2>6. closesIn' = [closesIn EXCEPT ![c] = IF closesIn[c] = 0 THEN Buckets ELSE closesIn[c]]
    BY <2>3, <2>4
  <2> QED
    BY <2>5, <2>6 DEF Windows!Take
<1>5. CASE TimePasses
  <2>1. clock' = clock + 1 /\ windows' = windows
    BY <1>5 DEF TimePasses, limiterVars
  <2>2. /\ left' = [c \in Callers |-> IF closesIn[c] <= 1 THEN Limit ELSE left[c]]
        /\ closesIn' = [c \in Callers |-> IF closesIn[c] <= 1 THEN 0 ELSE closesIn[c] - 1]
    BY <2>1, TimeIsTick
  <2> QED
    BY <2>2 DEF Windows!Next, Windows!Tick
<1>6. ASSUME NEW c \in Callers, NEW ms \in Costs \cup {0}, Wakes(c) \/ Runs(c, ms)
      PROVE  UNCHANGED <<clock, windows>>
  BY <1>6 DEF Wakes, Runs, limiterVars
<1>7. UNCHANGED vars => UNCHANGED <<clock, windows>>
  BY DEF vars, limiterVars
<1> HIDE DEF left, closesIn
<1>8. [Windows!Next]_<<left, closesIn>>
  BY <1>1, <1>2, <1>3, <1>4, <1>5, <1>6, <1>7 DEF Next, Windows!Next
<1> QED
  BY <1>8 DEF left, closesIn

\* The limiter that sweeps when it is called, at most once a window, implements the
\* one whose windows close on time: no caller can tell the two apart.
THEOREM SweepsAreInvisible == Spec => ClosesOnTime
<1>1. Init => Windows!Init
  BY FirstIsAbstract
<1>2. LimitsTypeOK /\ [Next]_vars
        => [Windows!Next]_<<[c \in Callers |-> Remaining(c)], [c \in Callers |-> ClosesIn(c)]>>
  BY StepIsAbstract
<1> QED
  BY <1>1, <1>2, LimitsTypes, PTL DEF Spec, ClosesOnTime, Windows!Spec

-----------------------------------------------------------------------------
(* The meter.                                                              *)

\* What everybody's searches of an age took.
Column(a) == Total([c \in Callers |-> burned[c][a]])

\* What a caller is charged for an age.
Charged(c, a) == IF c \in Tracked THEN Reads(clock, spends[c])[a] ELSE 0

\* Age by age, the ring of everybody holds what was burned.
TotalsKept ==
    /\ Honest(clock, totals)
    /\ \A a \in Ages : Reads(clock, totals)[a] = Column(a)

\* Age by age, nobody is charged more than was burned.
SpendsKept ==
    \A c \in Callers :
        /\ c \in Tracked => Honest(clock, spends[c])
        /\ \A a \in Ages : Charged(c, a) <= burned[c][a]

\* Whoever is charged less has lost a ring to somebody else's later work.
LossIsWitnessed ==
    \A c \in Callers, a \in Ages :
        Charged(c, a) < burned[c][a] =>
            \E d \in Callers \ {c}, b \in 0 .. a : burned[d][b] > 0

MeterKept == TotalsKept /\ SpendsKept /\ LossIsWitnessed

LEMMA MeterTypes ==
    ASSUME LimitsTypeOK
    PROVE  /\ clock \in Nat /\ clock \in Int /\ clock >= Buckets
           /\ totals \in Ring /\ IsFiniteSet(Callers) /\ 0 \in Ages
           /\ \A a \in Ages : a \in Nat /\ (a # 0 => a - 1 \in Ages)
           /\ \A c \in Callers : /\ burned[c] \in [Ages -> Nat]
                                 /\ c \in Tracked => spends[c] \in Ring
           /\ \A c \in Callers, a \in Ages : Charged(c, a) \in Nat /\ burned[c][a] \in Nat
<1>1. /\ totals \in Ring /\ IsFiniteSet(Callers) /\ 0 \in Ages
      /\ \A a \in Ages : a \in Nat /\ (a # 0 => a - 1 \in Ages)
      /\ \A c \in Callers : /\ burned[c] \in [Ages -> Nat]
                            /\ c \in Tracked => spends[c] \in Ring
  BY BucketsIsNat, LimitsAssumption DEF LimitsAssumption, LimitsTypeOK, Ages, Tracked
<1>2. clock \in Nat /\ clock \in Int /\ clock >= Buckets
  BY ClockIsNat
<1>3. \A r \in Ring, a \in Ages : Reads(clock, r)[a] \in Nat
  BY <1>2, SlotIsSlot DEF Reads, Ring
<1> QED
  BY <1>1, <1>2, <1>3 DEF Charged

LEMMA MeterAtFirst == Init => MeterKept
<1> SUFFICES ASSUME Init
             PROVE  MeterKept
  OBVIOUS
<1>1. clock \in Int /\ clock >= Buckets /\ Tracked = {} /\ IsFiniteSet(Callers)
  BY BucketsIsNat, LimitsAssumption DEF LimitsAssumption, Init, Tracked
<1>2. \A c \in Callers, a \in Ages : burned[c][a] = 0 /\ Charged(c, a) = 0
  BY <1>1 DEF Init, Charged
<1>3. ASSUME NEW a \in Ages
      PROVE  Column(a) = 0
  <2>1. /\ [c \in Callers |-> burned[c][a]] \in [Callers -> Int]
        /\ \A c \in Callers : [d \in Callers |-> burned[d][a]][c] = 0
    BY <1>2
  <2> QED
    BY <1>1, <2>1, TotalOfNone DEF Column
<1>4. TotalsKept
  BY <1>1, <1>3, EmptyReads DEF TotalsKept, Init
<1> QED
  BY <1>1, <1>2, <1>4 DEF MeterKept, SpendsKept, LossIsWitnessed

\* A search is charged.
LEMMA RecordKeeps ==
    ASSUME LimitsTypeOK, MeterKept, clock' = clock,
           NEW c \in Callers, NEW ms \in Nat, Records(c, ms), ms # 0
    PROVE  MeterKept'
<1> DEFINE more(a) == IF a = 0 THEN ms ELSE 0
<1>1. /\ totals' = Add(totals, ms)
      /\ burned'[c] = [burned[c] EXCEPT ![0] = burned[c][0] + ms]
      /\ \A d \in Callers \ {c} : burned'[d] = burned[d]
      /\ spends'[c] = Add(IF c \in Tracked THEN spends[c] ELSE EmptyRing, ms)
      /\ \A d \in Callers \ {c} : spends'[d] = spends[d] \/ spends'[d] = Untracked
  BY RecordsOne
<1>2. /\ clock \in Int /\ clock >= Buckets /\ totals \in Ring /\ IsFiniteSet(Callers)
      /\ 0 \in Ages /\ \A a \in Ages : a \in Nat
      /\ \A d \in Callers : /\ burned[d] \in [Ages -> Nat]
                            /\ d \in Tracked => spends[d] \in Ring
      /\ \A d \in Callers, a \in Ages : Charged(d, a) \in Nat /\ burned[d][a] \in Nat
  BY MeterTypes
<1>3. \A a \in Ages : burned'[c][a] = burned[c][a] + more(a)
  BY <1>1, <1>2
<1>4. Honest(clock, totals)'
  BY <1>1, <1>2, AddKeeps DEF MeterKept, TotalsKept
<1>5. ASSUME NEW a \in Ages
      PROVE  Reads(clock, totals)'[a] = Column(a)'
  <2> DEFINE f == [d \in Callers |-> burned[d][a]]
             v == f[c] + more(a)
  <2>1. f \in [Callers -> Int] /\ v \in Int
    BY <1>2
  <2>2. [d \in Callers |-> burned'[d][a]] = [f EXCEPT ![c] = v]
    BY <1>1, <1>3
  <2>3. Column(a)' = Total([f EXCEPT ![c] = v]) /\ Column(a) = Total(f)
    BY <2>2 DEF Column
  <2>4. f[c] \in Int /\ v = f[c] + more(a) /\ more(a) \in Int
    BY <1>2
  <2> HIDE DEF f, v, more
  <2>5. Total([f EXCEPT ![c] = v]) = Total(f) - f[c] + v /\ Total(f) \in Int
    BY <1>2, <2>1, TotalChanged, TotalType
  <2>6. Column(a)' = Column(a) + more(a)
    BY <2>3, <2>4, <2>5
  <2>7. Reads(clock, totals)'[a] = Reads(clock, totals)[a] + more(a)
    BY <1>1, <1>2, AddKeeps DEF MeterKept, TotalsKept, more
  <2> QED
    BY <2>6, <2>7 DEF MeterKept, TotalsKept
<1>6. /\ c \in Tracked' /\ Honest(clock, spends[c])'
      /\ \A a \in Ages : Charged(c, a)' = Charged(c, a) + more(a)
  <2> DEFINE r == IF c \in Tracked THEN spends[c] ELSE EmptyRing
  <2>1. r \in Ring /\ Honest(clock, r) /\ \A a \in Ages : Reads(clock, r)[a] = Charged(c, a)
    BY <1>2, EmptyReads DEF MeterKept, SpendsKept, Charged
  <2>2. spends'[c] = Add(r, ms)
    BY <1>1
  <2> HIDE DEF r
  <2>3. spends'[c] \in Ring /\ spends'[c] # Untracked
    BY <1>2, <2>1, <2>2, AddTypes, RingsAreTracked
  <2>4. c \in Tracked'
    BY <2>3 DEF Tracked
  <2>5. /\ Honest(clock, spends'[c])
        /\ \A a \in Ages : Reads(clock, spends'[c])[a] = Reads(clock, r)[a] + more(a)
    <3>1. clock \in Int /\ r \in Ring /\ Honest(clock, r)
      BY <1>2, <2>1
    <3>2. /\ Honest(clock, Add(r, ms))
          /\ \A a \in Ages : Reads(clock, Add(r, ms))[a] = Reads(clock, r)[a] + more(a)
      BY <3>1, AddKeeps
    <3> QED
      BY <2>2, <3>2
  <2>6. Honest(clock, spends[c])'
    BY <2>5
  <2>7. ASSUME NEW a \in Ages
        PROVE  Charged(c, a)' = Charged(c, a) + more(a)
    <3>1. Charged(c, a)' = Reads(clock, spends'[c])[a]
      BY <2>4 DEF Charged
    <3> QED
      BY <2>1, <2>5, <3>1
  <2> QED
    BY <2>4, <2>6, <2>7
<1>7. ASSUME NEW d \in Callers \ {c}
      PROVE  /\ d \in Tracked' => d \in Tracked /\ spends'[d] = spends[d]
             /\ \A a \in Ages : Charged(d, a)' \in {0, Charged(d, a)}
  <2>1. d \in Tracked' => d \in Tracked /\ spends'[d] = spends[d]
    BY <1>1 DEF Tracked
  <2> QED
    BY <1>2, <2>1 DEF Charged
<1>8. SpendsKept'
  <2>1. ASSUME NEW d \in Callers
        PROVE  /\ (d \in Tracked => Honest(clock, spends[d]))'
               /\ \A a \in Ages : Charged(d, a)' <= burned'[d][a]
    <3>1. \A a \in Ages : Charged(d, a) <= burned[d][a]
      BY DEF MeterKept, SpendsKept
    <3>2. CASE d = c
      <4>1. \A a \in Ages : more(a) \in Nat
        OBVIOUS
      <4> HIDE DEF more
      <4> QED
        BY <1>2, <1>3, <1>6, <3>1, <3>2, <4>1
    <3>3. CASE d # c
      <4>1. \A a \in Ages : Charged(d, a)' \in {0, Charged(d, a)} /\ burned'[d] = burned[d]
        BY <1>1, <1>7, <3>3
      <4> QED
        BY <1>2, <1>7, <3>1, <3>3, <4>1 DEF MeterKept, SpendsKept
    <3> QED
      BY <3>2, <3>3
  <2> QED
    BY <2>1 DEF SpendsKept
<1>9. LossIsWitnessed'
  <2> SUFFICES ASSUME NEW d \in Callers, NEW a \in Ages, Charged(d, a)' < burned'[d][a]
               PROVE  \E e \in Callers \ {d}, b \in 0 .. a : burned'[e][b] > 0
    BY DEF LossIsWitnessed
  <2>1. CASE d # c
    <3>1. burned'[c][0] > 0 /\ 0 \in 0 .. a /\ c \in Callers \ {d}
      BY <1>2, <1>3, <2>1
    <3> QED
      BY <3>1
  <2>2. CASE d = c
    <3>1. Charged(c, a) < burned[c][a]
      BY <1>2, <1>3, <1>6, <2>2
    <3>2. PICK e \in Callers \ {c}, b \in 0 .. a : burned[e][b] > 0
      BY <3>1 DEF MeterKept, LossIsWitnessed
    <3>3. burned'[e][b] > 0
      BY <1>1, <3>2
    <3> QED
      BY <2>2, <3>2, <3>3
  <2> QED
    BY <2>1, <2>2
<1> QED
  BY <1>4, <1>5, <1>8, <1>9 DEF MeterKept, TotalsKept

LEMMA TimeKeepsMeter ==
    ASSUME LimitsTypeOK, MeterKept, TimePasses
    PROVE  MeterKept'
<1>1. /\ clock' = clock + 1 /\ totals' = totals /\ spends' = spends
      /\ \A c \in Callers : burned'[c] = Older(burned[c])
  BY DEF TimePasses, meterVars
<1>2. /\ clock \in Int /\ totals \in Ring /\ IsFiniteSet(Callers) /\ 0 \in Ages
      /\ \A a \in Ages : a \in Nat /\ (a # 0 => a - 1 \in Ages)
      /\ \A c \in Callers : /\ burned[c] \in [Ages -> Nat]
                            /\ c \in Tracked => spends[c] \in Ring
      /\ \A c \in Callers, a \in Ages : Charged(c, a) \in Nat /\ burned[c][a] \in Nat
  BY MeterTypes
<1>3. \A c \in Callers, a \in Ages : burned'[c][a] = IF a = 0 THEN 0 ELSE burned[c][a - 1]
  BY <1>1 DEF Older
<1>4. Honest(clock + 1, totals)
  BY <1>2, TimeKeeps DEF MeterKept, TotalsKept
<1>5. ASSUME NEW a \in Ages
      PROVE  Reads(clock + 1, totals)[a] = Column(a)'
  <2>1. Reads(clock + 1, totals)[a] = IF a = 0 THEN 0 ELSE Reads(clock, totals)[a - 1]
    BY <1>2, TimeKeeps DEF MeterKept, TotalsKept
  <2>2. CASE a = 0
    <3> DEFINE z == [c \in Callers |-> burned'[c][a]]
    <3>1. z \in [Callers -> Int] /\ \A c \in Callers : z[c] = 0
      BY <1>3, <2>2
    <3> HIDE DEF z
    <3>2. Total(z) = 0
      BY <1>2, <3>1, TotalOfNone
    <3> QED
      BY <2>1, <2>2, <3>2 DEF Column, z
  <2>3. CASE a # 0
    <3>1. a - 1 \in Ages /\ [c \in Callers |-> burned'[c][a]] = [c \in Callers |-> burned[c][a - 1]]
      BY <1>2, <1>3, <2>3
    <3>2. Column(a)' = Column(a - 1)
      BY <3>1 DEF Column
    <3> QED
      BY <2>1, <2>3, <3>1, <3>2 DEF MeterKept, TotalsKept
  <2> QED
    BY <2>2, <2>3
<1>6. ASSUME NEW c \in Callers
      PROVE  /\ Tracked' = Tracked
             /\ c \in Tracked => Honest(clock + 1, spends[c])
             /\ \A a \in Ages : Charged(c, a)' = IF a = 0 THEN 0 ELSE Charged(c, a - 1)
  <2>1. Tracked' = Tracked
    BY <1>1 DEF Tracked
  <2>2. CASE c \in Tracked
    <3>1. /\ Honest(clock + 1, spends[c])
          /\ \A a \in Ages : Reads(clock + 1, spends[c])[a] =
                                IF a = 0 THEN 0 ELSE Reads(clock, spends[c])[a - 1]
      BY <1>2, <2>2, TimeKeeps DEF MeterKept, SpendsKept
    <3> QED
      BY <1>1, <2>1, <2>2, <3>1 DEF Charged
  <2>3. CASE c \notin Tracked
    BY <2>1, <2>3 DEF Charged
  <2> QED
    BY <2>1, <2>2, <2>3
<1>7. SpendsKept'
  <2>1. ASSUME NEW c \in Callers, NEW a \in Ages
        PROVE  Charged(c, a)' <= burned'[c][a]
    <3>1. a # 0 => a - 1 \in Ages /\ Charged(c, a - 1) <= burned[c][a - 1]
      BY <1>2 DEF MeterKept, SpendsKept
    <3> QED
      BY <1>3, <1>6, <3>1
  <2> QED
    BY <1>1, <1>6, <2>1 DEF SpendsKept
<1>8. LossIsWitnessed'
  <2> SUFFICES ASSUME NEW c \in Callers, NEW a \in Ages, Charged(c, a)' < burned'[c][a]
               PROVE  \E d \in Callers \ {c}, b \in 0 .. a : burned'[d][b] > 0
    BY DEF LossIsWitnessed
  <2>1. a # 0 /\ a - 1 \in Ages /\ Charged(c, a - 1) < burned[c][a - 1]
    BY <1>2, <1>3, <1>6
  <2>2. PICK d \in Callers \ {c}, b \in 0 .. a - 1 : burned[d][b] > 0
    BY <2>1 DEF MeterKept, LossIsWitnessed
  <2>3. b + 1 \in 0 .. a /\ b + 1 \in Ages /\ b + 1 # 0 /\ (b + 1) - 1 = b
    BY <1>2, <2>1, <2>2, BucketsIsNat DEF Ages
  <2>4. burned'[d][b + 1] > 0
    BY <1>3, <2>2, <2>3
  <2> QED
    BY <2>2, <2>3, <2>4
<1> QED
  BY <1>1, <1>4, <1>5, <1>7, <1>8 DEF MeterKept, TotalsKept

LEMMA MeterStays == LimitsTypeOK /\ MeterKept /\ [Next]_vars => MeterKept'
<1> SUFFICES ASSUME LimitsTypeOK, MeterKept, [Next]_vars
             PROVE  MeterKept'
  OBVIOUS
<1>1. CASE UNCHANGED <<clock, spends, totals, burned>>
  BY <1>1 DEF MeterKept, TotalsKept, SpendsKept, LossIsWitnessed, Column, Charged, Tracked
<1>2. ASSUME NEW c \in Callers, NEW ms \in Costs \cup {0}, Runs(c, ms)
      PROVE  MeterKept'
  <2>1. ms \in Nat
    BY LimitsAssumption DEF LimitsAssumption
  <2>2. CASE ms = 0
    BY <1>1, <1>2, <2>2 DEF Runs, Records, meterVars
  <2>3. CASE ms # 0
    BY <1>2, <2>1, <2>3, RecordKeeps DEF Runs
  <2> QED
    BY <2>2, <2>3
<1>3. ASSUME NEW c \in Callers,
             \/ SearchLimited(c) \/ SearchAllowed(c) \/ SearchSlowed(c)
             \/ SearchRefused(c) \/ Wakes(c)
      PROVE  UNCHANGED <<clock, spends, totals, burned>>
  BY <1>3 DEF SearchLimited, SearchAllowed, SearchSlowed, SearchRefused, Wakes, meterVars
<1>4. UNCHANGED vars => UNCHANGED <<clock, spends, totals, burned>>
  BY DEF vars, meterVars
<1> QED
  BY <1>1, <1>2, <1>3, <1>4, TimeKeepsMeter DEF Next

\* `Busy` and `Spent`, added up the plain way.
LEMMA BusyIsBurned ==
    ASSUME LimitsTypeOK, MeterKept
    PROVE  Busy = Total([c \in Callers |-> InWindow(burned[c])])
<1> DEFINE m == burned
<1>1. m \in [Callers -> [Ages -> Int]] /\ IsFiniteSet(Callers) /\ IsFiniteSet(Ages)
  <2>1. burned \in [Callers -> [Ages -> Nat]]
    BY DEF LimitsTypeOK
  <2> QED
    BY <2>1, MeterTypes, BucketsIsNat
<1>2. Busy = Total(Reads(clock, totals))
  BY MeterTypes, SumIsReads DEF MeterKept, TotalsKept, Busy
<1>3. Reads(clock, totals) = [a \in Ages |-> Column(a)]
  BY DEF MeterKept, TotalsKept, Reads
<1>4. Total([c \in Callers |-> Total(m[c])]) =
      Total([a \in Ages |-> Total([c \in Callers |-> m[c][a]])])
  <2> HIDE DEF m
  <2> QED
    BY ONLY <1>1, TotalByColumns
<1> QED
  BY <1>2, <1>3, <1>4 DEF Column, InWindow

LEMMA SpentIsCharged ==
    ASSUME LimitsTypeOK, MeterKept, NEW c \in Callers
    PROVE  /\ [a \in Ages |-> Charged(c, a)] \in [Ages -> Nat]
           /\ Spent(c) = Total([a \in Ages |-> Charged(c, a)])
           /\ Spent(c) <= InWindow(burned[c])
           /\ Spent(c) \in Nat /\ InWindow(burned[c]) \in Nat
<1> DEFINE f == [a \in Ages |-> Charged(c, a)]
<1>1. f \in [Ages -> Nat] /\ burned[c] \in [Ages -> Nat]
  BY MeterTypes
<1>2. Spent(c) = Total(f)
  <2>1. CASE c \in Tracked
    <3>1. SumOf(spends[c]) = Total(Reads(clock, spends[c]))
      BY <2>1, MeterTypes, SumIsReads DEF MeterKept, SpendsKept
    <3>2. f = Reads(clock, spends[c])
      BY <2>1 DEF Charged, Reads
    <3> QED
      BY <2>1, <3>1, <3>2 DEF Spent
  <2>2. CASE c \notin Tracked
    <3>1. f \in [Ages -> Int] /\ \A a \in Ages : f[a] = 0
      BY <2>2 DEF Charged
    <3> HIDE DEF f
    <3>2. Total(f) = 0
      BY <3>1, BucketsIsNat, TotalOfNone
    <3> QED
      BY <2>2, <3>2 DEF Spent
  <2> QED
    BY <2>1, <2>2
<1>3. \A a \in Ages : f[a] <= burned[c][a]
  BY DEF MeterKept, SpendsKept
<1> DEFINE h == burned[c]
<1>4. f \in [Ages -> Int] /\ h \in [Ages -> Int] /\ \A a \in Ages : f[a] <= h[a]
  BY <1>1, <1>3
<1>5. Total(f) \in Nat /\ Total(h) \in Nat
  <2> HIDE DEF f, h
  <2> QED
    BY <1>1, BucketsIsNat, TotalIsNat DEF h
<1>6. Total(f) <= Total(h)
  <2> HIDE DEF f, h
  <2> QED
    BY <1>4, BucketsIsNat, TotalGrows
<1> QED
  BY <1>1, <1>2, <1>5, <1>6 DEF InWindow

\* The rings are what was spent: the total is what everybody's searches took within
\* the window, evicted callers included, and nobody is charged more than that.
THEOREM TheMeterIsHonest == Spec => []MeterIsHonest
<1>1. LimitsTypeOK /\ MeterKept => MeterIsHonest
  BY BusyIsBurned, SpentIsCharged DEF MeterIsHonest
<1>2. Init => LimitsTypeOK /\ MeterKept
  BY TypesAtFirst, MeterAtFirst
<1>3. LimitsTypeOK /\ MeterKept /\ [Next]_vars => (LimitsTypeOK /\ MeterKept)'
  BY TypesKept, MeterStays
<1> QED
  BY <1>1, <1>2, <1>3, PTL DEF Spec

-----------------------------------------------------------------------------
(* The verdict.                                                            *)

\* With nobody else's work in the window, a caller has lost no ring, and all the
\* work there is its own.
LEMMA AloneIsCharged ==
    ASSUME LimitsTypeOK, MeterKept, NEW c \in Callers,
           \A d \in Callers \ {c} : ~(InWindow(burned[d]) > 0)
    PROVE  ~OthersActive(c)
<1> DEFINE w == [d \in Callers |-> InWindow(burned[d])]
           z == [d \in Callers |-> 0]
           own == InWindow(burned[c])
<1>1. \A d \in Callers \ {c}, a \in Ages : burned[d][a] = 0
  <2> SUFFICES ASSUME NEW d \in Callers \ {c}, NEW a \in Ages
               PROVE  burned[d][a] = 0
    OBVIOUS
  <2> DEFINE h == burned[d]
  <2>1. h \in [Ages -> Nat] /\ h[a] \in Nat
    BY MeterTypes
  <2> HIDE DEF h
  <2>2. Total(h) \in Nat /\ h[a] <= Total(h)
    BY <2>1, BucketsIsNat, TotalIsNat
  <2> QED
    BY <2>1, <2>2 DEF InWindow, h
<1>2. ASSUME NEW a \in Ages
      PROVE  Charged(c, a) = burned[c][a]
  <2>1. Charged(c, a) \in Nat /\ burned[c][a] \in Nat /\ Charged(c, a) <= burned[c][a]
    BY MeterTypes DEF MeterKept, SpendsKept
  <2>2. \A b \in 0 .. a : b \in Ages
    BY BucketsIsNat DEF Ages
  <2>3. ~(Charged(c, a) < burned[c][a])
    BY <1>1, <2>2 DEF MeterKept, LossIsWitnessed
  <2> QED
    BY <2>1, <2>3
<1>3. Spent(c) = own
  <2>1. burned[c] = [a \in Ages |-> burned[c][a]]
    BY MeterTypes
  <2>2. [a \in Ages |-> Charged(c, a)] = burned[c]
    BY <1>2, <2>1
  <2> QED
    BY <2>2, SpentIsCharged DEF InWindow
<1>4. own \in Nat /\ \A d \in Callers \ {c} : w[d] = 0
  <2>1. \A d \in Callers : InWindow(burned[d]) \in Nat
    BY SpentIsCharged
  <2>2. \A d \in Callers \ {c} : InWindow(burned[d]) = 0
    BY <2>1
  <2> QED
    BY <2>1, <2>2
<1>5. w = [z EXCEPT ![c] = own]
  BY <1>4
<1>6. z \in [Callers -> Int] /\ z[c] = 0 /\ \A d \in Callers : z[d] = 0
  OBVIOUS
<1>7. Total(w) = own
  <2>1. own \in Int /\ IsFiniteSet(Callers)
    BY <1>4, MeterTypes
  <2> HIDE DEF w, z, own
  <2>2. Total(z) = 0
    BY <1>6, <2>1, TotalOfNone
  <2>3. Total([z EXCEPT ![c] = own]) = Total(z) - z[c] + own
    BY <1>6, <2>1, TotalChanged
  <2> QED
    BY <1>5, <1>6, <2>1, <2>2, <2>3
<1>8. Busy = own
  BY <1>7, BusyIsBurned
<1> QED
  BY <1>3, <1>4, <1>8 DEF OthersActive

LEMMA HeldBackForAReason ==
    ASSUME LimitsTypeOK, MeterKept, NEW c \in Callers, VerdictRefuses(c) \/ VerdictSlows(c)
    PROVE  \/ \E d \in Callers \ {c} : InWindow(burned[d]) > 0
           \/ InWindow(burned[c]) >= SoloBudgetMs
<1>1. CASE Runaway(c)
  <2>1. /\ Spent(c) >= SoloBudgetMs /\ Spent(c) <= InWindow(burned[c]) /\ Spent(c) \in Nat
        /\ InWindow(burned[c]) \in Nat /\ SoloBudgetMs \in Nat
    BY <1>1, SpentIsCharged, LimitsAssumption DEF LimitsAssumption, Runaway
  <2> QED
    BY <2>1
<1>2. CASE Greedy(c)
  BY <1>2, AloneIsCharged DEF Greedy
<1> QED
  BY <1>1, <1>2 DEF VerdictRefuses, VerdictSlows

\* Whoever is slowed or refused shares the window with somebody else's work, or is
\* a runaway, although a ring may have been dropped to make room for another.
THEOREM NobodyWaitsAlone == Spec => []AloneNobodyWaits
<1> DEFINE I == LimitsTypeOK /\ MeterKept /\ AloneNobodyWaits
<1>1. Init => I
  BY TypesAtFirst, MeterAtFirst DEF Init, Nobody, AloneNobodyWaits
<1>2. I /\ [Next]_vars => I'
  <2> SUFFICES ASSUME I, [Next]_vars
               PROVE  AloneNobodyWaits'
    BY TypesKept, MeterStays
  <2>1. ASSUME NEW c \in Callers, SearchSlowed(c) \/ SearchRefused(c)
        PROVE  AloneNobodyWaits'
    <3>1. heldBack' = {c} /\ burned' = burned /\ (VerdictRefuses(c) \/ VerdictSlows(c))
      BY <2>1 DEF SearchSlowed, SearchRefused
    <3> QED
      BY <3>1, HeldBackForAReason DEF AloneNobodyWaits, InWindow
  <2>2. ASSUME NEW c \in Callers, NEW ms \in Costs \cup {0},
               SearchLimited(c) \/ SearchAllowed(c) \/ Wakes(c) \/ Runs(c, ms)
        PROVE  heldBack' = {}
    BY <2>2 DEF SearchLimited, SearchAllowed, Wakes, Runs, Nobody
  <2>3. TimePasses => heldBack' = {}
    BY DEF TimePasses, Nobody
  <2>4. heldBack' = {} => AloneNobodyWaits'
    BY DEF AloneNobodyWaits
  <2>5. UNCHANGED vars => AloneNobodyWaits'
    BY DEF vars, AloneNobodyWaits, InWindow
  <2> QED
    BY <2>1, <2>2, <2>3, <2>4, <2>5 DEF Next
<1>3. I => AloneNobodyWaits
  OBVIOUS
<1> QED
  BY <1>1, <1>2, <1>3, PTL DEF Spec
=============================================================================
