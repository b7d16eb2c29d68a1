------------------------ MODULE CircuitBreakerProofs ------------------------
(***************************************************************************)
(* Theorems about CircuitBreaker for any number of callers, any threshold, *)
(* any cooldown and window, and any interleaving of their Redis commands.  *)
(***************************************************************************)
EXTENDS CircuitBreaker, SumLemmas, TLAPS

USE CircuitBreakerAssumption
-----------------------------------------------------------------------------

LEMMA AgedType ==
  ASSUME NEW n \in Nat, NEW ttl \in 0..n
  PROVE  Aged(ttl) \in 0..n
  BY DEF Aged

LEMMA RecordedType ==
  ASSUME recent \in [Ages -> 0..Threshold], NEW n \in Nat
  PROVE  Recorded(n) \in [Ages -> 0..Threshold]
  BY DEF Recorded, Ages

LEMMA IncrFailuresType ==
  ASSUME failures \in [count: Nat, ttl: 0..Window]
  PROVE  IncrFailures \in [count: Nat, ttl: 0..Window]
  BY DEF IncrFailures

LEMMA GoesType ==
  ASSUME at \in [Callers -> Place], NEW c \in Callers, NEW p \in Place, Goes(c, p)
  PROVE  at' \in [Callers -> Place]
  BY DEF Goes

LEMMA InitTypeOK == Init => TypeOK
  BY DEF Init, TypeOK, Absent, None, Place, Gate, HasProbe

LEMMA NextTypeOK == TypeOK /\ [Next]_vars => TypeOK'
  <1> SUFFICES ASSUME TypeOK, [Next]_vars PROVE TypeOK'
    OBVIOUS
  <1> USE DEF TypeOK
  <1>0. /\ {"idle", "calling", "opening", "read", "claim",
            "probing", "reopening", "freeing"} = Place
        /\ 0 \in 0..Cooldown /\ Cooldown \in 0..Cooldown
        /\ Absent \in [count: Nat, ttl: 0..Window]
        /\ None \in [Ages -> 0..Threshold]
    BY DEF Place, Gate, HasProbe, Absent, None
  <1>1. ASSUME NEW c \in Callers, ReadOpen(c) PROVE TypeOK'
    BY <1>0, <1>1, GoesType DEF ReadOpen
  <1>2. ASSUME NEW c \in Callers, ReadFailures(c) PROVE TypeOK'
    <2>1. (IF failures.count >= Threshold THEN "claim" ELSE "calling") \in Place
      BY <1>0
    <2>2. at' \in [Callers -> Place]
      BY <1>2, <2>1, GoesType DEF ReadFailures
    <2> QED BY <1>2, <2>2 DEF ReadFailures
  <1>3. ASSUME NEW c \in Callers, AcquireProbe(c) PROVE TypeOK'
    BY <1>0, <1>3, GoesType DEF AcquireProbe
  <1>4. ASSUME NEW c \in Callers, RecordSuccess(c) PROVE TypeOK'
    BY <1>0, <1>4, GoesType DEF RecordSuccess, DeleteAll
  <1>5. ASSUME NEW c \in Callers, RecordNeutral(c) PROVE TypeOK'
    BY <1>0, <1>5, GoesType DEF RecordNeutral
  <1>6. ASSUME NEW c \in Callers, RecordFailure(c) PROVE TypeOK'
    <2>1. (IF failures'.count >= Threshold THEN "opening" ELSE "idle") \in Place
      BY <1>0
    <2>2. at' \in [Callers -> Place]
      BY <1>6, <2>1, GoesType DEF RecordFailure
    <2> QED BY <1>6, <2>2, RecordedType, IncrFailuresType DEF RecordFailure
  <1>7. ASSUME NEW c \in Callers, Open(c) PROVE TypeOK'
    BY <1>0, <1>7, GoesType DEF Open
  <1>8. ASSUME NEW c \in Callers, RecordProbeFailure(c) PROVE TypeOK'
    BY <1>0, <1>8, GoesType DEF RecordProbeFailure
  <1>9. ASSUME NEW c \in Callers, RefillFailures(c) PROVE TypeOK'
    BY <1>0, <1>9, GoesType, RecordedType DEF RefillFailures
  <1>10. ASSUME NEW c \in Callers, FreeProbe(c) PROVE TypeOK'
    BY <1>0, <1>10, GoesType DEF FreeProbe
  <1>11. ASSUME NEW c \in Callers, RedisFault(c) PROVE TypeOK'
    BY <1>0, <1>11, GoesType DEF RedisFault
  <1>12. ASSUME NEW c \in Callers, Killed(c) PROVE TypeOK'
    BY <1>0, <1>12, GoesType DEF Killed
  <1>13. CASE Reset
    BY <1>0, <1>13 DEF Reset, DeleteAll
  <1>14. CASE Tick
    <2>1. open' \in 0..Cooldown /\ probe' \in 0..Cooldown
      BY <1>14, AgedType DEF Tick
    <2>2. failures' \in [count: Nat, ttl: 0..Window]
      BY <1>0, <1>14, AgedType DEF Tick
    <2>3. recent' \in [Ages -> 0..Threshold]
      BY <1>14 DEF Tick, Ages
    <2> QED BY <1>14, <2>1, <2>2, <2>3 DEF Tick
  <1>15. CASE CarrierTurns
    BY <1>15 DEF CarrierTurns
  <1>16. CASE UNCHANGED vars
    BY <1>16 DEF vars
  <1> QED
    BY <1>1, <1>2, <1>3, <1>4, <1>5, <1>6, <1>7, <1>8, <1>9, <1>10, <1>11,
       <1>12, <1>13, <1>14, <1>15, <1>16 DEF Next

\* Every key keeps a time to live within its setting, a caller is always at a known
\* place, and no failure is counted with an age the window does not have.
THEOREM TypeCorrect == Spec => []TypeOK
  <1> QED BY InitTypeOK, NextTypeOK, PTL DEF Spec

-----------------------------------------------------------------------------

\* A step of one caller leaves the places of the others alone
LEMMA OthersStay ==
  ASSUME at \in [Callers -> Place], NEW c \in Callers, NEW p, Goes(c, p)
  PROVE  at'[c] = p /\ \A d \in Callers \ {c} : at'[d] = at[d]
  BY DEF Goes

LEMMA InitProbeKeyHeld == Init => ProbeKeyHeld
  BY DEF Init, ProbeKeyHeld

\* Only the holder deletes the probe key, or the clock does.
LEMMA NextProbeKeyHeld == TypeOK /\ ProbeKeyHeld /\ [Next]_vars => ProbeKeyHeld'
  <1> SUFFICES ASSUME TypeOK, ProbeKeyHeld, [Next]_vars, probe' # 0, faults' = 0
               PROVE  \E c \in Callers : at'[c] \in HasProbe
    BY NextTypeOK DEF ProbeKeyHeld, TypeOK
  <1> USE DEF TypeOK
  <1>1. ASSUME NEW c \in Callers, NEW p \in HasProbe, Goes(c, p)
        PROVE  \E d \in Callers : at'[d] \in HasProbe
    BY <1>1, OthersStay
  <1>2. ASSUME NEW c \in Callers, NEW p, Goes(c, p), at[c] \notin HasProbe,
               probe # 0, faults = 0
        PROVE  \E d \in Callers : at'[d] \in HasProbe
    <2>1. PICK d \in Callers : at[d] \in HasProbe
      BY <1>2 DEF ProbeKeyHeld
    <2>2. d # c
      BY <1>2, <2>1
    <2> QED BY <1>2, <2>1, <2>2, OthersStay
  <1>3. ASSUME NEW c \in Callers, ReadOpen(c) PROVE \E d \in Callers : at'[d] \in HasProbe
    BY <1>2, <1>3 DEF ReadOpen, HasProbe
  <1>4. ASSUME NEW c \in Callers, ReadFailures(c)
        PROVE  \E d \in Callers : at'[d] \in HasProbe
    BY <1>2, <1>4 DEF ReadFailures, HasProbe
  <1>5. ASSUME NEW c \in Callers, AcquireProbe(c)
        PROVE  \E d \in Callers : at'[d] \in HasProbe
    <2>1. CASE probe # 0
      BY <1>2, <1>5, <2>1 DEF AcquireProbe, HasProbe
    <2>2. CASE probe = 0
      BY <1>1, <1>5, <2>2 DEF AcquireProbe, HasProbe
    <2> QED BY <2>1, <2>2
  <1>6. ASSUME NEW c \in Callers, RecordSuccess(c) PROVE FALSE
    BY <1>6 DEF RecordSuccess, DeleteAll
  <1>7. ASSUME NEW c \in Callers, RecordNeutral(c)
        PROVE  \E d \in Callers : at'[d] \in HasProbe
    BY <1>2, <1>7 DEF RecordNeutral, HasProbe
  <1>8. ASSUME NEW c \in Callers, RecordFailure(c)
        PROVE  \E d \in Callers : at'[d] \in HasProbe
    BY <1>2, <1>8 DEF RecordFailure, HasProbe
  <1>9. ASSUME NEW c \in Callers, Open(c) PROVE \E d \in Callers : at'[d] \in HasProbe
    BY <1>2, <1>9 DEF Open, HasProbe
  <1>10. ASSUME NEW c \in Callers, RecordProbeFailure(c)
         PROVE  \E d \in Callers : at'[d] \in HasProbe
    BY <1>1, <1>10 DEF RecordProbeFailure, HasProbe
  <1>11. ASSUME NEW c \in Callers, RefillFailures(c)
         PROVE  \E d \in Callers : at'[d] \in HasProbe
    BY <1>1, <1>11 DEF RefillFailures, HasProbe
  <1>12. ASSUME NEW c \in Callers, FreeProbe(c) PROVE FALSE
    BY <1>12 DEF FreeProbe
  <1>13. ASSUME NEW c \in Callers, RedisFault(c) \/ Killed(c) PROVE FALSE
    BY <1>13 DEF RedisFault, Killed
  <1>14. CASE Reset
    BY <1>14 DEF Reset, DeleteAll
  <1>15. CASE Tick
    <2>1. probe # 0 /\ faults = 0 /\ at' = at
      BY <1>15 DEF Tick, Aged
    <2> QED BY <2>1 DEF ProbeKeyHeld
  <1>16. CASE CarrierTurns
    BY <1>16 DEF CarrierTurns, ProbeKeyHeld
  <1>17. CASE UNCHANGED vars
    BY <1>17 DEF vars, ProbeKeyHeld
  <1> QED
    BY <1>3, <1>4, <1>5, <1>6, <1>7, <1>8, <1>9, <1>10, <1>11, <1>12, <1>13,
       <1>14, <1>15, <1>16, <1>17 DEF Next

\* However calls, their records and the clock interleave, the key of the half-open
\* state is never left behind by a caller that has finished.
THEOREM ProbeAlwaysHeld == Spec => []ProbeKeyHeld
  <1> QED
    BY InitTypeOK, NextTypeOK, InitProbeKeyHeld, NextProbeKeyHeld, PTL DEF Spec

-----------------------------------------------------------------------------
(* The circuit opens on recent failures                                      *)

\* The recent failures no older than a key with so long to live
Since(ttl, history) == [a \in Ages |-> IF a <= Window - ttl THEN history[a] ELSE 0]

\* The key failures counts no more than what happened since it was made, up to the
\* Threshold at which the history stops counting
CountInv ==
    /\ failures.ttl = 0 => failures.count = 0
    /\ \/ failures.count <= SumFunction(Since(failures.ttl, recent))
       \/ Threshold <= SumFunction(Since(failures.ttl, recent))

\* The failures since a key was made are numbers by age, no more than the recent ones.
LEMMA SinceType ==
  ASSUME NEW history \in [Ages -> 0..Threshold], NEW ttl \in 0..Window
  PROVE  /\ Since(ttl, history) \in [Ages -> Nat]
         /\ Since(ttl, history) \in [Ages -> Int]
         /\ IsFiniteSet(Ages) /\ 0 \in Ages
         /\ SumFunction(Since(ttl, history)) \in Nat
         /\ SumFunction(Since(ttl, history)) <= SumFunction(history)
  <1>1. IsFiniteSet(Ages) /\ 0 \in Ages
    BY FS_Interval DEF Ages
  <1>2. Since(ttl, history) \in [Ages -> Nat] /\ Since(ttl, history) \in [Ages -> Int]
    BY DEF Since
  <1>3. SumFunction(Since(ttl, history)) \in Nat
    BY <1>1, <1>2, SumNat
  <1>4. history \in [Ages -> Int]
    OBVIOUS
  <1>5. \A a \in Ages : Since(ttl, history)[a] <= history[a]
    BY DEF Since
  <1>6. SumFunction(Since(ttl, history)) <= SumFunction(history)
    BY ONLY <1>1, <1>2, <1>4, <1>5, SumMonotone
  <1> QED BY <1>1, <1>2, <1>3, <1>6

\* n more failures now are n more since the key was made, or as good as any more.
LEMMA RecordedCounts ==
  ASSUME recent \in [Ages -> 0..Threshold], NEW ttl \in 0..Window, NEW n \in Nat
  PROVE  \/ SumFunction(Since(ttl, Recorded(n))) = SumFunction(Since(ttl, recent)) + n
         \/ SumFunction(Since(ttl, Recorded(n))) >= Threshold
  <1> DEFINE old == Since(ttl, recent)
             new == Since(ttl, Recorded(n))
  <1>1. Recorded(n) \in [Ages -> 0..Threshold]
    BY RecordedType
  <1>2. /\ old \in [Ages -> Int] /\ new \in [Ages -> Nat] /\ new \in [Ages -> Int]
        /\ IsFiniteSet(Ages) /\ 0 \in Ages
        /\ SumFunction(old) \in Nat /\ SumFunction(new) \in Nat
    BY <1>1, SinceType
  <1>3. \A a \in Ages \ {0} : new[a] = old[a]
    BY DEF Since, Recorded, Ages
  <1>4. old[0] = recent[0] /\ new[0] = Recorded(n)[0] /\ recent[0] \in 0..Threshold
    BY <1>2 DEF Since
  <1>5. Recorded(n)[0] = recent[0] + n \/ Recorded(n)[0] = Threshold
    BY <1>2 DEF Recorded
  <1> HIDE DEF old, new
  <1>6. SumFunction(new) = SumFunction(old) - old[0] + new[0]
    BY ONLY <1>2, <1>3, SumChange
  <1>7. new[0] <= SumFunction(new)
    BY ONLY <1>2, SumPart
  <1> QED BY <1>2, <1>4, <1>5, <1>6, <1>7 DEF old, new

\* A tick makes the key and the failures it counts one tick older together.
LEMMA TickKeeps ==
  ASSUME TypeOK, Tick, failures.ttl > 1
  PROVE  SumFunction(Since(failures'.ttl, recent')) = SumFunction(Since(failures.ttl, recent))
  <1> DEFINE old  == Since(failures.ttl, recent)
             new  == Since(failures'.ttl, recent')
             next == [a \in Ages |-> IF a = Window - 1 THEN 0 ELSE a + 1]
  <1>1. failures.ttl \in 2..Window /\ failures'.ttl = failures.ttl - 1
    BY DEF TypeOK, Tick, Aged
  <1>2. recent \in [Ages -> 0..Threshold] /\ recent' \in [Ages -> 0..Threshold]
    BY NextTypeOK DEF TypeOK, Next
  <1>3. old \in [Ages -> Int] /\ new \in [Ages -> Int] /\ IsFiniteSet(Ages)
    BY <1>1, <1>2, SinceType
  <1>4. /\ next \in [Ages -> Ages]
        /\ \A x, y \in Ages : next[x] = next[y] => x = y
    BY DEF Ages
  <1>5. \A z \in Ages : \E x \in Ages : next[x] = z
    <2> SUFFICES ASSUME NEW z \in Ages PROVE \E x \in Ages : next[x] = z
      OBVIOUS
    <2>1. CASE z = 0
      <3>1. Window - 1 \in Ages /\ next[Window - 1] = 0
        BY DEF Ages
      <3> QED BY <2>1, <3>1
    <2>2. CASE z # 0
      <3>1. z - 1 \in Ages /\ z - 1 # Window - 1 /\ z - 1 + 1 = z
        BY <2>2 DEF Ages
      <3> QED BY <3>1
    <2> QED BY <2>1, <2>2
  <1>6. ASSUME NEW a \in Ages PROVE new[next[a]] = old[a]
    <2>1. CASE a = Window - 1
      <3>1. next[a] = 0 /\ 0 \in Ages
        BY <2>1 DEF Ages
      <3>2. recent'[0] = 0
        BY <3>1 DEF Tick
      <3>3. old[a] = 0
        BY <1>1, <2>1 DEF Since
      <3> QED BY <3>1, <3>2, <3>3 DEF Since
    <2>2. CASE a # Window - 1
      <3>1. next[a] = a + 1 /\ a + 1 \in Ages /\ a + 1 # 0 /\ a \in Int /\ a + 1 - 1 = a
        BY <2>2 DEF Ages
      <3>2. recent'[a + 1] = recent[a]
        BY <3>1 DEF Tick
      <3>3. (a + 1 <= Window - failures'.ttl) = (a <= Window - failures.ttl)
        BY <1>1, <3>1
      <3> QED BY <3>1, <3>2, <3>3 DEF Since
    <2> QED BY <2>1, <2>2
  <1> HIDE DEF old, new, next
  <1> QED BY <1>3, <1>4, <1>5, <1>6, SumReindex DEF old, new

\* A failure is counted in the key and among the recent ones at once, and both age together.
LEMMA NextCountInv == TypeOK /\ CountInv /\ [Next]_vars => CountInv'
  <1> SUFFICES ASSUME TypeOK, CountInv, [Next]_vars PROVE CountInv'
    OBVIOUS
  <1>a. /\ failures \in [count: Nat, ttl: 0..Window] /\ recent \in [Ages -> 0..Threshold]
        /\ failures' \in [count: Nat, ttl: 0..Window] /\ recent' \in [Ages -> 0..Threshold]
    BY NextTypeOK DEF TypeOK
  <1>b. /\ SumFunction(Since(failures.ttl, recent)) \in Nat
        /\ SumFunction(Since(failures'.ttl, recent')) \in Nat
    BY <1>a, SinceType
  <1>1. CASE failures'.count = 0
    BY <1>1, <1>b DEF CountInv
  <1>2. ASSUME NEW c \in Callers, RecordFailure(c) PROVE CountInv'
    <2>1. /\ failures' = IncrFailures /\ recent' = Recorded(1)
          /\ failures'.count = failures.count + 1 /\ failures'.ttl # 0
      BY <1>2, <1>a DEF RecordFailure, IncrFailures
    <2>2. CASE failures.ttl = 0
      <3>1. failures'.count = 1
        BY <1>a, <2>1, <2>2 DEF CountInv
      <3>2. SumFunction(Since(failures'.ttl, recent)) \in Nat
        BY <1>a, SinceType
      <3>3. \/ SumFunction(Since(failures'.ttl, recent')) = SumFunction(Since(failures'.ttl, recent)) + 1
            \/ SumFunction(Since(failures'.ttl, recent')) >= Threshold
        BY <1>a, <2>1, RecordedCounts
      <3> QED BY <1>b, <2>1, <3>1, <3>2, <3>3 DEF CountInv
    <2>3. CASE failures.ttl # 0
      <3>1. failures'.ttl = failures.ttl
        BY <1>a, <2>1, <2>3 DEF IncrFailures
      <3>2. \/ SumFunction(Since(failures.ttl, recent')) = SumFunction(Since(failures.ttl, recent)) + 1
            \/ SumFunction(Since(failures.ttl, recent')) >= Threshold
        BY <1>a, <2>1, RecordedCounts
      <3> QED BY <1>a, <1>b, <2>1, <3>1, <3>2 DEF CountInv
    <2> QED BY <2>2, <2>3
  <1>3. ASSUME NEW c \in Callers, RefillFailures(c) PROVE CountInv'
    <2>1. failures' = [count |-> Threshold, ttl |-> Window] /\ recent' = Recorded(Threshold)
      BY <1>3 DEF RefillFailures
    <2>2. SumFunction(Since(Window, recent)) \in Nat
      BY <1>a, SinceType
    <2>3. \/ SumFunction(Since(Window, recent')) = SumFunction(Since(Window, recent)) + Threshold
          \/ SumFunction(Since(Window, recent')) >= Threshold
      BY <1>a, <2>1, RecordedCounts
    <2>4. failures'.ttl = Window /\ Window # 0
      BY <2>1
    <2> QED BY <2>2, <2>3, <2>4, <1>b DEF CountInv
  <1>4. CASE Tick
    <2>1. CASE failures.ttl > 1
      <3>1. failures'.count = failures.count /\ failures'.ttl # 0
        BY <1>a, <1>4, <2>1 DEF Tick, Aged
      <3>2. SumFunction(Since(failures'.ttl, recent')) = SumFunction(Since(failures.ttl, recent))
        BY <1>4, <2>1, TickKeeps
      <3> QED BY <3>1, <3>2 DEF CountInv
    <2>2. CASE failures.ttl \in {0, 1}
      <3>1. failures'.count = 0
        BY <1>a, <1>4, <2>2 DEF Tick, Absent, CountInv
      <3> QED BY <1>1, <3>1
    <2> QED BY <1>a, <2>1, <2>2
  <1>5. CASE UNCHANGED <<failures, recent>>
    BY <1>5 DEF CountInv, Since
  <1>6. ASSUME DeleteAll PROVE CountInv'
    BY <1>1, <1>6 DEF DeleteAll, Absent
  <1> QED
    BY <1>2, <1>3, <1>4, <1>5, <1>6
       DEF Next, vars, ReadOpen, ReadFailures, AcquireProbe, RecordSuccess, RecordNeutral,
           Open, RecordProbeFailure, FreeProbe, RedisFault, Killed, Reset, CarrierTurns

\* Who decides to open the circuit has read a count of Threshold failures.
LEMMA OpeningCount ==
  ASSUME TypeOK, Next, NEW c \in Callers, at[c] # "opening", at'[c] = "opening"
  PROVE  failures'.count >= Threshold
  <1>1. ASSUME NEW d \in Callers, NEW p, Goes(d, p), p # "opening" PROVE FALSE
    BY <1>1 DEF Goes, TypeOK
  <1>2. ASSUME NEW d \in Callers, RecordFailure(d) PROVE failures'.count >= Threshold
    BY <1>1, <1>2 DEF RecordFailure
  <1>3. at' # at
    OBVIOUS
  <1> QED
    BY <1>1, <1>2, <1>3
       DEF Next, ReadOpen, ReadFailures, AcquireProbe, RecordSuccess, RecordNeutral,
           Open, RecordProbeFailure, RefillFailures, FreeProbe, RedisFault, Killed, Reset, Tick,
           CarrierTurns

\* Isolated failures never open the circuit: however records, resets and the clock
\* interleave, who decides to open it does so on Threshold failures of one window.
THEOREM OpensOnlyOnRecent == Spec => OpensOnRecentFailures
  <1> DEFINE Step == \A c \in Callers :
                at'[c] = "opening" /\ at[c] # "opening" => SumFunction(recent') >= Threshold
  <1>1. Init => CountInv
    <2> SUFFICES ASSUME Init PROVE CountInv
      OBVIOUS
    <2>1. failures.count = 0 /\ failures.ttl = 0 /\ recent \in [Ages -> 0..Threshold]
      BY DEF Init, Absent, None
    <2>2. SumFunction(Since(failures.ttl, recent)) \in Nat
      BY <2>1, SinceType
    <2> QED BY <2>1, <2>2 DEF CountInv
  <1>2. TypeOK /\ CountInv /\ [Next]_vars => [Step]_vars
    <2> SUFFICES ASSUME TypeOK, CountInv, Next, NEW c \in Callers,
                        at'[c] = "opening", at[c] # "opening"
                 PROVE  SumFunction(recent') >= Threshold
      BY DEF vars
    <2>1. failures'.count >= Threshold /\ CountInv' /\ TypeOK'
      BY OpeningCount, NextCountInv, NextTypeOK
    <2>2. /\ SumFunction(Since(failures'.ttl, recent')) \in Nat
          /\ SumFunction(Since(failures'.ttl, recent')) <= SumFunction(recent')
          /\ failures'.count \in Nat /\ SumFunction(recent') \in Int
      <3>1. recent' \in [Ages -> 0..Threshold] /\ failures' \in [count: Nat, ttl: 0..Window]
        BY <2>1 DEF TypeOK
      <3>2. recent' \in [Ages -> Int] /\ IsFiniteSet(Ages)
        BY <3>1, SinceType
      <3> QED BY <3>1, <3>2, SinceType, SumInt
    <2> QED BY <2>1, <2>2 DEF CountInv
  <1>3. TypeOK /\ CountInv /\ [Next]_vars => CountInv'
    BY NextCountInv
  <1> QED
    BY <1>1, <1>2, <1>3, TypeCorrect, PTL DEF Spec, OpensOnRecentFailures
=============================================================================
