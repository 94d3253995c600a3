----------------------- MODULE InteractiveBoxesProofs ------------------------
(***************************************************************************)
(* Interactive tests use the pool as any other coroutines do, so what      *)
(* BoxPool guarantees holds for them, however many there are; what they    *)
(* owe to the nesting of their two boxes is proved here.                   *)
(***************************************************************************)
EXTENDS InteractiveBoxes, BoxPoolProofs

LEMMA TestIsolators ==
  ASSUME NEW t \in Test
  PROVE  user(t) \in Isolator /\ judge(t) \in Isolator
BY TestAssumption DEF user, judge

LEMMA TestStepIsPoolStep ==
  ASSUME NEW t \in Test, TestStep(t)
  PROVE  Next
<1>1. user(t) \in Isolator /\ judge(t) \in Isolator
  BY TestIsolators
<1>2. CASE EnterUser(t)
  BY <1>1, <1>2 DEF EnterUser, Next
<1>3. CASE EnterJudge(t)
  BY <1>1, <1>3 DEF EnterJudge, Next
<1>4. CASE Answered(t)
  BY <1>1, <1>4 DEF Answered, Next
<1>5. CASE ExitJudge(t)
  BY <1>1, <1>5 DEF ExitJudge, Next
<1>6. CASE ExitUser(t)
  BY <1>1, <1>6 DEF ExitUser, Next
<1>7. CASE NextTest(t)
  BY <1>1, <1>7 DEF NextTest, Next
<1> QED
  BY <1>2, <1>3, <1>4, <1>5, <1>6, <1>7 DEF TestStep

(* models.py:770: entering two Isolators in a row, and leaving them in the
   reverse order, is a behaviour of the pool with twice as many coroutines. *)
THEOREM TestsUseThePool == TestsSpec => Spec
<1>1. TestsNext => Next
  BY TestStepIsPoolStep DEF TestsNext, Commanded, Next
<1>2. [TestsNext]_vars => [Next]_vars
  BY <1>1
<1> QED
  BY <1>2, PTL DEF TestsSpec, Spec

(* isolate.py:134-149: the programs of interactive tests never share a box,
   neither the two of one test nor those of different tests. *)
THEOREM TestsExclusive == TestsSpec => []BoxExclusive
BY TestsUseThePool, PoolExclusive, PTL

-----------------------------------------------------------------------------
(* The order in which a test holds its two boxes.                           *)

\* The judge has its box only inside the block that holds the user's, and in
\* its first test it begins only there.
Nested ==
  \A t \in Test :
    /\ pc[judge(t)] \in {"init", "body", "cleanup"} => pc[user(t)] = "body"
    /\ OneShot /\ pc[judge(t)] # "new" => pc[user(t)] \in {"body", "cleanup", "done", "failed"}

LEMMA TestsDiffer ==
  ASSUME NEW s \in Test, NEW t \in Test
  PROVE  /\ user(s) # judge(t)
         /\ user(s) = user(t) => s = t
         /\ judge(s) = judge(t) => s = t
BY DEF user, judge

\* What a step of one coroutine does to the place where it is.
LEMMA PlacesMove ==
  ASSUME PoolInv, NEW i \in Isolator,
         Enter(i) \/ InitDone(i) \/ Exit(i) \/ ExitRaises(i) \/ CleanupDone(i) \/ Again(i)
  PROVE  /\ \A j \in Isolator \ {i} : pc'[j] = pc[j]
         /\ Enter(i) => pc[i] = "new" /\ pc'[i] \in {"init", "exhausted"}
         /\ InitDone(i) => pc[i] = "init" /\ pc'[i] \in {"init", "body", "exhausted", "failed"}
         /\ Exit(i) => pc[i] = "body" /\ pc'[i] = "cleanup"
         /\ ExitRaises(i) => pc[i] = "body" /\ pc'[i] = "failed"
         /\ CleanupDone(i) => pc[i] = "cleanup" /\ pc'[i] \in {"done", "failed"}
         /\ Again(i) => pc[i] \in Ended /\ pc'[i] = "new" /\ reuses' = reuses + 1
BY DEF PoolInv, TypeOK, Enter, InitDone, Exit, ExitRaises, CleanupDone, Again, Probe, StartInit, GiveUp

LEMMA NestedStep == PoolInv /\ Nested /\ [TestsNext]_vars => Nested'
<1> SUFFICES ASSUME PoolInv, Nested, [TestsNext]_vars PROVE Nested'
  OBVIOUS
<1>1. OneShot' => OneShot
  <2>1. [Next]_vars
    BY TestStepIsPoolStep DEF TestsNext, Commanded, Next
  <2> QED BY <2>1, OneShotBefore
<1>2. ASSUME NEW t \in Test, TestStep(t) PROVE Nested'
  <2> DEFINE u == user(t)
             j == judge(t)
  <2>1. u \in Isolator /\ j \in Isolator /\ u # j
    BY TestIsolators, TestsDiffer
  <2>2. /\ pc[j] \in {"init", "body", "cleanup"} => pc[u] = "body"
        /\ OneShot /\ pc[j] # "new" => pc[u] \in {"body", "cleanup", "done", "failed"}
    BY DEF Nested
  <2>3. reuses \in Nat
    BY PoolAssumption DEF PoolInv, TypeOK
  <2>4. ASSUME NEW s \in Test, s # t, \A i \in Isolator \ {u, j} : pc'[i] = pc[i]
        PROVE  pc'[user(s)] = pc[user(s)] /\ pc'[judge(s)] = pc[judge(s)]
    <3>1. user(s) \in Isolator \ {u, j} /\ judge(s) \in Isolator \ {u, j}
      BY <2>4, TestIsolators, TestsDiffer
    <3> QED BY <2>4, <3>1
  <2> HIDE DEF u, j
  <2>5. \/ Enter(u) \/ Exit(u) \/ ExitRaises(u) \/ Again(u) \/ InitDone(u) \/ CleanupDone(u)
        \/ Enter(j) \/ Exit(j) \/ ExitRaises(j) \/ Again(j) \/ InitDone(j) \/ CleanupDone(j)
    BY <1>2 DEF TestStep, EnterUser, EnterJudge, Answered, ExitJudge, ExitUser, NextTest, u, j
  <2>6. \A i \in Isolator \ {u, j} : pc'[i] = pc[i]
    BY <2>1, <2>5, PlacesMove
  <2>7. /\ pc'[j] \in {"init", "body", "cleanup"} => pc'[u] = "body"
        /\ OneShot' /\ pc'[j] # "new" => pc'[u] \in {"body", "cleanup", "done", "failed"}
    <3>1. CASE Enter(u)
      BY <1>1, <2>1, <2>2, <3>1, PlacesMove
    <3>2. CASE InitDone(u)
      BY <1>1, <2>1, <2>2, <3>2, PlacesMove
    <3>3. CASE Exit(u) \/ ExitRaises(u)
      <4>1. pc[j] \in Ended
        <5>1. pc[u] = "body"
          BY <3>3 DEF Exit, ExitRaises
        <5>2. pc'[u] # "body" /\ pc'[j] = pc[j]
          BY <2>1, <3>3, PlacesMove
        <5>3. ~ EnterUser(t)
          BY <5>1 DEF EnterUser, Enter, u
        <5>4. ~ EnterJudge(t) /\ ~ ExitJudge(t)
          <6>1. Enter(j) => pc'[u] = pc[u]
            BY <2>1, PlacesMove
          <6>2. Exit(j) \/ ExitRaises(j) => pc'[u] = pc[u]
            BY <2>1, PlacesMove
          <6> QED BY <5>1, <5>2, <6>1, <6>2 DEF EnterJudge, ExitJudge, j
        <5>5. ~ Answered(t)
          <6>1. ~ InitDone(u) /\ ~ CleanupDone(u)
            BY <5>1 DEF InitDone, CleanupDone
          <6>2. InitDone(j) \/ CleanupDone(j) => pc'[u] = pc[u]
            BY <2>1, PlacesMove
          <6> QED BY <5>1, <5>2, <6>1, <6>2 DEF Answered, u, j
        <5>6. ~ NextTest(t)
          BY <5>1 DEF NextTest, Ended, u
        <5> QED BY <1>2, <5>3, <5>4, <5>5, <5>6 DEF TestStep, ExitUser, j
      <4> QED BY <2>1, <3>3, <4>1, PlacesMove DEF Ended
    <3>4. CASE CleanupDone(u)
      BY <1>1, <2>1, <2>2, <3>4, PlacesMove
    <3>5. CASE Again(u)
      <4>1. ~ OneShot'
        BY <2>1, <2>3, <3>5, PlacesMove DEF OneShot
      <4> QED BY <2>1, <2>2, <3>5, <4>1, PlacesMove DEF Ended
    <3>6. CASE Enter(j)
      <4>1. pc[u] = "body"
        <5>1. pc'[u] = pc[u] /\ pc[j] = "new" /\ pc'[j] # "new"
          BY <2>1, <3>6, PlacesMove
        <5>2. ~ EnterUser(t)
          <6>1. ~ Enter(u)
            BY <2>1, <5>1, PlacesMove
          <6> QED BY <6>1 DEF EnterUser, u
        <5>3. ~ ExitJudge(t) /\ ~ ExitUser(t)
          BY <5>1 DEF ExitJudge, ExitUser, Exit, ExitRaises, Ended, j
        <5>4. ~ Answered(t)
          <6>1. ~ InitDone(j) /\ ~ CleanupDone(j)
            BY <5>1 DEF InitDone, CleanupDone
          <6>2. InitDone(u) => pc'[j] = pc[j]
            BY <2>1, PlacesMove
          <6>3. CleanupDone(u) => pc'[j] = pc[j]
            BY <2>1, PlacesMove
          <6> QED BY <5>1, <6>1, <6>2, <6>3 DEF Answered, u, j
        <5>5. ~ NextTest(t)
          <6>1. ~ Again(j)
            BY <5>1 DEF Again, Ended
          <6>2. Again(u) => pc'[j] = pc[j]
            BY <2>1, PlacesMove
          <6> QED BY <5>1, <6>1, <6>2 DEF NextTest, u, j
        <5> QED BY <1>2, <5>2, <5>3, <5>4, <5>5 DEF TestStep, EnterJudge, u
      <4> QED BY <2>1, <3>6, <4>1, PlacesMove
    <3>7. CASE InitDone(j)
      BY <1>1, <2>1, <2>2, <3>7, PlacesMove
    <3>8. CASE Exit(j) \/ ExitRaises(j)
      BY <1>1, <2>1, <2>2, <3>8, PlacesMove
    <3>9. CASE CleanupDone(j)
      BY <1>1, <2>1, <2>2, <3>9, PlacesMove
    <3>10. CASE Again(j)
      BY <2>1, <3>10, PlacesMove
    <3> QED BY <2>5, <3>1, <3>2, <3>3, <3>4, <3>5, <3>6, <3>7, <3>8, <3>9, <3>10
  <2> QED BY <1>1, <2>4, <2>6, <2>7 DEF Nested, u, j
<1>3. CASE Commanded
  <2>1. pc' = pc
    BY <1>3 DEF Commanded, RunInit, RunCleanup, Finish
  <2> QED BY <1>1, <2>1 DEF Nested
<1>4. CASE Crash
  <2>1. \A t \in Test : pc'[judge(t)] = "new"
    BY <1>4, TestIsolators DEF Crash
  <2> QED BY <2>1 DEF Nested
<1>5. CASE UNCHANGED vars
  BY <1>1, <1>5 DEF vars, Nested
<1> QED BY <1>2, <1>3, <1>4, <1>5 DEF TestsNext

(* models.py:770: the judge's box is entered and left inside the block that
   holds the user's. *)
THEOREM TestsNested == TestsSpec => []Nested
<1>1. Init => Nested
  BY TestIsolators DEF Init, Nested
<1>2. TestsSpec => []PoolInv
  BY TestsUseThePool, PoolInvariant, PTL
<1> QED BY <1>1, <1>2, NestedStep, PTL DEF TestsSpec

(* models.py:770, isolate.py:215-229: when nothing failed, every box that
   exists belongs to a test that is still running, whichever of its two boxes
   another one was refused. *)
THEOREM TestsKeepNothing == TestsSpec => []NothingKept
<1>1. PoolInv /\ LeakBounded /\ Nested => NothingKept
  <2> SUFFICES ASSUME PoolInv, LeakBounded, Nested, faults = 0, epoch = 0, NEW b \in dirs
               PROVE  \E t \in Test : Active(t) /\ b \in {box[user(t)], box[judge(t)]}
    BY DEF NothingKept
  <2>1. dirs \ Held = {}
    <3>1. dirs \ Held \in SUBSET Box
      BY DEF PoolInv, TypeOK
    <3>2. IsFiniteSet(dirs \ Held) /\ Cardinality(dirs \ Held) \in Nat
      BY <3>1, PoolAssumption, FS_Subset, FS_CardinalityType
    <3>3. Cardinality(Isolator) \in Nat
      BY PoolAssumption, FS_CardinalityType
    <3>4. Cardinality(dirs \ Held) = 0
      BY <3>2, <3>3 DEF LeakBounded
    <3> QED BY <3>2, <3>4, FS_EmptySet
  <2>2. PICK i \in Isolator : Holding(i) /\ box[i] = b
    BY <2>1 DEF Held, Holds
  <2>3. PICK t \in Test : i \in {user(t), judge(t)}
    BY TestAssumption DEF user, judge
  <2>4. pc[i] \in {"init", "body", "cleanup"}
    BY <2>2 DEF Holding
  <2>5. Active(t)
    BY <2>3, <2>4 DEF Nested, Active, Ended
  <2> QED BY <2>2, <2>3, <2>5
<1>2. TestsSpec => [](PoolInv /\ LeakBounded)
  BY TestsUseThePool, PoolInvariant, PoolLeaks, PTL
<1> QED BY <1>1, <1>2, TestsNested, PTL

-----------------------------------------------------------------------------
(* EnoughServed: a test that was refused a box keeps one box of the pool at  *)
(* most, one that was not keeps two.                                         *)

Served == {s \in Test : ~ Starved(s)}

\* As many users as tests, as many judges as tests served.
LEMMA Owners ==
  /\ IsFiniteSet({user(s) : s \in Test} \cup {judge(s) : s \in Served})
  /\ Cardinality({user(s) : s \in Test} \cup {judge(s) : s \in Served})
       <= Cardinality(Test) + Cardinality(Served)
  /\ IsFiniteSet(Served) /\ Cardinality(Test) \in Nat /\ Cardinality(Served) \in Nat
<1> DEFINE U == {user(s) : s \in Test}
           J == {judge(s) : s \in Served}
           f == [s \in Test |-> user(s)]
           g == [s \in Served |-> judge(s)]
<1>1. IsFiniteSet(Test) /\ IsFiniteSet(Served)
  <2>1. Served \in SUBSET Test
    BY DEF Served
  <2> QED BY <2>1, TestAssumption, FS_Subset
<1>2. IsFiniteSet(U) /\ Cardinality(U) <= Cardinality(Test)
  <2>1. f \in Surjection(Test, U)
    BY DEF Surjection
  <2> HIDE DEF f, U
  <2> QED BY <1>1, <2>1, FS_Surjection
<1>3. IsFiniteSet(J) /\ Cardinality(J) <= Cardinality(Served)
  <2>1. g \in Surjection(Served, J)
    BY DEF Surjection
  <2> HIDE DEF g, J
  <2> QED BY <1>1, <2>1, FS_Surjection
<1> HIDE DEF U, J
<1>4. /\ IsFiniteSet(U \cup J) /\ IsFiniteSet(U \cap J)
      /\ Cardinality(U \cup J) = Cardinality(U) + Cardinality(J) - Cardinality(U \cap J)
  BY <1>2, <1>3, FS_Union, FS_Intersection, Zenon
<1>5. /\ Cardinality(U) \in Nat /\ Cardinality(J) \in Nat /\ Cardinality(U \cap J) \in Nat
      /\ Cardinality(Test) \in Nat /\ Cardinality(Served) \in Nat
  BY <1>1, <1>2, <1>3, <1>4, FS_CardinalityType
<1>6. Cardinality(U \cup J) <= Cardinality(Test) + Cardinality(Served)
  BY <1>2, <1>3, <1>4, <1>5
<1> QED BY <1>1, <1>4, <1>5, <1>6 DEF U, J

\* Behind a refusal every box is claimed, and by no more owners than that.
LEMMA ClaimsServe == PoolInv /\ ClaimInv /\ Nested => EnoughServed
<1> SUFFICES ASSUME PoolInv, ClaimInv, Nested, OneShot, NEW t \in Test, Starved(t)
             PROVE  Cardinality(Served) >= Cardinality(Box) - Cardinality(Test)
  BY DEF EnoughServed, OneShot, Served
<1>1. PICK i \in Isolator : pc[i] = "exhausted"
  BY TestIsolators DEF Starved
<1>2. \A b \in Box : \E j \in Isolator : Claimed(j, b)
  BY <1>1 DEF ClaimInv, Dropped
<1>3. ASSUME NEW s \in Test, NEW b \in Box, Starved(s)
      PROVE  ~ Claimed(judge(s), b)
  <2>1. CASE pc[judge(s)] = "exhausted"
    BY <2>1 DEF Claimed
  <2>2. CASE pc[user(s)] = "exhausted"
    <3>1. pc[judge(s)] = "new"
      BY <2>2 DEF Nested
    <3> QED BY <3>1 DEF Claimed
  <2> QED BY <1>3, <2>1, <2>2 DEF Starved
<1> DEFINE owners == {user(s) : s \in Test} \cup {judge(s) : s \in Served}
           f == [b \in Box |-> CHOOSE j \in Isolator : Claimed(j, b)]
<1>4. \A b \in Box : f[b] \in Isolator /\ Claimed(f[b], b)
  BY <1>2
<1>5. ASSUME NEW b \in Box PROVE f[b] \in owners
  <2> DEFINE j == f[b]
  <2>1. j \in Isolator /\ Claimed(j, b)
    BY <1>4
  <2> HIDE DEF f, j
  <2>2. PICK s \in Test : j \in {user(s), judge(s)}
    BY <2>1, TestAssumption DEF user, judge
  <2>3. j = judge(s) => s \in Served
    BY <1>3, <2>1 DEF Served
  <2>4. j \in owners
    BY <2>2, <2>3
  <2> QED BY <2>4 DEF j
<1>6. \A a, b \in Box : f[a] = f[b] => a = b
  BY <1>4 DEF Claimed
<1>7. f \in [Box -> owners]
  BY <1>5
<1> HIDE DEF f, owners
<1>8. f \in Injection(Box, owners)
  BY <1>6, <1>7 DEF Injection, IsInjective
<1>9. IsFiniteSet(owners) /\ Cardinality(owners) <= Cardinality(Test) + Cardinality(Served)
  BY Owners DEF owners
<1>10. Cardinality(Box) <= Cardinality(owners)
  BY <1>8, <1>9, FS_Injection
<1>11. Cardinality(Box) \in Nat /\ Cardinality(owners) \in Nat
  BY <1>9, PoolAssumption, FS_CardinalityType
<1> QED BY <1>9, <1>10, <1>11, Owners

(* models.py:770: tests that hold one box while they ask for another do not
   starve each other entirely, for any number of tests and boxes; with two
   boxes for each test none is refused. *)
THEOREM TestsServed == TestsSpec => []EnoughServed
<1>1. Init => ClaimInv
  BY DEF Init, ClaimInv
<1>2. Spec => [](PoolInv /\ ClaimInv)
  BY <1>1, InitInv, NextInv, NextClaims, PTL DEF Spec
<1> QED BY <1>2, TestsUseThePool, TestsNested, ClaimsServe, PTL
=============================================================================
