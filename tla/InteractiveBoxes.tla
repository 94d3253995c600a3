-------------------------- MODULE InteractiveBoxes ---------------------------
(***************************************************************************)
(* Interactive tests over the box pool: each test of                       *)
(* _run_interactive_test_via_proxy (camisole.models) needs two boxes, and  *)
(* `async with user_isolator, judge_isolator` takes the second one while   *)
(* it holds the first.  Tests of several requests run concurrently.  What  *)
(* the two programs do meanwhile is the matter of InteractiveProxy.        *)
(***************************************************************************)
EXTENDS BoxPool

CONSTANT Test    \* the tests that may run at the same time

user(t) == <<t, "user">>
judge(t) == <<t, "judge">>

ASSUME TestAssumption == IsFiniteSet(Test) /\ Isolator = Test \X {"user", "judge"}

-----------------------------------------------------------------------------
EnterUser(t) == Enter(user(t))

\* The second __aenter__ runs once the first one has returned.
EnterJudge(t) == pc[user(t)] = "body" /\ Enter(judge(t))

\* The proxy's run is over, or something in the block raised.
ExitJudge(t) == Exit(judge(t)) \/ ExitRaises(judge(t))

ExitUserWhenJudgeDone(t) == /\ pc[judge(t)] = "done"
                            /\ Exit(user(t)) \/ ExitRaises(user(t))

ExitUserUnlessJudgeRefused(t) ==
  /\ pc[judge(t)] \in Ended
  /\ IF pc[judge(t)] = "exhausted" THEN ExitSkipsCleanup(user(t))
                                   ELSE Exit(user(t)) \/ ExitRaises(user(t))

\* The user's box is left last, also when the judge's could not be entered or
\* could not be left.
ExitUser(t) == /\ pc[judge(t)] \in Ended
               /\ Exit(user(t)) \/ ExitRaises(user(t))

\* The next test of the request takes two fresh Isolators.
NextTest(t) == /\ pc[user(t)] \in Ended
               /\ IF pc[judge(t)] = "new" THEN Again(user(t)) ELSE Again(judge(t))

Answered(t) == \E i \in {user(t), judge(t)} : InitDone(i) \/ CleanupDone(i)

TestStep(t) == \/ EnterUser(t) \/ EnterJudge(t) \/ Answered(t)
               \/ ExitJudge(t) \/ ExitUser(t) \/ NextTest(t)

Commanded == \E c \in cmds : RunInit(c) \/ RunCleanup(c)

TestsNext == (\E t \in Test : TestStep(t)) \/ Commanded \/ Crash

\* The event loop runs every ready coroutine, isolate's commands end, and so
\* does the proxy, by its own timeout at the latest.
TestsFairness ==
  /\ WF_vars(Commanded)
  /\ \A t \in Test : /\ WF_vars(EnterUser(t)) /\ WF_vars(EnterJudge(t))
                     /\ WF_vars(Answered(t))
                     /\ WF_vars(ExitJudge(t)) /\ WF_vars(ExitUser(t))

TestsSpec == Init /\ [][TestsNext]_vars
FairTestsSpec == TestsSpec /\ TestsFairness

-----------------------------------------------------------------------------
\* One of its two boxes was refused to the test.
Starved(t) == pc[user(t)] = "exhausted" \/ pc[judge(t)] = "exhausted"

Active(t) == pc[user(t)] \notin {"new"} \cup Ended

(* models.py:770: tests that hold one box while they ask for another never
   starve each other entirely: when each runs once and nothing else fails, a
   test is refused a box only if at least as many others as there are boxes
   in excess of the tests are served; with two boxes for each, none is. *)
EnoughServed ==
  (faults = 0 /\ epoch = 0 /\ reuses = 0) =>
    \A t \in Test : Starved(t) =>
      Cardinality({s \in Test : ~ Starved(s)}) >= Cardinality(Box) - Cardinality(Test)

(* models.py:770, isolate.py:215-229: both boxes are given back whichever of
   the two was refused: when nothing failed, every box that exists belongs to
   a test that is still running. *)
NothingKept ==
  (faults = 0 /\ epoch = 0) =>
    \A b \in dirs : \E t \in Test : Active(t) /\ b \in {box[user(t)], box[judge(t)]}

(* models.py:764-991: taking two boxes never ends in a deadlock: every test
   comes to its end, with both boxes, with a refusal or with an error. *)
TestsEnd == \A t \in Test : []<>(pc[user(t)] \in Ended)
=============================================================================
