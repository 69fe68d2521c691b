---------------------------- MODULE MC_Pipelines ----------------------------
(***************************************************************************)
(* The scripts around the tests: the scalability test with its monitor,    *)
(* the report to Qase and the environment of the engine's tests.  Each is  *)
(* explored on its own.                                                    *)
(*                                                                         *)
(* The run has two nodes and pods, two runs of the scalability test, so    *)
(* that one may resume the other's data.  Two reporters whose reports      *)
(* share a suite and cases: names that other titles contain, one that is   *)
(* cut, more results than a batch has.  Two jobs, each with two hosts,     *)
(* that use one label for their keys, two attempts of a request and two    *)
(* that fail.                                                              *)
(***************************************************************************)
EXTENDS Naturals

CONSTANTS Nodes, Pods, MaxCrashing, Count, MaxRuns, ScaleErrors, MaxReplaced,
          Reporters, Reports, Titles, TitleOf, Matches, BatchSize, MaxFailures,
          Jobs, Hosts, Attempts, SetupErrors

VARIABLES part,
          sts, pod, file, script, data, runs, errors, replaced,
          suites, cases, report, reporter, run, refused, added, failures,
          key, server, device, inFlight, job, worker, fileWritten, lost, errorsSeen

S == INSTANCE ScaleTest WITH MaxErrors <- ScaleErrors
Q == INSTANCE QaseReport
R == INSTANCE RancherSetup WITH MaxErrors <- SetupErrors

ASSUME ScaleBounds == S!Bounds
ASSUME ReportBounds == Q!Bounds
ASSUME SetupBounds == R!Bounds

(* Names, of which "long" is cut and "a" is contained in "ab".             *)
SomeTitles == {"s", "a", "ab", "long", "cut"}
LongIsCut == [n \in SomeTitles |-> IF n = "long" THEN "cut" ELSE n]
Containing == [n \in SomeTitles |-> IF n = "a" THEN {"a", "ab"} ELSE {n}]

Tested(case, outcome) == [suite |-> "s", case |-> case, outcome |-> outcome]
SomeReports ==
   {<<Tested("a", "passed"), Tested("ab", "failed"), Tested("a", "skippedSilently")>>,
    <<Tested("ab", "skipped"), Tested("long", "error"), Tested("long", "passed")>>,
    <<Tested("a", "failedSilently")>>}

scale == <<sts, pod, file, script, data, runs, errors, replaced>>
qase == <<suites, cases, report, reporter, run, refused, added, failures>>
rancher == <<key, server, device, inFlight, job, worker, fileWritten, lost, errorsSeen>>
vars == <<part, scale, qase, rancher>>

Init == /\ part \in {"scale", "qase", "rancher"}
        /\ S!Init /\ Q!Init /\ R!Init
        /\ part # "qase" => \A r \in Reporters : report[r] = CHOOSE any \in Reports : TRUE

Next == \/ part = "scale" /\ S!Next /\ UNCHANGED <<part, qase, rancher>>
        \/ part = "qase" /\ Q!Next /\ UNCHANGED <<part, scale, rancher>>
        \/ part = "rancher" /\ R!Next /\ UNCHANGED <<part, scale, qase>>

Spec == Init /\ [][Next]_vars

TypeOK == S!TypeOK /\ Q!TypeOK /\ R!TypeOK

(* scale-test.py "all" and monitor.py: what is monitored has been scaled,  *)
(* also after an earlier run broke off, and the starting point is the      *)
(* first, also when the data were resumed.                                 *)
MeasuredFromTheStart == S!MonitoredIsScaled /\ S!PointIsTheFirst

(* junit_to_qase.py: a complete run has every result once, with an error   *)
(* or a silent skip as a pass, and no case is added twice by a reporter    *)
(* that finds what it adds.                                                *)
CompleteRunHasAllResults == Q!CompleteRunHasAllResults /\ Q!CasesAreAddedOnce

(* setupRancher.py: the property file is written when all hosts are        *)
(* registered, if no request failed and no other job changed the key.      *)
(* teardownRancher.py: no machine of the job is left but those it could    *)
(* not delete or not see.                                                  *)
MachinesAreAccountedFor == R!FileMeansRegistered /\ R!TeardownLeavesNothing
=============================================================================
