----------------------------- MODULE QaseReport -----------------------------
(***************************************************************************)
(* src/pipelines/utilities/junit_to_qase.py: at the end of a pipeline the  *)
(* results of a report are sent to a test management service, which all    *)
(* pipelines share.  For each result the reporter looks for its suite and  *)
(* its case by name, adds what is missing, creates a test run of the       *)
(* cases, posts the results in batches and completes the run.  Nothing is  *)
(* retried: a request without the answer that is expected ends the script  *)
(* where it is, and a batch that is refused is only printed.               *)
(*                                                                         *)
(* The service's search finds titles that contain a name, in an order that *)
(* the code does not ask for.                                              *)
(***************************************************************************)
EXTENDS Naturals, Sequences, FiniteSets

CONSTANTS
    Reporters,
    Reports,       \* reports: sequences of tests, each a suite, a case and an outcome
    Titles,        \* titles of suites and cases
    TitleOf,       \* title of a case that is added: names over 128 characters are cut
    Matches,       \* titles that a search for a name finds
    BatchSize,     \* 199
    MaxFailures    \* bound: requests that fail

(* An "error" is a test with an error of its setup or teardown alone.      *)
Outcome == {"passed", "failed", "skipped", "error", "skippedSilently", "failedSilently"}

Bounds == /\ BatchSize \in Nat \ {0} /\ MaxFailures \in Nat
          /\ \A tests \in Reports :
                /\ tests \in Seq([suite : Titles, case : Titles, outcome : Outcome])
                /\ tests # <<>>
          /\ TitleOf \in [Titles -> Titles] /\ Matches \in [Titles -> SUBSET Titles]

VARIABLES
    suites, cases,  \* titles in the service; an id is the place in the sequence
    report,         \* each reporter's report
    reporter,       \* where it is: pc, result, ids it has found
    run,            \* its test run: results and whether it is complete
    refused,        \* history: a batch of the reporter was refused
    added,          \* history: names of cases the reporter has added a case for
    failures

vars == <<suites, cases, report, reporter, run, refused, added, failures>>

NoId == 0
Status == {"passed", "failed", "skipped"}
Result == [case : Nat, status : Status]

TypeOK ==
    /\ suites \in Seq(Titles) /\ cases \in Seq(Titles)
    /\ report \in [Reporters -> Reports]
    /\ reporter \in [Reporters ->
          [pc : {"collect", "getSuite", "addSuite", "getCase", "addCase", "run", "post",
                 "complete", "done", "raised"}, at : Nat, ids : Seq(Nat)]]
    /\ run \in [Reporters -> [created : BOOLEAN, results : Seq(Result), complete : BOOLEAN]]
    /\ refused \in [Reporters -> BOOLEAN]
    /\ added \in [Reporters -> Seq(Titles)] /\ failures \in 0 .. MaxFailures

Init == /\ suites = <<>> /\ cases = <<>>
        /\ report \in [Reporters -> Reports]
        /\ reporter = [r \in Reporters |-> [pc |-> "collect", at |-> 1, ids |-> <<>>]]
        /\ run = [r \in Reporters |-> [created |-> FALSE, results |-> <<>>, complete |-> FALSE]]
        /\ refused = [r \in Reporters |-> FALSE] /\ added = [r \in Reporters |-> <<>>]
        /\ failures = 0

Fails == failures < MaxFailures /\ failures' = failures + 1

Goto(r, pc) == reporter' = [reporter EXCEPT ![r].pc = pc]

(* A KeyError on an answer without a result, which nobody catches. *)
Raises(r) == /\ Fails /\ Goto(r, "raised")
             /\ UNCHANGED <<suites, cases, report, run, refused, added>>

Test(r) == report[r][reporter[r].at]

(* The next result of a loop over the results, or what follows the loop. *)
NextResult(r, pc, then, ids) ==
    LET last == reporter[r].at = Len(report[r]) IN
    reporter' = [reporter EXCEPT
       ![r] = [pc |-> IF last THEN then ELSE pc, at |-> IF last THEN 1 ELSE @.at + 1,
               ids |-> ids]]

-----------------------------------------------------------------------------
(***************************************************************************)
(* The report is read; a failure without a message is a TypeError.  An     *)
(* outcome is a message, and an empty one counts as none.  Nobody looks    *)
(* for errors.                                                             *)
(***************************************************************************)
collect_test_results(r) ==
    /\ reporter[r].pc = "collect"
    /\ Goto(r, IF \E k \in DOMAIN report[r] : report[r][k].outcome = "failedSilently"
               THEN "raised" ELSE "getSuite")
    /\ UNCHANGED <<suites, cases, report, run, refused, added, failures>>

StatusOf(outcome) ==
    CASE outcome = "skipped" -> "skipped"
      [] outcome = "failed" -> "failed"
      [] OTHER -> "passed"

(* What is no pass, and reported as one. *)
Overlooked == {"error", "skippedSilently"}

(* The ids that a search for the name may return first; none if nothing is found. *)
Search(entities, name) ==
    LET found == {id \in DOMAIN entities : entities[id] \in Matches[name]}
    IN IF found = {} THEN {NoId} ELSE found

get_suite_id(r) ==
    /\ reporter[r].pc = "getSuite"
    /\ \/ /\ \E id \in Search(suites, Test(r).suite) :
                IF id = NoId THEN Goto(r, "addSuite")
                ELSE NextResult(r, "getSuite", "getCase", <<>>)
          /\ UNCHANGED <<suites, cases, report, run, refused, added, failures>>
       \/ Raises(r)

add_missing_suite(r) ==
    /\ reporter[r].pc = "addSuite"
    /\ \/ /\ suites' = Append(suites, Test(r).suite)
          /\ NextResult(r, "getSuite", "getCase", <<>>)
          /\ UNCHANGED <<cases, report, run, refused, added, failures>>
       \/ Raises(r)

get_case_id(r) ==
    /\ reporter[r].pc = "getCase"
    /\ \/ /\ \E id \in Search(cases, Test(r).case) :
                IF id = NoId THEN Goto(r, "addCase")
                ELSE NextResult(r, "getCase", "run", Append(reporter[r].ids, id))
          /\ UNCHANGED <<suites, cases, report, run, refused, added, failures>>
       \/ Raises(r)

add_missing_case(r) ==
    /\ reporter[r].pc = "addCase"
    /\ \/ LET title == TitleOf[Test(r).case] IN
          /\ cases' = Append(cases, title)
          /\ added' = [added EXCEPT ![r] = Append(@, Test(r).case)]
          /\ NextResult(r, "getCase", "run", Append(reporter[r].ids, Len(cases) + 1))
          /\ UNCHANGED <<suites, report, run, refused, failures>>
       \/ Raises(r)

create_test_run(r) ==
    /\ reporter[r].pc = "run"
    /\ \/ /\ run' = [run EXCEPT ![r].created = TRUE]
          /\ Goto(r, "post")
          /\ UNCHANGED <<suites, cases, report, refused, added, failures>>
       \/ Raises(r)

(* Slip for Batch: it ends one result too late. *)
BatchOneMore(r) ==
    LET first == reporter[r].at
        last == IF first + BatchSize < Len(report[r]) THEN first + BatchSize ELSE Len(report[r])
    IN [k \in 1 .. last - first + 1 |->
          [case |-> reporter[r].ids[first + k - 1],
           status |-> StatusOf(report[r][first + k - 1].outcome)]]

(***************************************************************************)
(* One batch, from the result the loop is at: results i .. i + size of the *)
(* list, or to its end.  A refused batch is printed.                       *)
(***************************************************************************)
Batch(r) ==
    LET first == reporter[r].at
        last == IF first + BatchSize - 1 < Len(report[r])
                THEN first + BatchSize - 1 ELSE Len(report[r])
    IN [k \in 1 .. last - first + 1 |->
          [case |-> reporter[r].ids[first + k - 1],
           status |-> StatusOf(report[r][first + k - 1].outcome)]]

update_test_run_results(r) ==
    /\ reporter[r].pc = "post"
    /\ \/ /\ reporter[r].at <= Len(report[r])
          /\ \/ /\ run' = [run EXCEPT ![r].results = @ \o Batch(r)]
                /\ UNCHANGED <<refused, failures>>
             \/ Fails /\ refused' = [refused EXCEPT ![r] = TRUE] /\ UNCHANGED run
          /\ reporter' = [reporter EXCEPT ![r].at = @ + BatchSize]
          /\ UNCHANGED <<suites, cases, report, added>>
       \/ /\ reporter[r].at > Len(report[r])
          /\ Goto(r, "complete")
          /\ UNCHANGED <<suites, cases, report, run, refused, added, failures>>
       \/ reporter[r].at <= Len(report[r]) /\ Raises(r)

(* A refusal is printed here too. *)
complete_test_run(r) ==
    /\ reporter[r].pc = "complete"
    /\ \/ run' = [run EXCEPT ![r].complete = TRUE] /\ Goto(r, "done") /\ UNCHANGED failures
       \/ Fails /\ (\E pc \in {"done", "raised"} : Goto(r, pc)) /\ UNCHANGED run
    /\ UNCHANGED <<suites, cases, report, refused, added>>

Next == \E r \in Reporters :
           \/ collect_test_results(r)
           \/ get_suite_id(r) \/ add_missing_suite(r)
           \/ get_case_id(r) \/ add_missing_case(r)
           \/ create_test_run(r) \/ update_test_run_results(r) \/ complete_test_run(r)

Spec == Init /\ [][Next]_vars

(***************************************************************************)
(* A run that is complete has every result of its report, once and under a *)
(* case whose title the search for its name finds, unless a batch was      *)
(* refused.  A result is the test's outcome, except that tests with an     *)
(* error and those that were skipped without a message are reported as     *)
(* passed.  A case whose name was cut is the one exception to the title:   *)
(* it is added, and never found.                                           *)
(***************************************************************************)
CompleteRunHasAllResults ==
    \A r \in Reporters :
       run[r].complete /\ ~refused[r] =>
          /\ Len(run[r].results) = Len(report[r])
          /\ \A k \in DOMAIN report[r] :
                LET test == report[r][k]
                    title == cases[run[r].results[k].case] IN
                /\ title \in Matches[test.case] \cup {TitleOf[test.case]}
                /\ run[r].results[k].status = IF test.outcome \in Overlooked
                                               THEN "passed" ELSE test.outcome

(***************************************************************************)
(* However often a case is in a report, and whatever other reporters add   *)
(* meanwhile, a reporter adds it at most once, if the search finds the     *)
(* title it adds by the name: parametrized tests share one case.           *)
(***************************************************************************)
CasesAreAddedOnce ==
    \A r \in Reporters : \A i, j \in DOMAIN added[r] :
       LET name == added[r][i] IN
       added[r][j] = name /\ TitleOf[name] \in Matches[name] => i = j
=============================================================================
