------------------------------ MODULE Contest ------------------------------
(***************************************************************************)
(* contest/test.h and test.cpp: the unit tests.  Every TEST registers,     *)
(* before main, one case for each of its types and each of its parameters; *)
(* run_all_cases runs the cases one by one with a report of their own, and *)
(* counts the cases in which an expectation failed.  (A test without types *)
(* is registered over void.)  An expectation that fails does not end its   *)
(* case; test_main returns 0 whatever has failed.                          *)
(***************************************************************************)
EXTENDS Integers, Sequences, FiniteSets

CONSTANTS
  Tests,          \* sequence of [types, params]: how many of each
  MaxExpects      \* bound: the expectations a case evaluates

ASSUME ContestAssumption ==
  Tests \in Seq([types : Nat, params : Nat]) /\ MaxExpects \in Nat

VARIABLES
  cases,          \* get_cases(): <<test, type, parameter>>
  registering,    \* how many tests have been registered; then the cases run
  current,        \* the case that runs, 0 before the first
  report,         \* its ReportHandle
  tally,          \* total, passed and failed of run_all_cases
  outcomes        \* history: for each case run, its expectations

contestVars == <<cases, registering, current, report, tally, outcomes>>

NoReport == [fail_count |-> 0, pass_count |-> 0]

ContestInit ==
  /\ cases = <<>> /\ registering = 0 /\ current = 0
  /\ report = NoReport
  /\ tally = [total |-> 0, passed |-> 0, failed |-> 0]
  /\ outcomes = <<>>

(* register_helper: over the types (void if there are none), and for each  *)
(* over the parameters.                                                    *)
CasesOf(t) ==
  LET types == IF Tests[t].types = 0 THEN 1 ELSE Tests[t].types
      params == Tests[t].params
  IN [c \in 1..types * params |-> <<t, ((c - 1) \div params) + 1, ((c - 1) % params) + 1>>]

Register ==
  /\ registering < Len(Tests)
  /\ registering' = registering + 1
  /\ cases' = cases \o CasesOf(registering + 1)
  /\ UNCHANGED <<current, report, tally, outcomes>>

Running == registering = Len(Tests) /\ current \in 1..Len(cases)

(* Faulty variant: the report is declared outside the loop.                *)
StartCaseSameReport ==
  /\ registering = Len(Tests) /\ current = 0 /\ tally.total < Len(cases)
  /\ current' = tally.total + 1
  /\ outcomes' = Append(outcomes, <<>>)
  /\ UNCHANGED <<cases, registering, report, tally>>

StartCase ==
  /\ registering = Len(Tests) /\ current = 0 /\ tally.total < Len(cases)
  /\ current' = tally.total + 1
  /\ report' = NoReport
  /\ outcomes' = Append(outcomes, <<>>)
  /\ UNCHANGED <<cases, registering, tally>>

(* expects: report_pass or report_fail.                                    *)
Expects(value) ==
  /\ Running
  /\ Len(outcomes[current]) < MaxExpects
  /\ report' = IF value THEN [report EXCEPT !.pass_count = @ + 1]
                        ELSE [report EXCEPT !.fail_count = @ + 1]
  /\ outcomes' = [outcomes EXCEPT ![current] = Append(@, value)]
  /\ UNCHANGED <<cases, registering, current, tally>>

EndCase ==
  /\ Running
  /\ tally' = [tally EXCEPT !.total = @ + 1,
                            !.failed = IF report.fail_count > 0 THEN @ + 1 ELSE @,
                            !.passed = IF report.fail_count > 0 THEN @ ELSE @ + 1]
  /\ current' = 0
  /\ UNCHANGED <<cases, registering, report, outcomes>>

ContestNext ==
  Register \/ StartCase \/ EndCase \/ \E value \in BOOLEAN : Expects(value)

ContestSpec == ContestInit /\ [][ContestNext]_contestVars

-----------------------------------------------------------------------------
(* Property                                                                *)

(* When the run is over every combination of a test, one of its types and  *)
(* one of its parameters has been run once, and a case counts as failed    *)
(* exactly if an expectation of its own failed, whatever other cases did.  *)
CasesTallied ==
  (registering = Len(Tests) /\ current = 0 /\ tally.total = Len(cases)) =>
    /\ Len(outcomes) = Len(cases)
    /\ \A t \in 1..Len(Tests) :
         \A type \in 1..(IF Tests[t].types = 0 THEN 1 ELSE Tests[t].types) :
           \A param \in 1..Tests[t].params :
             Cardinality({c \in DOMAIN cases : cases[c] = <<t, type, param>>}) = 1
    /\ tally.failed = Cardinality({c \in DOMAIN outcomes :
                                     \E e \in DOMAIN outcomes[c] : ~outcomes[c][e]})
    /\ tally.passed + tally.failed = tally.total
=============================================================================
