----------------------------- MODULE MC_Outbox ------------------------------
(***************************************************************************)
(* Small instances of Outbox for TLC.                                      *)
(***************************************************************************)
EXTENDS Outbox

\* One configuration for the run that explores many writers.
OneConfig == {[cap |-> 1, maxAttempts |-> 1, retention |-> 0]}

\* One configuration in which a failed report is retried once.
RetryConfig == {[cap |-> 1, maxAttempts |-> 2, retention |-> 0]}

\* Two configurations the server may switch between.
TwoConfigs == {[cap |-> 1, maxAttempts |-> 1, retention |-> 1],
               [cap |-> 1, maxAttempts |-> 2, retention |-> 0]}

TwoReports   == 1..2
ThreeReports == 1..3
=============================================================================
