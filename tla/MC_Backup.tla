------------------------------- MODULE MC_Backup -------------------------------
(***************************************************************************)
(* Small instances of BackupJob: a plan with every kind of hook and two    *)
(* repositories, plans with other policies that share one of them, and one *)
(* without repositories.                                                   *)
(***************************************************************************)
EXTENDS BackupJob

CONSTANTS r1, r2

Hook(event, order, script, own) ==
  [event |-> event, order |-> order, script |-> script, own |-> own]

Guard  == Hook("pre_backup", 2, "continue", "abort")
Quiet  == Hook("pre_backup", 1, "abort", "continue")
After  == Hook("post_backup", 2, "inline", "unset")
Halt   == Hook("post_backup", 1, "abort", "unset")
Cheer  == Hook("on_success", 1, "abort", "unset")
Alarm  == Hook("on_failure", 1, "inline", "unset")

MCPlanChoices ==
  {[targets |-> {r1, r2}, hooks |-> {Guard, Quiet, Cheer, Alarm},
    forget |-> TRUE, prune |-> FALSE, keep |-> 2],
   [targets |-> {r1}, hooks |-> {After}, forget |-> TRUE, prune |-> TRUE, keep |-> Nil],
   [targets |-> {r2}, hooks |-> {Alarm}, forget |-> FALSE, prune |-> FALSE, keep |-> Nil],
   [targets |-> {}, hooks |-> {Guard, Halt, After, Alarm}, forget |-> FALSE, prune |-> FALSE,
    keep |-> Nil]}
=============================================================================
