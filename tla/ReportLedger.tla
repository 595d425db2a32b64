---------------------------- MODULE ReportLedger ----------------------------
(***************************************************************************)
(* What the outbox promises the jobs of the agent, with its two tiers, its *)
(* goroutines and its retries left out: a report that was handed over is   *)
(* held until it leaves for good, only a held report reaches the server,   *)
(* and a report that left is never taken up again.                         *)
(***************************************************************************)

CONSTANT Reports

VARIABLES
  seen,      \* reports handed over so far
  held,      \* reports the agent may still deliver
  accepted   \* reports the server has stored

lvars == <<seen, held, accepted>>

Init == seen = {} /\ held = {} /\ accepted = {}

\* A new report is taken over.
Submit(r) ==
  /\ r \notin seen
  /\ seen' = seen \cup {r}
  /\ held' = held \cup {r}
  /\ UNCHANGED accepted

\* The server stores a held report; the agent keeps it or lets it go.
Accept(r) ==
  /\ r \in held
  /\ accepted' = accepted \cup {r}
  /\ held' \in {held, held \ {r}}
  /\ UNCHANGED seen

\* Held reports leave: settled, evicted, pruned, given up or lost.
Release ==
  /\ held' \subseteq held
  /\ UNCHANGED <<seen, accepted>>

Next == Release \/ \E r \in Reports : Submit(r) \/ Accept(r)

Spec == Init /\ [][Next]_lvars
=============================================================================
