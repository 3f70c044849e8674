---------------------------- MODULE MonitoredPort ----------------------------
(***************************************************************************)
(* What SubscriptionService relies on when it holds an                     *)
(* IMonitoredSubscription (core/src/ports/data-source.ts:104-127): the     *)
(* data-change callback reports values of sources that were added, values  *)
(* those sources really had, never after close() has taken effect; and a   *)
(* source that changes while it is monitored is reported until what was    *)
(* reported last is its value.                                             *)
(*                                                                         *)
(* The contract allows what the service tolerates: late reports for a      *)
(* source that was removed, repeated reports, values that were skipped.    *)
(***************************************************************************)
CONSTANTS Sources, Values, None

VARIABLES
  value,    \* the value each source has
  seen,     \* the values each source has had
  asked,    \* sources that were ever passed to addItems
  covered,  \* sources that are monitored at present
  moved,    \* covered sources that have changed since they are covered
  ended,    \* close() has taken effect
  told      \* what the callback reported last for each source

vars == <<value, seen, asked, covered, moved, ended, told>>

Init ==
  /\ value \in [Sources -> Values]
  /\ seen = [s \in Sources |-> {value[s]}]
  /\ asked = {} /\ covered = {} /\ moved = {}
  /\ ended = FALSE
  /\ told = [s \in Sources |-> None]

\* What the callback may report in a step.
Reports ==
  /\ told' \in [Sources -> Values \cup {None}]
  /\ \A s \in Sources :
       told'[s] # told[s] => /\ ~ended
                             /\ s \in asked
                             /\ told'[s] \in seen'[s]

(* A source changes; an adapter in the same process may report it at once. *)
Change ==
  /\ \E s \in Sources, v \in Values :
       /\ value' = [value EXCEPT ![s] = v]
       /\ seen' = [seen EXCEPT ![s] = @ \cup {v}]
       /\ moved' = moved \cup ({s} \cap covered)
  /\ Reports
  /\ UNCHANGED <<asked, covered, ended>>

Report ==
  /\ Reports
  /\ UNCHANGED <<value, seen, asked, covered, moved, ended>>

\* The sources that are monitored become others, among those asked for.
Cover ==
  /\ covered' \subseteq asked'
  /\ moved' \subseteq moved \cap covered'
  /\ UNCHANGED <<value, seen, told>>

Ask == asked \subseteq asked' /\ Cover /\ UNCHANGED ended

(* removeItems, or addItems resolves; close() resolves. *)
Recover == Cover /\ UNCHANGED <<asked, ended>>

End == ended' = TRUE /\ Cover /\ UNCHANGED asked

Next == Change \/ Report \/ Ask \/ Recover \/ End

Safety == Init /\ [][Next]_vars

\* A monitored source whose change has not been reported.
Owed(s) == s \in moved /\ told[s] # value[s]

Liveness == \A s \in Sources : []<>~Owed(s)

=============================================================================
