-------------------------------- MODULE Inventory --------------------------------
(***************************************************************************)
(* The promise of README.md:14 to whoever reads the tables: there is an    *)
(* inventory, and for the latest import a log of observed changes.  An     *)
(* import changes the inventory in at most one step, together with the log *)
(* that accounts for exactly that step, or not at all.                     *)
(***************************************************************************)
EXTENDS Naturals

CONSTANTS None,   \* a key without a row
          Key,    \* resources and relations
          Kind    \* kinds of log entries: "add", "update", "delete"

VARIABLES inv,     \* key -> its content, or None
          log,     \* key -> how many entries of each kind the latest import logged
          outcome  \* of the latest import

NoLog == [k \in Key |-> [c \in Kind |-> 0]]

Row(x) == IF x = None THEN 0 ELSE 1

\* The entries of a key account for its change.
Accounts(old, new, entries) ==
  /\ Row(new) + entries["delete"] = Row(old) + entries["add"]
  /\ old # new => \E c \in Kind : entries[c] > 0

Init == inv = [k \in Key |-> None] /\ log = NoLog /\ outcome = "none"

Begin ==
  /\ outcome # "running" /\ outcome' = "running"
  /\ log' = NoLog /\ UNCHANGED inv

\* A job publishes once; a job whose mapping failed may publish what it had.
Publish ==
  /\ outcome = "running" /\ log = NoLog
  /\ outcome' \in {"running", "failed"}
  /\ DOMAIN inv' = Key /\ DOMAIN log' = Key
  /\ \A k \in Key : Accounts(inv[k], inv'[k], log'[k])

Close ==
  /\ outcome = "running" /\ outcome' \in {"complete", "failed", "lost"}
  /\ UNCHANGED <<inv, log>>

Next == Begin \/ Publish \/ Close

Spec == Init /\ [][Next]_<<inv, log, outcome>>
==================================================================================
