--------------------------- MODULE SchemaUpgrade ---------------------------
(***************************************************************************)
(* What opening the store promises (store.Open: it "runs all pending       *)
(* migrations"), with the transactions, the record of versions and what    *)
(* the processes believe left out: the schema grows one version at a time, *)
(* whole, and who opens the store finds the last one.                      *)
(***************************************************************************)
EXTENDS Naturals

CONSTANTS Processes, Latest

VARIABLES
  schema,  \* the versions the schema has
  state    \* per process: "opening", "open" or "failed"

upgradeVars == <<schema, state>>

Init ==
  /\ schema = {}
  /\ state = [p \in Processes |-> "opening"]

Becomes(p, s) == state' = [state EXCEPT ![p] = s]

\* The next version, by whoever is opening the store; with the last one the
\* process may have it open.
Upgrade(p) ==
  /\ state[p] = "opening"
  /\ \E v \in 1..Latest : schema = 1..v - 1 /\ schema' = 1..v
  /\ UNCHANGED state \/ (schema' = 1..Latest /\ Becomes(p, "open"))

Open(p) ==
  /\ state[p] = "opening"
  /\ schema = 1..Latest
  /\ Becomes(p, "open")
  /\ UNCHANGED schema

Fail(p) ==
  /\ state[p] = "opening"
  /\ Becomes(p, "failed")
  /\ UNCHANGED schema

Retry(p) ==
  /\ state[p] # "opening"
  /\ Becomes(p, "opening")
  /\ UNCHANGED schema

Next == \E p \in Processes : Upgrade(p) \/ Open(p) \/ Fail(p) \/ Retry(p)

Spec == Init /\ [][Next]_upgradeVars

=============================================================================
