-------------------------- MODULE CompactionPhases --------------------------
(***************************************************************************)
(* What compaction promises of one project, with the handlers, the hook's  *)
(* flags and the goroutines left out: a crossing of the clear threshold    *)
(* arms one compaction, a request takes it at most once, and a summary is  *)
(* computed by one computation at a time and, once there, stays.           *)
(***************************************************************************)
CONSTANT Projects

VARIABLES
  phase,   \* "watching" usage, "warned", or "armed" for the next request
  summary  \* "absent", "computing" or "ready"

phaseVars == <<phase, summary>>

Phases == {"watching", "warned", "armed"}

Statuses == {"absent", "computing", "ready"}

Init ==
  /\ phase = [p \in Projects |-> "watching"]
  /\ summary = [p \in Projects |-> "absent"]

Warn(p) ==
  /\ phase[p] = "watching"
  /\ phase' = [phase EXCEPT ![p] = "warned"]
  /\ UNCHANGED summary

Arm(p) ==
  /\ phase[p] # "armed"
  /\ phase' = [phase EXCEPT ![p] = "armed"]
  /\ UNCHANGED summary

Take(p) ==
  /\ phase[p] = "armed"
  /\ phase' = [phase EXCEPT ![p] = "watching"]
  /\ UNCHANGED summary

Begin(p) ==
  /\ summary[p] = "absent"
  /\ summary' = [summary EXCEPT ![p] = "computing"]
  /\ UNCHANGED phase

End(p) ==
  /\ summary[p] = "computing"
  /\ \E s \in {"ready", "absent"} : summary' = [summary EXCEPT ![p] = s]
  /\ UNCHANGED phase

Next == \E p \in Projects : Warn(p) \/ Arm(p) \/ Take(p) \/ Begin(p) \/ End(p)

Safety == Init /\ [][Next]_phaseVars

Spec == Safety /\ \A p \in Projects : WF_phaseVars(End(p))

=============================================================================
