---------------------------- MODULE SandboxStates ----------------------------
(***************************************************************************)
(* The vocabulary of packages/api/internal/sandbox/sandboxtypes/states.go: *)
(* the states a stored sandbox can be in, the actions that move it, and    *)
(* the transitions the API allows.                                         *)
(***************************************************************************)

States == {"running", "pausing", "killing", "snapshotting"}

(* StateAction: its name, target state and effect. *)
Actions == {"pause", "kill", "snapshot"}

TargetState == [pause |-> "pausing", kill |-> "killing", snapshot |-> "snapshotting"]

(* An expiring action ends in the removal of the record; a transient one is *)
(* undone once it has succeeded.                                            *)
Effect == [pause |-> "expires", kill |-> "expires", snapshot |-> "transient"]

AllowedTransitions ==
  [running      |-> {"pausing", "killing", "snapshotting"},
   pausing      |-> {"killing"},
   snapshotting |-> {"running", "killing", "pausing"},
   killing      |-> {}]
=============================================================================
