----------------------------- MODULE Environment -----------------------------
(***************************************************************************)
(* The environment units are executed in (environment.c): what it allows,  *)
(* and what env_execute makes of a unit before vm_run. The evolution of a  *)
(* unit and the rounds of a population are built on it.                    *)
(***************************************************************************)
EXTENDS BitMachine

CONSTANTS
  Allowed,      \* the environment's allowed_caps
  FuelLimit     \* and fuel_limit

ASSUME EnvironmentAssumption == Allowed \subseteq 0 .. 63 /\ FuelLimit \in Word

\* The fuel of an execution.
Budget(u) == IF u.fuel > FuelLimit THEN FuelLimit ELSE u.fuel

\* The unit's state lies over the start of its code.
Overlaid(u) ==
  [c \in Cells |-> IF c < Len(u.state) THEN u.state[c + 1] ELSE Image(u.code)[c]]

\* env_execute up to vm_run, for a unit that eiu_validate passes.
LoadUnit(u) == Load(u.code, Allowed \cap u.rights, Budget(u), Overlaid(u))
=============================================================================
