------------------------------- MODULE Steps -------------------------------
(***************************************************************************)
(* The plan, as every consumer of it sees it: a sequence of steps          *)
(* (core/loft_cli_core/plan/models.py).  A step keeps the fields that      *)
(* drive control: its scope, whether it is a gate and the steps it depends *)
(* on.  Commands, file contents and descriptions are abstracted into the   *)
(* step's id.                                                              *)
(*                                                                         *)
(* The code numbers steps from 0; a position here is that index plus one,  *)
(* so the preflight step (index 0) stands at position 1.                   *)
(***************************************************************************)
EXTENDS Naturals, Sequences

CONSTANT StepIds    \* the ids a step may carry ("reload_sshd", ...)

Scopes == {"remote", "local", "verify"}

Step == [ id    : StepIds,
          scope : Scopes,
          gate  : BOOLEAN,
          deps  : SUBSET (Nat \ {0}) ]
=============================================================================
