---------------------------- MODULE MCControlCenter --------------------------
(***************************************************************************)
(* Instances of ControlCenter: two modules, one page, a pid that comes     *)
(* again.                                                                  *)
(***************************************************************************)
EXTENDS ControlCenter

MCModuleOrder == <<"telemetry", "actuator">>
MCOneModule == <<"actuator">>

=============================================================================
