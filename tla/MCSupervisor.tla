---------------------------- MODULE MCSupervisor ----------------------------
(* Two processes, of which one may stop Moon, and two Moon processes. *)
EXTENDS Supervisor
=============================================================================
