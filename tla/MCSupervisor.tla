---------------------------- MODULE MCSupervisor ----------------------------
(* Small instances of Supervisor: one handle, three attempts with delays of *)
(* one, two and four ticks, and a detector that trips on two attaches.      *)
EXTENDS Supervisor
=============================================================================
