--------------------------- MODULE ServerInstall ---------------------------
(***************************************************************************)
(* What the server manager may rely on while a cloud server is installed:  *)
(* the interface ManagedServer (server_manager/model/server.ts) as App     *)
(* uses it.  The installation has one outcome per process of the manager,  *)
(* which is a success only if the machine published how to reach it and    *)
(* deleted only if the machine is gone; waitOnInstall settles with that    *)
(* outcome.                                                                *)
(***************************************************************************)
VARIABLES
  published,  \* the machine published its API URL and its certificate
  gone,       \* the machine was deleted
  outcome,    \* of the installation, as this process of the manager sees it
  waiter      \* the promise of waitOnInstall that App awaits

vars == <<published, gone, outcome, waiter>>

Outcomes == {"success", "error", "deleted"}

Init ==
  /\ published = FALSE
  /\ gone = FALSE
  /\ outcome = "unknown"
  /\ waiter = "waiting"

Publish ==
  /\ published' = TRUE
  /\ UNCHANGED <<gone, outcome, waiter>>

Vanish ==
  /\ gone' = TRUE
  /\ UNCHANGED <<published, outcome, waiter>>

Justified(o) ==
  /\ o = "success" => published
  /\ o = "deleted" => gone

Decide ==
  /\ outcome = "unknown"
  /\ outcome' \in {o \in Outcomes : Justified(o)}
  /\ UNCHANGED <<published, gone, waiter>>

Settle ==
  /\ waiter = "waiting"
  /\ outcome # "unknown"
  /\ waiter' = outcome
  /\ UNCHANGED <<published, gone, outcome>>

(* The manager is started again and looks at the machine anew. *)
StartOver ==
  /\ ~gone
  /\ outcome' \in {"unknown"} \cup {o \in Outcomes : Justified(o)}
  /\ waiter' \in {"waiting", "none"}
  /\ UNCHANGED <<published, gone>>

Next == Publish \/ Vanish \/ Decide \/ Settle \/ StartOver

SafetySpec == Init /\ [][Next]_vars

(* ... and no waiter waits for ever. *)
Spec == SafetySpec /\ WF_vars(Decide) /\ WF_vars(Settle)
============================================================================
