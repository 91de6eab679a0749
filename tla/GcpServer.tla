----------------------------- MODULE GcpServer -----------------------------
(***************************************************************************)
(* A server on a GCP instance: how GcpAccount.createServer makes it        *)
(* (gcp_account.ts, gcp_api.ts), and how the object of class GcpServer     *)
(* (gcp_server.ts) waits for its installation, which runs on the instance  *)
(* meanwhile (InstallScript), and deletes it.                              *)
(*                                                                         *)
(* Making an instance takes several requests, each of which may fail or be *)
(* lost, and the manager may be closed between any two of them; what was   *)
(* made so far stays at GCP, where the manager finds it again.             *)
(***************************************************************************)
EXTENDS InstallScript

VARIABLES
  firewall,      \* the project has Outline's firewall rule
  vm,            \* the instance: "none", "running" or "gone"
  static,        \* its address is a static one
  releasing,     \* an operation to delete the address was not seen to succeed
  creating,      \* the request of createInstance that is under way
  abandoned,     \* ... and nobody waits for its answer any more
  installState,  \* of the GcpServer object
  waiter,        \* its waitOnInstall, which App.addServer awaits
  answer,        \* the attributes that were answered to it
  deletion,      \* GcpHost.delete
  dropping       \* its request to delete the instance, which is not awaited

project  == <<firewall, vm, static, releasing>>
creation == <<creating, abandoned>>
object   == <<installState, waiter, answer>>
removal  == <<deletion, dropping>>
vars == <<project, creation, object, removal, instance, faults>>

(* App.addServer: the object is new, so its state is unknown. *)
AddServer ==
  /\ installState' = "unknown"
  /\ waiter' = "checking"
  /\ answer' = {}

Init ==
  /\ firewall \in BOOLEAN
  /\ vm = "none"
  /\ static = FALSE
  /\ releasing = FALSE
  /\ creating = "listFirewalls"
  /\ abandoned = FALSE
  /\ installState = "none"
  /\ waiter = "none"
  /\ answer = {}
  /\ deletion = "none"
  /\ dropping = FALSE
  /\ InitInstance
  /\ faults = 0

----------------------------------------------------------------------------
(* createServer: what the requests do at GCP ... *)
FirewallsListed ==
  /\ creating = "listFirewalls" /\ ~abandoned
  /\ creating' = IF firewall THEN "createInstance" ELSE "createFirewall"
  /\ UNCHANGED <<instance, project, abandoned, object, removal, faults>>

(* The error of the operation is not looked at. *)
FirewallCreated ==
  /\ creating = "createFirewall"
  /\ \/ firewall' = TRUE /\ UNCHANGED faults
     \/ Fault /\ UNCHANGED firewall
  /\ creating' = IF abandoned THEN "ended" ELSE "createInstance"
  /\ UNCHANGED <<instance, vm, static, releasing, abandoned, object, removal>>

InstanceCreated ==
  /\ creating = "createInstance"
  /\ vm' = "running"
  /\ creating' = IF abandoned THEN "ended" ELSE "getInstance"
  /\ UNCHANGED <<instance, firewall, static, releasing, abandoned, object,
                 removal, faults>>

InstanceAnswered ==
  /\ creating = "getInstance" /\ ~abandoned
  /\ creating' = "createStaticIp"
  /\ UNCHANGED <<instance, project, abandoned, object, removal, faults>>

(* The ephemeral address is promoted; the operation's error is ignored. *)
StaticIpCreated ==
  /\ creating = "createStaticIp"
  /\ \/ static' = (vm = "running") /\ UNCHANGED faults
     \/ Fault /\ UNCHANGED static
  /\ creating' = IF abandoned THEN "ended" ELSE "created"
  /\ UNCHANGED <<instance, firewall, vm, releasing, abandoned, object,
                 removal>>

(* ... and its end: GcpServerCreated, or an error nobody catches after a   *)
(* request or its answer was lost.  What was asked for may still happen.   *)
ServerCreated ==
  /\ creating = "created" /\ ~abandoned
  /\ creating' = "ended"
  /\ AddServer
  /\ UNCHANGED <<instance, project, abandoned, removal, faults>>

CreationFails ==
  /\ creating # "ended" /\ ~abandoned
  /\ Fault
  /\ abandoned' = TRUE
  /\ UNCHANGED <<instance, project, creating, object, removal>>

----------------------------------------------------------------------------
(* The installation on the instance, while that runs. *)
Install ==
  /\ vm = "running"
  /\ RunInstance
  /\ UNCHANGED <<project, creation, object, removal>>

----------------------------------------------------------------------------
(* waitOnInstall: the loop asks every five seconds, without a time limit.  *)
CheckState ==
  /\ waiter = "checking"
  /\ waiter' = IF installState = "unknown" THEN "asking" ELSE "fulfilled"
  /\ UNCHANGED <<instance, project, creation, installState, answer, removal,
                 faults>>

(* Mutant: the status of the answer is taken for an attribute. *)
AttributesAnsweredUnchecked ==
  /\ waiter = "asking"
  /\ waiter' = "answered"
  /\ answer' = IF vm = "running" THEN attributes ELSE {"not_found"}
  /\ UNCHANGED <<instance, project, creation, installState, removal, faults>>

(* getGuestAttributes: no attributes if the instance is not there, or if   *)
(* the request fails for any other reason.                                 *)
AttributesAnswered ==
  /\ waiter = "asking"
  /\ waiter' = "answered"
  /\ \/ answer' = (IF vm = "running" THEN attributes ELSE {})
        /\ UNCHANGED faults
     \/ Fault /\ answer' = {}
  /\ UNCHANGED <<instance, project, creation, installState, removal>>

(* The state is not read again after the await. *)
AttributesHandled ==
  /\ waiter = "answered"
  /\ IF Access \subseteq answer
     THEN installState' = "success" /\ waiter' = "checking"
     ELSE IF "install-error" \in answer
     THEN installState' = "error" /\ waiter' = "rejected"
     ELSE waiter' = "checking" /\ UNCHANGED installState
  /\ UNCHANGED <<instance, project, creation, answer, removal, faults>>

----------------------------------------------------------------------------
(* GcpHost.delete, of a server that App lists: first the static address,   *)
(* then the instance, without waiting for it.                              *)
Listed == installState # "none" /\ deletion # "done"

Delete ==
  /\ Listed /\ deletion = "none"
  /\ deletion' = "deleteStaticIp"
  /\ UNCHANGED <<instance, project, creation, object, dropping, faults>>

(* The wait for the operation ends with it or after a while, and does not  *)
(* look at its error: either way the address counts as deleted.            *)
StaticIpDeleted ==
  /\ deletion = "deleteStaticIp"
  /\ static
  /\ \/ static' = FALSE /\ releasing' = FALSE /\ UNCHANGED faults
     \/ Fault /\ releasing' = TRUE /\ UNCHANGED static
  /\ deletion' = "freed"
  /\ UNCHANGED <<instance, firewall, vm, creation, object, dropping>>

(* The operation succeeds after all, nobody waits for it any more. *)
AddressReleased ==
  /\ releasing
  /\ static' = FALSE
  /\ releasing' = FALSE
  /\ UNCHANGED <<instance, firewall, vm, creation, object, removal, faults>>

(* Mutant: an address that is not there need not be deleted. *)
StaticIpMissing ==
  /\ deletion = "deleteStaticIp"
  /\ ~static
  /\ deletion' = "freed"
  /\ UNCHANGED <<instance, project, creation, object, dropping, faults>>

(* A server without a static address cannot be deleted: 404. *)
StaticIpNotFound ==
  /\ deletion = "deleteStaticIp"
  /\ ~static
  /\ deletion' = "none"
  /\ UNCHANGED <<instance, project, creation, object, dropping, faults>>

(* Mutant: the instance is forgotten. *)
OnDeleteOnly ==
  /\ deletion = "freed"
  /\ deletion' = "done"
  /\ installState' = "deleted"
  /\ UNCHANGED <<instance, project, creation, waiter, answer, dropping,
                 faults>>

(* deleteInstance is called, onDelete, and App removes the server. *)
OnDelete ==
  /\ deletion = "freed"
  /\ deletion' = "done"
  /\ dropping' = TRUE
  /\ installState' = "deleted"
  /\ UNCHANGED <<instance, project, creation, waiter, answer, faults>>

InstanceDeleted ==
  /\ dropping
  /\ dropping' = FALSE
  /\ \/ vm' = "gone" /\ UNCHANGED faults
     \/ Fault /\ UNCHANGED vm
  /\ UNCHANGED <<instance, firewall, static, releasing, creation, object,
                 deletion>>

DeletionFails ==
  /\ deletion \in {"deleteStaticIp", "freed"}
  /\ Fault
  /\ deletion' = "none"
  /\ UNCHANGED <<instance, project, creation, object, dropping>>

(* The manager is started again and lists the instances of the project. *)
Restart ==
  /\ Fault
  /\ abandoned' = (abandoned \/ creating # "ended")
  /\ deletion' = "none"
  /\ IF vm = "running" THEN AddServer
     ELSE installState' = "none" /\ waiter' = "none" /\ answer' = {}
  /\ UNCHANGED <<instance, project, creating, dropping>>

Next ==
  \/ FirewallsListed \/ FirewallCreated \/ InstanceCreated
  \/ InstanceAnswered \/ StaticIpCreated \/ ServerCreated \/ CreationFails
  \/ Install
  \/ CheckState \/ AttributesAnswered \/ AttributesHandled
  \/ Delete \/ StaticIpDeleted \/ AddressReleased \/ StaticIpNotFound
  \/ OnDelete
  \/ InstanceDeleted \/ DeletionFails
  \/ Restart

Spec == Init /\ [][Next]_vars

(* Timers fire and every request is answered or fails.  Nothing is assumed *)
(* of the script on the instance or of the user.                           *)
Fairness ==
  /\ WF_vars(FirewallsListed) /\ WF_vars(FirewallCreated)
  /\ WF_vars(InstanceCreated) /\ WF_vars(InstanceAnswered)
  /\ WF_vars(StaticIpCreated) /\ WF_vars(ServerCreated)
  /\ WF_vars(CheckState) /\ WF_vars(AttributesAnswered)
  /\ WF_vars(AttributesHandled)
  /\ WF_vars(StaticIpDeleted) /\ WF_vars(StaticIpNotFound)
  /\ WF_vars(OnDelete) /\ WF_vars(InstanceDeleted)

FairSpec == Spec /\ Fairness

----------------------------------------------------------------------------
TypeOK ==
  /\ firewall \in BOOLEAN
  /\ vm \in {"none", "running", "gone"}
  /\ static \in BOOLEAN
  /\ releasing \in BOOLEAN
  /\ creating \in {"listFirewalls", "createFirewall", "createInstance",
                   "getInstance", "createStaticIp", "created", "ended"}
  /\ abandoned \in BOOLEAN
  /\ installState \in {"none", "unknown", "success", "error", "deleted"}
  /\ waiter \in {"none", "checking", "asking", "answered", "fulfilled",
                 "rejected"}
  /\ answer \in SUBSET Attributes
  /\ deletion \in {"none", "deleteStaticIp", "freed", "done"}
  /\ dropping \in BOOLEAN
  /\ InstanceTypeOK

(* A static address is paid for by itself when no instance uses it, and    *)
(* the manager, which lists instances, cannot find it any more.  Whatever  *)
(* else failed or came late while the instance was made and deleted, one   *)
(* is left behind only by an operation to delete it that failed, or did    *)
(* not end in time, unnoticed.                                             *)
NoIdleAddress == static => vm = "running" \/ releasing

(* waitOnInstall fulfils for a server that can be shown, or that the user  *)
(* deleted: Shadowbox serves there and has its first access key.  This     *)
(* takes the order of install_shadowbox's steps, of the lines that are     *)
(* published and of the checks on them.                                    *)
FulfilledForCause ==
  waiter = "fulfilled" =>
    (shadowbox = "healthy" /\ firstUser) \/ deletion = "done"

(* However the installation ends, App hears of it, through requests of the *)
(* manager that fail and restarts of it, unless a request of the script    *)
(* itself failed or the instance is deleted: an object that is made        *)
(* between deleteInstance and its end asks for ever.                       *)
Announced ==
  \/ Access \subseteq attributes
  \/ "install-error" \in attributes
  \/ script = "ended" /\ ~lost
InstallHeardOf ==
  (installState = "unknown" /\ Announced) ~>
    (installState # "unknown" \/ vm = "gone")

(* The instance of a server that was deleted stops, unless a request       *)
(* failed: nobody waits for it.                                            *)
DeletedInstanceStops == (deletion = "done") ~> (vm = "gone" \/ faults > 0)
=============================================================================
