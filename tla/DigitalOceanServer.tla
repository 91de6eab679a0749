------------------------- MODULE DigitalOceanServer -------------------------
(***************************************************************************)
(* A server being installed on a DigitalOcean droplet: the object of class *)
(* DigitalOceanServer (digitalocean_server.ts) in the server manager, with *)
(* App's part in adding and deleting it, and the droplet, on which         *)
(* do_install_server.sh publishes tags as it goes.                         *)
(*                                                                         *)
(* The object polls the droplet every three seconds without waiting for    *)
(* the answer to the poll before, gives up after five minutes, and can be  *)
(* deleted at any time.  The manager can be closed and started again.      *)
(***************************************************************************)
EXTENDS Naturals

CONSTANTS
  Polls,      \* bound: refreshes of the droplet info outstanding at once
  MaxFaults   \* bound: failed requests, lost answers and restarts

ASSUME ConstantsAssumption == MaxFaults \in Nat

Access == {"certSha256", "apiUrl"}
Tags   == Access \cup {"install-error"}

VARIABLES
  tags,          \* the droplet's tags at DigitalOcean
  exists,        \* the droplet was not deleted
  installState,  \* of the DigitalOceanServer object
  apiUrl,        \* its management API URL is set
  polling,       \* its interval timer is set
  refreshes,     \* its outstanding calls of refreshDropletInfo
  late,          \* five minutes have passed since it was created
  completed,     \* local storage: droplet-...-install-completed
  waiter,        \* the waitOnInstall that App.addServer awaits
  deletion,      \* the DELETE request of the user
  faults         \* failures so far

droplet == <<tags, exists>>
object  == <<installState, apiUrl, completed>>
vars == <<droplet, object, polling, refreshes, late, waiter, deletion, faults>>

----------------------------------------------------------------------------
Idle == [pc |-> "idle", tags |-> {}]

Fault == faults < MaxFaults /\ faults' = faults + 1

(* Mutant: a tag that is missing is an error. *)
OutcomeOfMissingTag(known, isLate) ==
  IF known = {} /\ ~isLate THEN "unknown"
  ELSE IF known = Access /\ ~isLate THEN "success" ELSE "error"

(* updateInstallState, of a droplet info with the tags known. *)
Outcome(known, isLate) ==
  IF "install-error" \in known \/ isLate THEN "error"
  ELSE IF Access \subseteq known THEN "success" ELSE "unknown"

(* Mutant: a known state is overwritten. *)
SetInstallStateAlways(state) ==
  /\ installState' = IF state = "unknown" THEN installState ELSE state
  /\ completed' = (completed \/ state # "unknown")
  /\ apiUrl' = (apiUrl \/ state = "success")

(* setInstallState, with what setApiUrlAndCertificate does on success. *)
SetInstallState(state) ==
  IF installState # "unknown" \/ state = "unknown" THEN UNCHANGED object
  ELSE /\ installState' = state
       /\ completed' = TRUE
       /\ apiUrl' = (apiUrl \/ state = "success")

(* App.addServer: it waits unless the install is completed already. *)
AddServer == waiter' = IF completed' THEN "none" ELSE "waiting"

(* createServer: a new droplet, its object, and the server view that waits. *)
Init ==
  /\ tags = {}
  /\ exists = TRUE
  /\ installState = "unknown"
  /\ apiUrl = FALSE
  /\ polling = TRUE
  /\ refreshes = [p \in Polls |-> Idle]
  /\ late = FALSE
  /\ completed = FALSE
  /\ waiter = "waiting"
  /\ deletion = "none"
  /\ faults = 0

----------------------------------------------------------------------------
(* The droplet (do_install_server.sh): two tags when the installation      *)
(* wrote them, or an error tag if it ended before both were known.  A      *)
(* script that dies, or a tag that could not be added, publishes nothing.  *)
PublishAccess(tag) ==
  /\ exists
  /\ "install-error" \notin tags
  /\ tag \notin tags
  /\ tags' = tags \cup {tag}
  /\ UNCHANGED <<exists, object, polling, refreshes, late, waiter, deletion,
                 faults>>

PublishError ==
  /\ exists
  /\ "install-error" \notin tags
  /\ ~(Access \subseteq tags)
  /\ tags' = tags \cup {"install-error"}
  /\ UNCHANGED <<exists, object, polling, refreshes, late, waiter, deletion,
                 faults>>

----------------------------------------------------------------------------
(* The interval of pollInstallState. *)
Poll(p) ==
  /\ polling
  /\ installState = "unknown"
  /\ refreshes[p].pc = "idle"
  /\ refreshes' = [refreshes EXCEPT ![p].pc = "asked"]
  /\ UNCHANGED <<droplet, object, polling, late, waiter, deletion, faults>>

PollStops ==
  /\ polling
  /\ installState # "unknown"
  /\ polling' = FALSE
  /\ UNCHANGED <<droplet, object, refreshes, late, waiter, deletion, faults>>

(* Mutant: the status of the answer is not looked at. *)
DropletAnswersUnchecked(p) ==
  /\ refreshes[p].pc = "asked"
  /\ refreshes' = [refreshes EXCEPT ![p] =
       [pc |-> "answered", tags |-> IF exists THEN tags ELSE {"not_found"}]]
  /\ UNCHANGED <<droplet, object, polling, late, waiter, deletion, faults>>

(* DigitalOcean answers with the droplet as it is, or with a 404. *)
DropletAnswers(p) ==
  /\ refreshes[p].pc = "asked"
  /\ refreshes' = [refreshes EXCEPT ![p] =
       IF exists THEN [pc |-> "answered", tags |-> tags]
       ELSE [Idle EXCEPT !.pc = "failed"]]
  /\ UNCHANGED <<droplet, object, polling, late, waiter, deletion, faults>>

RequestFails(p) ==
  /\ refreshes[p].pc = "asked"
  /\ Fault
  /\ refreshes' = [refreshes EXCEPT ![p] = [Idle EXCEPT !.pc = "failed"]]
  /\ UNCHANGED <<droplet, object, polling, late, waiter, deletion>>

(* The rest of the callback: the new info is looked at. *)
Refreshed(p) ==
  /\ refreshes[p].pc = "answered"
  /\ SetInstallState(Outcome(refreshes[p].tags, late))
  /\ polling' = (polling /\ installState' = "unknown")
  /\ refreshes' = [refreshes EXCEPT ![p] = Idle]
  /\ UNCHANGED <<droplet, late, waiter, deletion, faults>>

(* Mutant: the error ends the polling and decides nothing. *)
RefreshFailedQuietly(p) ==
  /\ refreshes[p].pc = "failed"
  /\ polling' = FALSE
  /\ refreshes' = [refreshes EXCEPT ![p] = Idle]
  /\ UNCHANGED <<droplet, object, late, waiter, deletion, faults>>

RefreshFailed(p) ==
  /\ refreshes[p].pc = "failed"
  /\ SetInstallState("error")
  /\ polling' = FALSE
  /\ refreshes' = [refreshes EXCEPT ![p] = Idle]
  /\ UNCHANGED <<droplet, late, waiter, deletion, faults>>

TimePasses ==
  /\ ~late
  /\ late' = TRUE
  /\ UNCHANGED <<droplet, object, polling, refreshes, waiter, deletion, faults>>

(* waitOnInstall finds the state known. *)
InstallSettles ==
  /\ waiter = "waiting"
  /\ installState # "unknown"
  /\ waiter' = installState
  /\ UNCHANGED <<droplet, object, polling, refreshes, late, deletion, faults>>

----------------------------------------------------------------------------
(* The user cancels the installation or destroys the server, until that    *)
(* succeeded and App removed the server.                                   *)
Delete ==
  /\ deletion = "none"
  /\ deletion' = "asked"
  /\ UNCHANGED <<droplet, object, polling, refreshes, late, waiter, faults>>

DropletDeleted ==
  /\ deletion = "asked"
  /\ exists
  /\ exists' = FALSE
  /\ deletion' = "answered"
  /\ UNCHANGED <<tags, object, polling, refreshes, late, waiter, faults>>

(* The request or its answer is lost: the user is told, and can try again, *)
(* which is answered 404 if the droplet is gone.                           *)
DeleteLost ==
  /\ deletion \in {"asked", "answered"}
  /\ Fault
  /\ deletion' = "none"
  /\ UNCHANGED <<droplet, object, polling, refreshes, late, waiter>>

DeleteNotFound ==
  /\ deletion = "asked"
  /\ ~exists
  /\ deletion' = "none"
  /\ UNCHANGED <<droplet, object, polling, refreshes, late, waiter, faults>>

OnDelete ==
  /\ deletion = "answered"
  /\ SetInstallState("deleted")
  /\ deletion' = "done"
  /\ UNCHANGED <<droplet, polling, refreshes, late, waiter, faults>>

(* The manager is started again and lists the account's droplets: a new    *)
(* object, which looks at the tags of that list in its constructor.        *)
Restart ==
  /\ exists
  /\ Fault
  /\ installState' = Outcome(tags, FALSE)
  /\ apiUrl' = (installState' = "success")
  /\ polling' = (installState' = "unknown")
  /\ completed' = (completed \/ installState' # "unknown")
  /\ refreshes' = [p \in Polls |-> Idle]
  /\ late' = FALSE
  /\ AddServer
  /\ deletion' = "none"
  /\ UNCHANGED droplet

Next ==
  \/ \E tag \in Access : PublishAccess(tag)
  \/ PublishError
  \/ \E p \in Polls : Poll(p)
  \/ PollStops
  \/ \E p \in Polls : DropletAnswers(p)
  \/ \E p \in Polls : RequestFails(p)
  \/ \E p \in Polls : Refreshed(p)
  \/ \E p \in Polls : RefreshFailed(p)
  \/ TimePasses
  \/ InstallSettles
  \/ Delete \/ DropletDeleted \/ DeleteLost \/ DeleteNotFound \/ OnDelete
  \/ Restart

Spec == Init /\ [][Next]_vars

(* Timers fire, time passes, and a refresh is answered or fails.  Nothing  *)
(* is assumed of the script on the droplet or of the user.                 *)
Fairness ==
  /\ \A p \in Polls : /\ WF_vars(Poll(p))
                      /\ WF_vars(DropletAnswers(p) \/ RequestFails(p))
                      /\ WF_vars(Refreshed(p))
                      /\ WF_vars(RefreshFailed(p))
  /\ WF_vars(PollStops)
  /\ WF_vars(TimePasses)
  /\ WF_vars(InstallSettles)

FairSpec == Spec /\ Fairness

----------------------------------------------------------------------------
TypeOK ==
  /\ tags \in SUBSET Tags
  /\ exists \in BOOLEAN
  /\ installState \in {"unknown", "success", "error", "deleted"}
  /\ apiUrl \in BOOLEAN
  /\ polling \in BOOLEAN
  /\ refreshes \in [Polls -> [pc : {"idle", "asked", "answered", "failed"},
                              tags : SUBSET Tags]]
  /\ late \in BOOLEAN
  /\ completed \in BOOLEAN
  /\ waiter \in {"none", "waiting", "success", "error", "deleted"}
  /\ deletion \in {"none", "asked", "answered", "done"}
  /\ faults \in 0 .. MaxFaults

(* The install state, as the interface promises it: one outcome per run of *)
(* the manager, with a reason, which the waiter hears of whatever happens  *)
(* to the script, the requests and the droplet.                            *)
Install == INSTANCE ServerInstall WITH
             published <- Access \subseteq tags,
             gone <- ~exists,
             outcome <- installState
ImplementsInstall == Install!Spec

(* While the state is unknown the interval is set: neither an error, nor a  *)
(* refresh that ends late, nor a deletion under way stops the polling of a *)
(* server somebody may be waiting for.                                     *)
PollingGoesOn == installState = "unknown" => polling

(* As long as no request fails, an installation is given up only for its   *)
(* error tag, the timeout or the deletion of the droplet: an access tag    *)
(* that is still missing, or an answer that comes late, is no reason.      *)
ErrorHasCause ==
  installState = "error" =>
    late \/ "install-error" \in tags \/ ~exists \/ faults > 0
============================================================================
