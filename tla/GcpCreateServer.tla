-------------------------- MODULE GcpCreateServer --------------------------
(***************************************************************************)
(* Setting up a project for Outline at GCP: the wizard GcpCreateServerApp  *)
(* (outline-gcp-create-server-app.ts) and the requests of GcpAccount       *)
(* (gcp_account.ts) it awaits.  The user needs an open billing account, a  *)
(* project that is linked to it with the required service enabled, and a   *)
(* region.                                                                 *)
(*                                                                         *)
(* start() runs each time the user comes to the page, and what earlier     *)
(* runs still await goes on: start() itself, the interval that looks for a *)
(* billing account every five seconds, the setup of a project and the      *)
(* change to the region picker all overlap.                                *)
(***************************************************************************)
EXTENDS Naturals

CONSTANTS
  Projects,   \* the ids of the projects the user may have
  Starts,     \* bound: runs of start() whose requests or interval live
  MaxTaps,    \* bound: what the user does on the pages
  MaxFaults,  \* bound: failed requests and operations
  None

ASSUME BoundsAssumption == MaxTaps \in Nat /\ MaxFaults \in Nat
ASSUME NamesAssumption ==
  None \notin Projects \cup Starts /\ {"tap", "setup"} \cap Starts = {}

Refreshers == Starts \cup {"tap"}    \* who calls refreshBillingAccounts
Pickers    == Starts \cup {"setup"}  \* who calls showRegionPicker

VARIABLES
  cloud,     \* at GCP: an open billing account, and projects by their state
  shown,     \* AppRoot shows the wizard
  page,      \* GcpCreateServerApp.currentPage
  project,   \* ... .project
  billing,   \* ... .billingAccounts is not empty
  loop,      \* ... .billingAccountsRefreshLoop
  live,      \* the intervals that were set and not cleared
  starts,    \* the runs of start()
  refreshes, \* the calls of refreshBillingAccounts
  setup,     \* handleProjectSetupNextTap
  pickers,   \* the calls of showRegionPicker
  options,   \* the region picker has its zones
  busy,      \* isServerBeingCreated of the region picker
  creation,  \* the project in which createServer makes an instance
  taps, faults

form   == <<page, project, options, busy>>
timers == <<loop, live>>
bounds == <<taps, faults>>
vars == <<cloud, shown, form, billing, timers, starts, refreshes, setup,
          pickers, creation, bounds>>

Tap   == taps < MaxTaps /\ taps' = taps + 1 /\ UNCHANGED faults
Fault == faults < MaxFaults /\ faults' = faults + 1 /\ UNCHANGED taps

Idle == [pc |-> "none", of |-> None]
At(pc, p) == [pc |-> pc, of |-> p]

(* A project can hold servers when it is billed and the service enabled. *)
Healthy(p) == p \in cloud.billed /\ p \in cloud.enabled

Init ==
  /\ cloud \in [open : BOOLEAN, exist : SUBSET Projects,
                billed : SUBSET Projects, enabled : SUBSET Projects]
  /\ cloud.billed \cup cloud.enabled \subseteq cloud.exist
  /\ cloud.billed # {} => cloud.open
  /\ shown = FALSE
  /\ page = "" /\ project = None /\ options = FALSE /\ busy = FALSE
  /\ billing = FALSE
  /\ loop = None /\ live = {}
  /\ starts = [k \in Starts |-> Idle]
  /\ refreshes = [r \in Refreshers |-> "none"]
  /\ setup = Idle
  /\ pickers = [c \in Pickers |-> Idle]
  /\ creation = None
  /\ taps = 0 /\ faults = 0

(* A page that goes takes its region picker with it. *)
ShowPage(new) ==
  /\ page' = new
  /\ options' = (options /\ new = page)
  /\ busy' = (busy /\ new = page)

(* showProjectSetup, an error if there is no billing account to choose. *)
ShowProjectSetup(existing) ==
  /\ project' = existing
  /\ IF billing' THEN ShowPage("projectSetup")
     ELSE UNCHANGED <<page, options, busy>>

(* stopRefreshingBillingAccounts, of the interval that is known. *)
StopRefreshing == live' = live \ {loop} /\ loop' = None

----------------------------------------------------------------------------
(* The user comes to the page, start() up to its first await, and leaves.  *)
(* Bound: a run of start() is not counted again before its interval ended. *)
CreateGcpServerTapped(k) ==
  /\ Tap /\ ~shown
  /\ starts[k] = Idle /\ k \notin live /\ refreshes[k] = "none"
  /\ pickers[k] = Idle
  /\ shown' = TRUE
  /\ ShowPage("")
  /\ StopRefreshing
  /\ starts' = [starts EXCEPT ![k] = At("billing", None)]
  /\ UNCHANGED <<cloud, project, billing, refreshes, setup, pickers, creation>>

Leave ==
  /\ Tap /\ shown
  /\ shown' = FALSE
  /\ StopRefreshing
  /\ UNCHANGED <<cloud, form, billing, starts, refreshes, setup, pickers,
                 creation>>

BillingAccountOpened ==
  /\ ~cloud.open
  /\ cloud' = [cloud EXCEPT !.open = TRUE]
  /\ UNCHANGED <<shown, form, billing, timers, starts, refreshes, setup,
                 pickers, creation, bounds>>

----------------------------------------------------------------------------
(* start(): the billing accounts, the projects, the health of the first.   *)
Pick(k) ==
  /\ starts' = [starts EXCEPT ![k] = Idle]
  /\ pickers' = [pickers EXCEPT ![k] = At("health", project')]

(* Mutant: the interval starts only the next time. *)
NoIntervalYet(k) ==
  /\ starts' = [starts EXCEPT ![k] = Idle]
  /\ IF ~billing'
     THEN ShowPage("billingAccountSetup") /\ UNCHANGED <<project, timers>>
     ELSE ShowProjectSetup(project') /\ UNCHANGED timers
  /\ UNCHANGED pickers

(* The end of start() for a user without a healthy project. *)
AskForSetup(k) ==
  /\ starts' = [starts EXCEPT ![k] = Idle]
  /\ IF ~billing'
     THEN /\ ShowPage("billingAccountSetup")
          /\ loop' = k /\ live' = live \cup {k}
     ELSE ShowProjectSetup(project') /\ UNCHANGED timers
  /\ UNCHANGED pickers

(* After the try block, with the project that is known then. *)
CheckProject(k) ==
  IF project' # None
  THEN /\ starts' = [starts EXCEPT ![k] = At("health", project')]
       /\ UNCHANGED <<page, options, busy, timers, pickers>>
  ELSE AskForSetup(k)

BillingAccountsListed(k) ==
  /\ starts[k].pc = "billing"
  /\ billing' = cloud.open
  /\ starts' = [starts EXCEPT ![k] = At("projects", None)]
  /\ UNCHANGED <<cloud, shown, form, timers, refreshes, setup, pickers,
                 creation, bounds>>

(* Mutant: the list is taken for its first project. *)
ProjectsListedWhole(k) ==
  /\ starts[k].pc = "projects"
  /\ project' = cloud.exist
  /\ UNCHANGED billing
  /\ CheckProject(k)
  /\ UNCHANGED <<cloud, shown, refreshes, setup, creation, bounds>>

ProjectsListed(k) ==
  /\ starts[k].pc = "projects"
  /\ project' \in IF cloud.exist = {} THEN {None} ELSE cloud.exist
  /\ UNCHANGED billing
  /\ CheckProject(k)
  /\ UNCHANGED <<cloud, shown, refreshes, setup, creation, bounds>>

(* The error is caught: what is known stays. *)
ListingFails(k) ==
  /\ starts[k].pc \in {"billing", "projects"}
  /\ Fault
  /\ UNCHANGED <<project, billing>>
  /\ CheckProject(k)
  /\ UNCHANGED <<cloud, shown, refreshes, setup, creation>>

(* Mutant: the answer is not looked at. *)
HealthAnsweredUnread(k) ==
  /\ starts[k].pc = "health"
  /\ UNCHANGED <<project, billing>>
  /\ UNCHANGED <<page, options, busy, timers>> /\ Pick(k)
  /\ UNCHANGED <<cloud, shown, refreshes, setup, creation, bounds>>

HealthAnswered(k) ==
  /\ starts[k].pc = "health"
  /\ UNCHANGED <<project, billing>>
  /\ IF project # None /\ Healthy(starts[k].of)
     THEN UNCHANGED <<page, options, busy, timers>> /\ Pick(k)
     ELSE AskForSetup(k)
  /\ UNCHANGED <<cloud, shown, refreshes, setup, creation, bounds>>

(* Nobody catches this error: the page stays as it is. *)
HealthFails(k) ==
  /\ starts[k].pc = "health"
  /\ Fault
  /\ starts' = [starts EXCEPT ![k] = Idle]
  /\ UNCHANGED <<cloud, shown, form, billing, timers, refreshes, setup,
                 pickers, creation>>

----------------------------------------------------------------------------
(* refreshBillingAccounts, of the interval or of the button.               *)
(* Bound: an interval has one request under way at a time.                 *)
IntervalFires(k) ==
  /\ k \in live
  /\ refreshes[k] = "none"
  /\ refreshes' = [refreshes EXCEPT ![k] = "asking"]
  /\ UNCHANGED <<cloud, shown, form, billing, timers, starts, setup, pickers,
                 creation, bounds>>

BillingNextTapped ==
  /\ Tap /\ shown /\ page = "billingAccountSetup"
  /\ refreshes["tap"] = "none"
  /\ refreshes' = [refreshes EXCEPT !["tap"] = "asking"]
  /\ UNCHANGED <<cloud, shown, form, billing, timers, starts, setup, pickers,
                 creation>>

(* A project is to be set up, whatever page is shown by now. *)
BillingAccountsRefreshed(r) ==
  /\ refreshes[r] = "asking"
  /\ refreshes' = [refreshes EXCEPT ![r] = "none"]
  /\ billing' = cloud.open
  /\ IF cloud.open THEN StopRefreshing /\ ShowProjectSetup(None)
     ELSE UNCHANGED <<form, timers>>
  /\ UNCHANGED <<cloud, shown, starts, setup, pickers, creation, bounds>>

(* The button goes on with the accounts that were known before. *)
RefreshFails(r) ==
  /\ refreshes[r] = "asking"
  /\ Fault
  /\ refreshes' = [refreshes EXCEPT ![r] = "none"]
  /\ UNCHANGED billing
  /\ IF r = "tap" /\ billing THEN ShowProjectSetup(None) ELSE UNCHANGED form
  /\ UNCHANGED <<cloud, shown, timers, starts, setup, pickers, creation>>

----------------------------------------------------------------------------
(* handleProjectSetupNextTap: createProject with the id that was typed, or *)
(* repairProject; both link the billing account and enable the service.    *)
ProjectSetupNextTapped(p) ==
  /\ Tap /\ shown /\ page = "projectSetup"
  /\ setup = Idle
  /\ setup' = IF project = None THEN At("create", p)
              ELSE At("linkRepaired", project)
  /\ project # None => p = project
  /\ UNCHANGED <<cloud, shown, form, billing, timers, starts, refreshes,
                 pickers, creation>>

(* An id that is taken is an error; that of the operation is ignored. *)
ProjectCreated ==
  /\ setup.pc = "create"
  /\ setup.of \notin cloud.exist
  /\ \/ cloud' = [cloud EXCEPT !.exist = @ \cup {setup.of}] /\ UNCHANGED bounds
     \/ Fault /\ UNCHANGED cloud
  /\ setup' = [setup EXCEPT !.pc = "link"]
  /\ UNCHANGED <<shown, form, billing, timers, starts, refreshes, pickers,
                 creation>>

Linking == setup.pc \in {"link", "linkRepaired"}

BillingAccountLinked ==
  /\ Linking
  /\ setup.of \in cloud.exist
  /\ cloud' = [cloud EXCEPT !.billed = @ \cup {setup.of}]
  /\ setup' = [setup EXCEPT !.pc = IF @ = "link" THEN "enable"
                                   ELSE "enableRepaired"]
  /\ UNCHANGED <<shown, form, billing, timers, starts, refreshes, pickers,
                 creation, bounds>>

(* showRegionPicker, without await: it needs the project. *)
ServicesEnabled ==
  /\ setup.pc \in {"enable", "enableRepaired"}
  /\ \/ cloud' = [cloud EXCEPT !.enabled = @ \cup {setup.of}]
        /\ UNCHANGED bounds
     \/ Fault /\ UNCHANGED cloud
  /\ project' = IF setup.pc = "enable" THEN setup.of ELSE project
  /\ setup' = Idle
  /\ pickers' = [pickers EXCEPT !["setup"] =
       IF project' = None THEN @ ELSE At("health", project')]
  /\ UNCHANGED <<shown, page, options, busy, billing, timers, starts,
                 refreshes, creation>>

(* The user is told, and may try again with the same id. *)
SetupFails ==
  /\ \/ setup # Idle /\ Fault
     \/ /\ \/ setup.pc = "create" /\ setup.of \in cloud.exist
           \/ Linking /\ setup.of \notin cloud.exist
        /\ UNCHANGED bounds
  /\ setup' = Idle
  /\ UNCHANGED <<cloud, shown, form, billing, timers, starts, refreshes,
                 pickers, creation>>

----------------------------------------------------------------------------
(* Mutant: the health is not asked for again. *)
PickerHealthSkipped(c) ==
  /\ pickers[c].pc = "health"
  /\ UNCHANGED <<billing, project>>
  /\ ShowPage("regionPicker")
  /\ pickers' = [pickers EXCEPT ![c] = At("locations", pickers[c].of)]
  /\ UNCHANGED <<cloud, shown, timers, starts, refreshes, setup, creation,
                 bounds>>

(* showRegionPicker: the health is asked for once more. *)
PickerHealthAnswered(c) ==
  /\ pickers[c].pc = "health"
  /\ UNCHANGED billing
  /\ IF Healthy(pickers[c].of)
     THEN /\ ShowPage("regionPicker")
          /\ pickers' = [pickers EXCEPT ![c] =
               IF project = None THEN Idle ELSE At("locations", project)]
          /\ UNCHANGED project
     ELSE ShowProjectSetup(None) /\ pickers' = [pickers EXCEPT ![c] = Idle]
  /\ UNCHANGED <<cloud, shown, timers, starts, refreshes, setup, creation,
                 bounds>>

LocationsListed(c) ==
  /\ pickers[c].pc = "locations"
  /\ pickers' = [pickers EXCEPT ![c] = Idle]
  /\ options' = (options \/ page = "regionPicker")
  /\ UNCHANGED <<cloud, shown, page, project, busy, billing, timers, starts,
                 refreshes, setup, creation, bounds>>

PickerFails(c) ==
  /\ pickers[c] # Idle
  /\ Fault
  /\ pickers' = [pickers EXCEPT ![c] = Idle]
  /\ UNCHANGED <<cloud, shown, form, billing, timers, starts, refreshes, setup,
                 creation>>

(* onRegionSelected: without a project, or after a failure, the picker is  *)
(* busy for good.                                                          *)
RegionSelected ==
  /\ Tap /\ shown /\ page = "regionPicker"
  /\ options /\ ~busy /\ creation = None
  /\ busy' = TRUE
  /\ creation' = project
  /\ UNCHANGED <<cloud, shown, page, project, options, billing, timers, starts,
                 refreshes, setup, pickers>>

(* App shows the server. *)
ServerCreated ==
  /\ creation # None
  /\ creation' = None
  /\ shown' = FALSE
  /\ StopRefreshing
  /\ UNCHANGED <<cloud, form, billing, starts, refreshes, setup, pickers,
                 bounds>>

CreationFails ==
  /\ creation # None
  /\ Fault
  /\ creation' = None
  /\ UNCHANGED <<cloud, shown, form, billing, timers, starts, refreshes, setup,
                 pickers>>

Next ==
  \/ \E k \in Starts :
       \/ CreateGcpServerTapped(k) \/ IntervalFires(k)
       \/ BillingAccountsListed(k) \/ ProjectsListed(k) \/ ListingFails(k)
       \/ HealthAnswered(k) \/ HealthFails(k)
  \/ Leave \/ BillingAccountOpened \/ BillingNextTapped
  \/ \E r \in Refreshers : BillingAccountsRefreshed(r) \/ RefreshFails(r)
  \/ \E p \in Projects : ProjectSetupNextTapped(p)
  \/ ProjectCreated \/ BillingAccountLinked \/ ServicesEnabled \/ SetupFails
  \/ \E c \in Pickers :
       PickerHealthAnswered(c) \/ LocationsListed(c) \/ PickerFails(c)
  \/ RegionSelected \/ ServerCreated \/ CreationFails

Spec == Init /\ [][Next]_vars

(* Timers fire and requests are answered or fail.  Nothing is assumed of   *)
(* the user.                                                               *)
Fairness ==
  /\ \A k \in Starts :
       /\ WF_vars(IntervalFires(k))
       /\ WF_vars(BillingAccountsListed(k)) /\ WF_vars(ProjectsListed(k))
       /\ WF_vars(HealthAnswered(k))
  /\ \A r \in Refreshers : WF_vars(BillingAccountsRefreshed(r))
  /\ \A c \in Pickers :
       WF_vars(PickerHealthAnswered(c)) /\ WF_vars(LocationsListed(c))

FairSpec == Spec /\ Fairness

----------------------------------------------------------------------------
TypeOK ==
  /\ cloud \in [open : BOOLEAN, exist : SUBSET Projects,
                billed : SUBSET Projects, enabled : SUBSET Projects]
  /\ shown \in BOOLEAN
  /\ page \in {"", "billingAccountSetup", "projectSetup", "regionPicker"}
  /\ project \in Projects \cup {None}
  /\ billing \in BOOLEAN
  /\ loop \in Starts \cup {None}
  /\ live \in SUBSET Starts
  /\ starts \in [Starts -> [pc : {"none", "billing", "projects", "health"},
                            of : Projects \cup {None}]]
  /\ refreshes \in [Refreshers -> {"none", "asking"}]
  /\ setup \in [pc : {"none", "create", "link", "enable", "linkRepaired",
                      "enableRepaired"}, of : Projects \cup {None}]
  /\ pickers \in [Pickers -> [pc : {"none", "health", "locations"},
                              of : Projects \cup {None}]]
  /\ options \in BOOLEAN /\ busy \in BOOLEAN
  /\ creation \in Projects \cup {None}
  /\ taps \in 0 .. MaxTaps
  /\ faults \in 0 .. MaxFaults

(* The one project of a user who has no other, which is what start()       *)
(* supports, is billed and enabled when a server is created in it, although*)
(* the errors of the operations that create the project and enable its     *)
(* service are ignored, and although runs of start(), refreshes and setups *)
(* overlap.  With two projects, the project may be exchanged between the   *)
(* check of its health and the choice of a region.                         *)
ServerInHealthyProject ==
  creation # None /\ cloud.exist = {creation} => Healthy(creation)

(* The user who waits on the billing page while he opens a billing account *)
(* is taken on, unless he leaves.                                          *)
BillingAccountNoticed ==
  (shown /\ page = "billingAccountSetup" /\ cloud.open)
     ~> (~shown \/ page # "billingAccountSetup")

(* The wizard does not stay blank: some run of start() that was not cut    *)
(* short by a failed request shows a page.                                 *)
WizardShowsAPage == (shown /\ page = "") ~> (~shown \/ page # "" \/ faults > 0)
=============================================================================
