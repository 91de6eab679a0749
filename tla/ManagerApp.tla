----------------------------- MODULE ManagerApp -----------------------------
(***************************************************************************)
(* The server manager: class App (app.ts) with the accounts it keeps       *)
(* (cloud_accounts.ts), the manual servers (manual_server.ts), the sign-in *)
(* sessions of Electron (digitalocean_oauth.ts, gcp_oauth.ts) and the      *)
(* pages and menus of app-root.js through which the user reaches it.       *)
(*                                                                         *)
(* App runs on one thread, and each of its handlers runs up to an await    *)
(* without being disturbed.  The record app is what such a run reads and   *)
(* writes; the other variables are the handlers that wait for an answer, a *)
(* timer or a dialog.  Meanwhile the user can do anything the pages offer. *)
(***************************************************************************)
EXTENDS Naturals

CONSTANTS
  Droplets,   \* the servers that can exist at DigitalOcean
  Instances,  \* the servers that can exist at GCP
  Urls,       \* the management API URLs the user may enter
  Users,      \* whose accounts there are, at either provider
  Owner,      \* whose account a server belongs to
  Flows,      \* bound: sign-in flows of one provider at once
  MaxTaps,    \* bound: what the user does
  MaxFaults,  \* bound: failed requests and restarts
  None

ASSUME BoundsAssumption == MaxTaps \in Nat /\ MaxFaults \in Nat
ASSUME NamesAssumption ==
  /\ Droplets \cap Instances = {} /\ (Droplets \cup Instances) \cap Urls = {}
  /\ None \notin Droplets \cup Instances \cup Urls \cup Users
  /\ {"start", "card"} \cap Flows = {} /\ None \notin Flows

Providers == {"do", "gcp"}
Loads     == Flows \cup {"start"}  \* who loads an account
Callers   == Flows \cup {"card"}   \* of showDigitalOceanCreateServer
ServersOf(p) == IF p = "do" THEN Droplets ELSE Instances
Managed == Droplets \cup Instances
ASSUME OwnerAssumption == Owner \in [Managed -> Users]
Servers == Managed \cup Urls
Pages == {"intro", "digitalOceanOauth", "gcpOauth", "gcpCreateServer",
          "manualEntry", "regionPicker", "serverView"}

VARIABLES
  app,       \* App, AppRoot and the local storage, see TypeOK
  cloud,     \* the servers that exist at the providers
  loads,     \* per provider: the handlers that sign in or load the account
  onCancel,  \* per provider: what the cancel button of its page calls
  starting,  \* App.start
  activation,\* the calls of showDigitalOceanCreateServer
  creation,  \* the request for a new droplet
  instance,  \* the instance that GcpCreateServerApp creates
  deletion,  \* the request to delete a server
  manual,    \* the check of a manual server that was entered
  dialog,    \* who waits for the dialog that is open
  taps, faults

waiting == <<loads, onCancel, starting, activation>>
requests == <<creation, instance, deletion, manual>>
bounds == <<taps, faults>>
vars == <<app, cloud, waiting, requests, dialog, bounds>>

----------------------------------------------------------------------------
(* What the parts of a handler do to the state of App.                     *)

(* Mutant: a deleted server stays in the list. *)
RemoveFromMap(a, ids) ==
  [a EXCEPT !.idServerMap = @ \ ids,
            !.selectedServer = IF a.selectedServerId \in ids THEN None ELSE @,
            !.selectedServerId = IF @ \in ids THEN None ELSE @,
            !.lastDisplayed = IF a.selectedServerId \in ids THEN None ELSE @]

(* Mutant: what is selected is not looked at. *)
RemoveSelected(a, ids) ==
  [a EXCEPT !.idServerMap = @ \ ids, !.serverList = @ \ ids]

(* removeServer: what is selected goes with the server. *)
RemoveServers(a, ids) ==
  [a EXCEPT !.idServerMap = @ \ ids,
            !.serverList = @ \ ids,
            !.selectedServer = IF a.selectedServerId \in ids THEN None ELSE @,
            !.selectedServerId = IF @ \in ids THEN None ELSE @,
            !.lastDisplayed = IF a.selectedServerId \in ids THEN None ELSE @]

AddServers(a, ids) ==
  [a EXCEPT !.idServerMap = @ \cup ids, !.serverList = @ \cup ids]

ShowServer(a, id) ==
  [a EXCEPT !.selectedServer = id, !.selectedServerId = id,
            !.lastDisplayed = id, !.page = "serverView"]

ShowIntro(a) == [a EXCEPT !.selectedServerId = None, !.page = "intro"]

(* Mutant: the token of older versions is kept. *)
SaveAccountsOnly(a) == [a EXCEPT !.stored = a.account]

(* CloudAccounts.save, with the token of older versions. *)
Save(a) == [a EXCEPT !.stored = a.account, !.legacy = a.account["do"]]

Connected(a, p) == a.account[p] # None

(* connectDigitalOceanAccount, connectGcpAccount: the account of u takes   *)
(* the place of any other.  Whether servers or requests of another one are *)
(* still there is kept for the properties, in mixed.                       *)
Connect(a, p, u, others) ==
  Save([a EXCEPT !.account[p] = u,
                 !.mixed = IF others THEN @ \cup {p} ELSE @ \ {p}])

(* CloudAccounts.disconnectDigitalOceanAccount, disconnectGcpAccount. *)
DropAccount(a, p) == Save([a EXCEPT !.account[p] = None])

(* App.disconnectDigitalOceanAccount, disconnectGcpAccount. *)
Disconnect(a, p) ==
  IF ~Connected(a, p) THEN a
  ELSE RemoveServers([DropAccount(a, p) EXCEPT !.shown = @ \ {p}],
                     a.serverList \cap ServersOf(p))

(* getAndShowRegionPicker: the locations of an earlier visit stay. *)
ShowRegionPicker(a) == [a EXCEPT !.page = "regionPicker", !.creating = FALSE]

(* A request with its server and the account it was sent to, and a call    *)
(* that awaits an active account.                                          *)
Idle     == [pc |-> "none", id |-> None, of |-> None]
Inactive == [pc |-> "none", activating |-> FALSE, cancelled |-> FALSE]
NoDialog == [owner |-> "none", of |-> None, pc |-> "none"]
At(pc)   == [pc |-> pc, of |-> None]
NobodyCancels == [kind |-> "none", of |-> None]

(* App.loadManualServers, of a new AppRoot. *)
LoadManualServers(a) == [a EXCEPT !.serverList = a.manual, !.idServerMap = a.manual]

(* CloudAccounts.load: the token that older versions stored is taken when  *)
(* no account of DigitalOcean is stored.  It is saved at once, before GCP's*)
(* account is read, which is lost.                                         *)
LoadAccounts(a) ==
  IF a.stored["do"] = None /\ a.legacy # None
  THEN Save([a EXCEPT !.account = [p \in Providers |->
                                     IF p = "do" THEN a.legacy ELSE None]])
  ELSE [a EXCEPT !.account = a.stored]

(* CloudAccounts.load, ManualServerRepository.loadServers, the state of a  *)
(* new AppRoot, and App.start up to the first await of each account.       *)
Started(a) ==
  [LoadManualServers(LoadAccounts(a)) EXCEPT
     !.shown = {}, !.selectedServer = None, !.selectedServerId = None,
     !.page = "intro", !.options = FALSE, !.creating = FALSE,
     !.wizard = None, !.mixed = {}]

StartLoads(a) ==
  [p \in Providers |->
     [w \in Loads |->
        At(IF w = "start" /\ Connected(a, p) THEN "naming" ELSE "none")]]

NoAccounts == [p \in Providers |-> None]

(* The first start, with whatever accounts are stored.  What was displayed *)
(* last and the manual servers come with a later start, by Restart.        *)
FirstRecord(s, l) ==
  [stored |-> s, legacy |-> l, account |-> NoAccounts, shown |-> {},
   serverList |-> {}, idServerMap |-> {},
   selectedServer |-> None, selectedServerId |-> None, lastDisplayed |-> None,
   page |-> "intro", manual |-> {}, options |-> FALSE, creating |-> FALSE,
   wizard |-> None, mixed |-> {}]

Init ==
  /\ \E s \in [Providers -> Users \cup {None}], l \in Users \cup {None} :
       app = Started(FirstRecord(s, l))
  /\ cloud \in SUBSET Managed
  /\ loads = StartLoads(app)
  /\ onCancel = [p \in Providers |-> NobodyCancels]
  /\ starting = "loading"
  /\ activation = [c \in Callers |-> Inactive]
  /\ creation = Idle
  /\ instance = Idle
  /\ deletion = Idle
  /\ manual = Idle
  /\ dialog = NoDialog
  /\ taps = 0
  /\ faults = 0

Tap   == taps < MaxTaps /\ taps' = taps + 1 /\ UNCHANGED faults
Fault == faults < MaxFaults /\ faults' = faults + 1 /\ UNCHANGED taps

(* What the user taps on a page, unless a modal dialog covers it. *)
TapOn(page) == Tap /\ dialog = NoDialog /\ app.page = page

(* The sections of the drawer: a server is shown under its account. *)
Visible(s) == /\ s \in app.serverList
              /\ s \in Urls \/ \E p \in app.shown : s \in ServersOf(p)

----------------------------------------------------------------------------
(* The drawer and the intro page. *)
ShowIntroTapped ==
  /\ Tap /\ dialog = NoDialog
  /\ app' = ShowIntro(app)
  /\ UNCHANGED <<cloud, waiting, requests, dialog>>

ShowServerTapped(s) ==
  /\ Tap /\ dialog = NoDialog
  /\ Visible(s)
  /\ app' = IF s \in app.idServerMap THEN ShowServer(app, s) ELSE app
  /\ UNCHANGED <<cloud, waiting, requests, dialog>>

SignOutTapped(p) ==
  /\ Tap /\ dialog = NoDialog
  /\ p \in app.shown
  /\ app' = ShowIntro(Disconnect(app, p))
  /\ UNCHANGED <<cloud, waiting, requests, dialog>>

(* The card of a provider starts to sign in unless the account is shown;   *)
(* DigitalOcean's does so too when the account that is shown is not there. *)
Connecting(p) == p \notin app.shown \/ (p = "do" /\ ~Connected(app, p))

(* Mutant: the id of a page is not the one AppRoot has. *)
OauthPageMisnamed(p) == IF p = "do" THEN "digitalOceanOauth" ELSE "gcpOauthFlow"

OauthPage(p) == IF p = "do" THEN "digitalOceanOauth" ELSE "gcpOauth"

(* runDigitalOceanOauthFlow, runGcpOauthFlow: a listener, and the browser. *)
ConnectTapped(p, f) ==
  /\ TapOn("intro")
  /\ Connecting(p)
  /\ loads[p][f].pc = "none"
  /\ app' = [app EXCEPT !.page = OauthPage(p)]
  /\ loads' = [loads EXCEPT ![p][f] = At("browser")]
  /\ onCancel' = [onCancel EXCEPT ![p] = [kind |-> "session", of |-> f]]
  /\ UNCHANGED <<cloud, starting, activation, requests, dialog>>

----------------------------------------------------------------------------
(* Signing in.  The browser brings a token or a code to the listener.      *)
DigitalOceanOauthPost(f) ==
  /\ loads["do"][f].pc = "browser"
  /\ loads' = [loads EXCEPT !["do"][f].pc = "verifying"]
  /\ UNCHANGED <<app, cloud, onCancel, starting, activation, requests, dialog,
                 bounds>>

GcpOauthCallback(f) ==
  /\ loads["gcp"][f].pc = "browser"
  /\ loads' = [loads EXCEPT !["gcp"][f].pc = "verifying"]
  /\ UNCHANGED <<app, cloud, onCancel, starting, activation, requests, dialog,
                 bounds>>

(* An error, a wrong state, missing scopes, no port to listen on: whatever *)
(* the reason, an account that is connected is disconnected.               *)
OauthFails(p, f) ==
  /\ loads[p][f].pc \in {"browser", "verifying"}
  /\ loads' = [loads EXCEPT ![p][f] = At("none")]
  /\ app' = ShowIntro(Disconnect(app, p))
  /\ UNCHANGED <<cloud, onCancel, starting, activation, requests, dialog,
                 bounds>>

(* Whether a server of another account than u is listed or may be by a     *)
(* request that is under way, or that GcpCreateServerApp may still send.   *)
OthersThan(p, u) ==
  \/ \E s \in app.serverList \cap ServersOf(p) : Owner[s] # u
  \/ \E w \in Loads : loads[p][w].pc = "listing" /\ loads[p][w].of # u
  \/ LET r == IF p = "do" THEN creation ELSE instance
     IN r.pc \in {"asking", "created"} /\ r.of # u
  \/ p = "gcp" /\ app.page = "gcpCreateServer" /\ app.wizard # u

OauthSucceeds(p, f) ==
  /\ loads[p][f].pc = "verifying"
  /\ loads' = [loads EXCEPT ![p][f].pc = "naming"]
  /\ \E u \in Users : app' = Connect(app, p, u, OthersThan(p, u))
  /\ UNCHANGED <<cloud, onCancel, starting, activation, requests, dialog,
                 bounds>>

(* The cancel button of the page: of the session, which is rejected if it  *)
(* has no token yet, or of the wait for the account to become active, until*)
(* it is.                                                                  *)
CancelSessionTapped(p, f) ==
  /\ TapOn(OauthPage(p))
  /\ onCancel[p] = [kind |-> "session", of |-> f]
  /\ loads' = [loads EXCEPT ![p][f] =
                 IF @.pc \in {"browser", "verifying"} THEN At("none") ELSE @]
  /\ app' = ShowIntro(Disconnect(app, p))
  /\ UNCHANGED <<cloud, onCancel, starting, activation, requests, dialog>>

CancelActivationTapped(c) ==
  /\ TapOn("digitalOceanOauth")
  /\ onCancel["do"] = [kind |-> "activation", of |-> c]
  /\ activation[c].pc # "active"
  /\ activation' = [activation EXCEPT ![c].cancelled = TRUE]
  /\ app' = Disconnect(app, "do")
  /\ UNCHANGED <<cloud, loads, onCancel, starting, requests, dialog>>

----------------------------------------------------------------------------
(* showDigitalOceanCreateServer: it begins with a first request, unless    *)
(* there is no account, which is an error.                                 *)
CreateServerPage(c, a) ==
  /\ onCancel' = [onCancel EXCEPT !["do"] = [kind |-> "activation", of |-> c]]
  /\ activation' = [activation EXCEPT ![c] =
       IF Connected(a, "do") THEN [Inactive EXCEPT !.pc = "asking"]
       ELSE Inactive]
  /\ app' = IF ~Connected(a, "do") /\ a.page = "digitalOceanOauth"
            THEN ShowIntro(a) ELSE a

(* The end of loadDigitalOceanAccount and of the handler that called it,   *)
(* with the servers of the account, none after an error.                   *)
DigitalOceanLoaded(w, a, servers) ==
  /\ loads' = [loads EXCEPT !["do"][w] = At("none")]
  /\ IF w = "start" THEN app' = a /\ UNCHANGED <<onCancel, activation>>
     ELSE IF servers = {} THEN CreateServerPage(w, a)
     ELSE /\ \E s \in servers : app' = ShowServer(a, s)
          /\ UNCHANGED <<onCancel, activation>>
  /\ UNCHANGED starting

(* The end of loadGcpAccount, whose errors nobody catches. *)
GcpLoaded(w, a, ok) ==
  /\ loads' = [loads EXCEPT !["gcp"][w] = At("none")]
  /\ app' = IF w # "start" /\ ok THEN ShowIntro(a) ELSE a
  /\ starting' = IF w = "start" /\ ~ok THEN "failed" ELSE starting
  /\ UNCHANGED <<onCancel, activation>>

Loaded(p, w, a, servers, ok) ==
  IF p = "do" THEN DigitalOceanLoaded(w, a, servers) ELSE GcpLoaded(w, a, ok)

(* The next request of a load is sent to the account of then. *)
Proceed(p, w, a, pc) ==
  /\ loads' = [loads EXCEPT ![p][w] =
                 [pc |-> pc, of |-> IF pc = "listing" THEN a.account[p]
                                    ELSE None]]
  /\ app' = a
  /\ UNCHANGED <<onCancel, starting, activation>>

(* getName: the account is shown, and asked again if it is still there.    *)
NameAnswered(p, w) ==
  /\ loads[p][w].pc = "naming"
  /\ LET a == [app EXCEPT !.shown = @ \cup {p}]
     IN IF Connected(app, p)
        THEN Proceed(p, w, a, IF p = "do" THEN "status" ELSE "listing")
        ELSE Loaded(p, w, a, {}, FALSE)
  /\ UNCHANGED <<cloud, requests, dialog, bounds>>

StatusActive(w) ==
  /\ loads["do"][w].pc = "status"
  /\ IF Connected(app, "do") THEN Proceed("do", w, app, "listing")
     ELSE Loaded("do", w, app, {}, FALSE)
  /\ UNCHANGED <<cloud, requests, dialog, bounds>>

StatusInactive(w) ==
  /\ loads["do"][w].pc = "status"
  /\ Loaded("do", w, app, {}, TRUE)
  /\ UNCHANGED <<cloud, requests, dialog, bounds>>

(* The servers of the account that was asked for them. *)
Listed(p, w) == {s \in cloud \cap ServersOf(p) : Owner[s] = loads[p][w].of}

(* Mutant: the account is not looked at when the list arrives. *)
ServersListedAnyway(p, w) ==
  /\ loads[p][w].pc = "listing"
  /\ LET servers == Listed(p, w)
     IN Loaded(p, w, AddServers(app, servers), servers, TRUE)
  /\ UNCHANGED <<cloud, requests, dialog, bounds>>

(* listServers: an account must be there for each server that is added,    *)
(* which need not be the one that listed it.                               *)
ServersListed(p, w) ==
  /\ loads[p][w].pc = "listing"
  /\ LET servers == Listed(p, w)
     IN IF servers = {} \/ Connected(app, p)
        THEN Loaded(p, w, AddServers(app, servers), servers, TRUE)
        ELSE Loaded(p, w, app, {}, FALSE)
  /\ UNCHANGED <<cloud, requests, dialog, bounds>>

(* A request of the load fails, at GCP perhaps after a project was listed. *)
LoadFails(p, w) ==
  /\ loads[p][w].pc \in {"naming", "status", "listing"}
  /\ Fault
  /\ \E some \in SUBSET Listed(p, w) :
       /\ some # {} =>
            p = "gcp" /\ loads[p][w].pc = "listing" /\ Connected(app, p)
       /\ Loaded(p, w, AddServers(app, some), {}, FALSE)
  /\ UNCHANGED <<cloud, requests, dialog>>

(* The end of App.start: the server that was displayed last. *)
ShowLastDisplayed ==
  /\ starting = "loading"
  /\ \A p \in Providers : loads[p]["start"].pc = "none"
  /\ starting' = "done"
  /\ app' = IF app.lastDisplayed \in app.idServerMap
            THEN ShowServer(app, app.lastDisplayed) ELSE app
  /\ UNCHANGED <<cloud, loads, onCancel, activation, requests, dialog, bounds>>

----------------------------------------------------------------------------
(* ensureActiveDigitalOceanAccount, and the region picker after it. *)
CreateDigitalOceanServerTapped ==
  /\ TapOn("intro")
  /\ ~Connecting("do")
  /\ activation["card"].pc = "none"
  /\ CreateServerPage("card", app)
  /\ UNCHANGED <<cloud, loads, starting, requests, dialog>>

Activation(c, r, a) ==
  /\ activation' = [activation EXCEPT ![c] = r]
  /\ app' = a
  /\ UNCHANGED <<cloud, loads, onCancel, starting, requests>>

(* The region picker is shown, and its locations are asked for. *)
RegionPicker(c) ==
  Activation(c, IF Connected(app, "do")
                THEN [Inactive EXCEPT !.pc = "locating"] ELSE Inactive,
             ShowRegionPicker(app))

(* The error path: CANCELLED_ERROR, or what the dialog ended with. *)
ActivationEnds(c, a) ==
  Activation(c, Inactive,
             IF a.page = "digitalOceanOauth" THEN ShowIntro(a) ELSE a)

AccountActive(c) ==
  /\ activation[c].pc = "asking"
  /\ IF activation[c].activating
     THEN Activation(c, [activation[c] EXCEPT !.pc = "active"], app)
     ELSE RegionPicker(c)
  /\ UNCHANGED <<dialog, bounds>>

ActiveScreenEnds(c) ==
  /\ activation[c].pc = "active"
  /\ RegionPicker(c)
  /\ UNCHANGED <<dialog, bounds>>

AccountInactive(c) ==
  /\ activation[c].pc = "asking"
  /\ Activation(c, [activation[c] EXCEPT !.pc = "sleeping",
                                         !.activating = TRUE],
                [app EXCEPT !.page = "digitalOceanOauth"])
  /\ UNCHANGED <<dialog, bounds>>

AskAgain(c) ==
  /\ activation[c].pc = "sleeping"
  /\ IF app.page # "digitalOceanOauth" \/ activation[c].cancelled
     THEN ActivationEnds(c, app)
     ELSE Activation(c, [activation[c] EXCEPT !.pc = "asking"], app)
  /\ UNCHANGED <<dialog, bounds>>

LocationsAnswered(c) ==
  /\ activation[c].pc = "locating"
  /\ Activation(c, Inactive, [app EXCEPT !.options = TRUE])
  /\ UNCHANGED <<dialog, bounds>>

(* digitalOceanRetry: the one dialog of AppRoot.  If it is open already,   *)
(* whoever opened it is not answered any more.                             *)
ActivationRequestFails(c) ==
  /\ activation[c].pc \in {"asking", "locating"}
  /\ Fault
  /\ dialog' = [owner |-> "activation", of |-> c, pc |-> activation[c].pc]
  /\ Activation(c, [activation[c] EXCEPT !.pc = "dialog"], app)

ActivationRetry(c) ==
  /\ dialog.owner = "activation" /\ dialog.of = c
  /\ dialog' = NoDialog
  /\ IF dialog.pc = "asking" /\ activation[c].cancelled
     THEN ActivationEnds(c, app)
     ELSE Activation(c, [activation[c] EXCEPT !.pc = dialog.pc], app)
  /\ UNCHANGED bounds

ActivationReconnect(c) ==
  /\ dialog.owner = "activation" /\ dialog.of = c
  /\ dialog' = NoDialog
  /\ IF dialog.pc = "asking" THEN ActivationEnds(c, Disconnect(app, "do"))
     ELSE Activation(c, Inactive, Disconnect(app, "do"))
  /\ UNCHANGED bounds

----------------------------------------------------------------------------
(* createDigitalOceanServer, through digitalOceanRetry. *)
AskDroplet == IF Connected(app, "do")
              THEN [pc |-> "asking", id |-> None, of |-> app.account["do"]]
              ELSE Idle

RegionTapped ==
  /\ TapOn("regionPicker")
  /\ app.options /\ ~app.creating
  /\ creation.pc = "none"
  /\ app' = [app EXCEPT !.creating = TRUE]
  /\ creation' = AskDroplet
  /\ UNCHANGED <<cloud, waiting, instance, deletion, manual, dialog>>

DropletCreated(d) ==
  /\ creation.pc = "asking"
  /\ d \in Droplets \ cloud /\ Owner[d] = creation.of
  /\ cloud' = cloud \cup {d}
  /\ creation' = [creation EXCEPT !.pc = "created", !.id = d]
  /\ UNCHANGED <<app, waiting, instance, deletion, manual, dialog, bounds>>

(* Mutant: the account's id was read before the request. *)
CreationAnsweredAnyway ==
  /\ creation.pc = "created"
  /\ creation' = Idle
  /\ app' = ShowServer(AddServers(app, {creation.id}), creation.id)
  /\ UNCHANGED <<cloud, waiting, instance, deletion, manual, dialog, bounds>>

CreationAnswered ==
  /\ creation.pc = "created"
  /\ creation' = Idle
  /\ app' = IF Connected(app, "do")
            THEN ShowServer(AddServers(app, {creation.id}), creation.id)
            ELSE app
  /\ UNCHANGED <<cloud, waiting, instance, deletion, manual, dialog, bounds>>

CreationFails ==
  /\ creation.pc \in {"asking", "created"}
  /\ Fault
  /\ creation' = [Idle EXCEPT !.pc = "dialog"]
  /\ dialog' = [NoDialog EXCEPT !.owner = "creation"]
  /\ UNCHANGED <<app, cloud, waiting, instance, deletion, manual>>

(* Again, which may create a second droplet, or disconnect the account. *)
CreationDialog(retry) ==
  /\ dialog.owner = "creation"
  /\ dialog' = NoDialog
  /\ creation' = IF retry THEN AskDroplet ELSE Idle
  /\ app' = IF retry THEN app ELSE Disconnect(app, "do")
  /\ UNCHANGED <<cloud, waiting, instance, deletion, manual, bounds>>

----------------------------------------------------------------------------
(* GcpCreateServerApp, as App sees it: it keeps the account it began with. *)
CreateGcpServerTapped ==
  /\ TapOn("intro")
  /\ ~Connecting("gcp")
  /\ app' = [app EXCEPT !.page = "gcpCreateServer",
                         !.wizard = app.account["gcp"]]
  /\ UNCHANGED <<cloud, waiting, requests, dialog>>

SetUpGcpServerTapped ==
  /\ TapOn("gcpCreateServer")
  /\ app.wizard # None /\ instance.pc = "none"
  /\ instance' = [pc |-> "asking", id |-> None, of |-> app.wizard]
  /\ UNCHANGED <<app, cloud, waiting, creation, deletion, manual, dialog>>

InstanceCreated(i) ==
  /\ instance.pc = "asking"
  /\ i \in Instances \ cloud /\ Owner[i] = instance.of
  /\ cloud' = cloud \cup {i}
  /\ instance' = [instance EXCEPT !.pc = "created", !.id = i]
  /\ UNCHANGED <<app, waiting, creation, deletion, manual, dialog, bounds>>

GcpServerCreated ==
  /\ instance.pc = "created"
  /\ instance' = Idle
  /\ app' = IF Connected(app, "gcp")
            THEN ShowServer(AddServers(app, {instance.id}), instance.id)
            ELSE app
  /\ UNCHANGED <<cloud, waiting, creation, deletion, manual, dialog, bounds>>

InstanceFails ==
  /\ instance.pc # "none"
  /\ Fault
  /\ instance' = Idle
  /\ UNCHANGED <<app, cloud, waiting, creation, deletion, manual, dialog>>

----------------------------------------------------------------------------
(* deleteServer, after its confirmation, and cancelServerCreation. *)
DeleteTapped(s) ==
  /\ TapOn("serverView")
  /\ app.selectedServerId = s
  /\ s \in Managed /\ s \in app.idServerMap
  /\ deletion.pc = "none"
  /\ deletion' = [Idle EXCEPT !.pc = "deleting", !.id = s]
  /\ UNCHANGED <<app, cloud, waiting, creation, instance, manual, dialog>>

CancelCreationTapped ==
  /\ TapOn("serverView")
  /\ app.selectedServerId \in app.serverList
  /\ app.selectedServer \in Managed
  /\ deletion.pc = "none"
  /\ deletion' = [Idle EXCEPT !.pc = "cancelling", !.id = app.selectedServer]
  /\ UNCHANGED <<app, cloud, waiting, creation, instance, manual, dialog>>

ServerDeleted ==
  /\ deletion.pc \in {"deleting", "cancelling"}
  /\ deletion.id \in cloud
  /\ cloud' = cloud \ {deletion.id}
  /\ deletion' = [deletion EXCEPT !.pc = "deleted"]
  /\ UNCHANGED <<app, waiting, creation, instance, manual, dialog, bounds>>

(* The page changes to the intro, wherever the user is by now. *)
DeletionAnswered ==
  /\ deletion.pc = "deleted"
  /\ deletion' = Idle
  /\ app' = ShowIntro(RemoveServers(app, {deletion.id}))
  /\ UNCHANGED <<cloud, waiting, creation, instance, manual, dialog, bounds>>

(* A request that fails, or the server is not there: DigitalOcean's is     *)
(* retried if the user wants, GCP's is an error, a cancelled creation's    *)
(* is not caught.                                                          *)
DeletionFails ==
  /\ deletion.pc \in {"deleting", "cancelling", "deleted"}
  /\ Fault \/ (deletion.pc # "deleted" /\ deletion.id \notin cloud
               /\ UNCHANGED bounds)
  /\ IF deletion.pc # "cancelling" /\ deletion.id \in Droplets
     THEN /\ deletion' = [deletion EXCEPT !.pc = "dialog"]
          /\ dialog' = [NoDialog EXCEPT !.owner = "deletion"]
     ELSE deletion' = Idle /\ UNCHANGED dialog
  /\ UNCHANGED <<app, cloud, waiting, creation, instance, manual>>

DeletionDialog(retry) ==
  /\ dialog.owner = "deletion"
  /\ dialog' = NoDialog
  /\ deletion' = IF retry THEN [deletion EXCEPT !.pc = "deleting"] ELSE Idle
  /\ app' = IF retry THEN app ELSE Disconnect(app, "do")
  /\ UNCHANGED <<cloud, waiting, creation, instance, manual, bounds>>

----------------------------------------------------------------------------
(* Manual servers. *)
ManualTapped ==
  /\ TapOn("intro")
  /\ app' = [app EXCEPT !.page = "manualEntry"]
  /\ UNCHANGED <<cloud, waiting, requests, dialog>>

(* The buttons of outline-manual-server-entry.  Done is enabled once what  *)
(* was pasted parses, and stays so while an earlier check is under way.    *)
EntryTapped == TapOn("manualEntry")

ManualEntryCancelled ==
  /\ EntryTapped
  /\ app' = [app EXCEPT !.page = "intro"]
  /\ UNCHANGED <<cloud, waiting, requests, dialog>>

(* ManualServer.forget, through the repository's forgetServer. *)
Forget(a, u) == [a EXCEPT !.manual = @ \ {u}]

(* createManualServer: a server that is stored already is shown, one that  *)
(* is not is stored before it is checked.                                  *)
CreateManualServer(u) ==
  IF u \in app.manual
  THEN app' = ShowServer(app, u) /\ manual' = Idle
  ELSE /\ app' = [app EXCEPT !.manual = @ \cup {u}]
       /\ manual' = [Idle EXCEPT !.pc = "checking", !.id = u]

ManualServerEntered(u) ==
  /\ EntryTapped
  /\ \/ manual.pc = "none" /\ CreateManualServer(u)
     \/ /\ manual.pc # "none" /\ u \in app.manual
        /\ app' = ShowServer(app, u) /\ UNCHANGED manual
  /\ UNCHANGED <<cloud, waiting, creation, instance, deletion, dialog>>

ManualServerHealthy ==
  /\ manual.pc = "checking"
  /\ manual' = Idle
  /\ app' = ShowServer(AddServers(app, {manual.id}), manual.id)
  /\ UNCHANGED <<cloud, waiting, creation, instance, deletion, dialog, bounds>>

(* Mutant: a server that could not be reached stays stored. *)
ManualServerUnhealthyKept ==
  /\ manual.pc = "checking"
  /\ manual' = [manual EXCEPT !.pc = "dialog"]
  /\ dialog' = [NoDialog EXCEPT !.owner = "manual"]
  /\ UNCHANGED <<app, cloud, waiting, creation, instance, deletion, bounds>>

ManualServerUnhealthy ==
  /\ manual.pc = "checking"
  /\ app' = Forget(app, manual.id)
  /\ manual' = [manual EXCEPT !.pc = "dialog"]
  /\ dialog' = [NoDialog EXCEPT !.owner = "manual"]
  /\ UNCHANGED <<cloud, waiting, creation, instance, deletion, bounds>>

ManualServerError(retry) ==
  /\ dialog.owner = "manual"
  /\ Tap
  /\ dialog' = NoDialog
  /\ IF retry THEN CreateManualServer(manual.id)
     ELSE app' = [app EXCEPT !.page = "intro"] /\ manual' = Idle
  /\ UNCHANGED <<cloud, waiting, creation, instance, deletion>>

(* forgetServer, after its confirmation. *)
ForgetTapped(u) ==
  /\ TapOn("serverView")
  /\ app.selectedServerId = u
  /\ u \in Urls /\ u \in app.idServerMap
  /\ app' = ShowIntro(RemoveServers(Forget(app, u), {u}))
  /\ UNCHANGED <<cloud, waiting, requests, dialog>>

----------------------------------------------------------------------------
(* The manager is closed at any time, and started again. *)
Restart ==
  /\ Fault
  /\ app' = Started(app)
  /\ loads' = StartLoads(app')
  /\ onCancel' = [p \in Providers |-> NobodyCancels]
  /\ starting' = "loading"
  /\ activation' = [c \in Callers |-> Inactive]
  /\ creation' = Idle /\ instance' = Idle /\ deletion' = Idle
  /\ manual' = Idle
  /\ dialog' = NoDialog
  /\ UNCHANGED cloud

Next ==
  \/ ShowIntroTapped
  \/ \E s \in Servers : ShowServerTapped(s)
  \/ \E p \in Providers : SignOutTapped(p)
  \/ \E p \in Providers, f \in Flows :
       \/ ConnectTapped(p, f) \/ CancelSessionTapped(p, f)
       \/ OauthFails(p, f) \/ OauthSucceeds(p, f)
  \/ \E f \in Flows : DigitalOceanOauthPost(f) \/ GcpOauthCallback(f)
  \/ \E p \in Providers, w \in Loads :
       NameAnswered(p, w) \/ ServersListed(p, w) \/ LoadFails(p, w)
  \/ \E w \in Loads : StatusActive(w) \/ StatusInactive(w)
  \/ ShowLastDisplayed
  \/ CreateDigitalOceanServerTapped
  \/ \E c \in Callers :
       \/ CancelActivationTapped(c)
       \/ AccountActive(c) \/ ActiveScreenEnds(c)
       \/ AccountInactive(c) \/ AskAgain(c) \/ LocationsAnswered(c)
       \/ ActivationRequestFails(c)
       \/ ActivationRetry(c) \/ ActivationReconnect(c)
  \/ RegionTapped \/ CreationAnswered \/ CreationFails
  \/ \E d \in Droplets : DropletCreated(d)
  \/ CreateGcpServerTapped \/ SetUpGcpServerTapped
  \/ GcpServerCreated \/ InstanceFails
  \/ \E i \in Instances : InstanceCreated(i)
  \/ \E s \in Managed : DeleteTapped(s)
  \/ CancelCreationTapped
  \/ ServerDeleted \/ DeletionAnswered \/ DeletionFails
  \/ \E retry \in BOOLEAN :
       CreationDialog(retry) \/ DeletionDialog(retry) \/ ManualServerError(retry)
  \/ ManualTapped \/ ManualEntryCancelled
  \/ ManualServerHealthy \/ ManualServerUnhealthy
  \/ \E u \in Urls : ManualServerEntered(u) \/ ForgetTapped(u)
  \/ Restart

Spec == Init /\ [][Next]_vars

----------------------------------------------------------------------------
Request(pcs, ids) ==
  [pc : pcs, id : ids \cup {None}, of : Users \cup {None}]

AccountsOf == [Providers -> Users \cup {None}]

TypeOK ==
  /\ app \in [stored : AccountsOf, legacy : Users \cup {None},
              account : AccountsOf, shown : SUBSET Providers,
              serverList : SUBSET Servers, idServerMap : SUBSET Servers,
              selectedServer : Servers \cup {None},
              selectedServerId : Servers \cup {None},
              lastDisplayed : Servers \cup {None},
              page : Pages, manual : SUBSET Urls,
              options : BOOLEAN, creating : BOOLEAN,
              wizard : Users \cup {None}, mixed : SUBSET Providers]
  /\ cloud \in SUBSET Managed
  /\ loads \in [Providers -> [Loads ->
                  [pc : {"none", "browser", "verifying", "naming", "status",
                         "listing"}, of : Users \cup {None}]]]
  /\ onCancel \in [Providers -> [kind : {"none", "session", "activation"},
                                 of : Callers \cup {None}]]
  /\ starting \in {"loading", "failed", "done"}
  /\ activation \in [Callers -> [pc : {"none", "asking", "active", "sleeping",
                                       "locating", "dialog"},
                                 activating : BOOLEAN, cancelled : BOOLEAN]]
  /\ creation \in Request({"none", "asking", "created", "dialog"}, Droplets)
  /\ instance \in Request({"none", "asking", "created"}, Instances)
  /\ deletion \in Request({"none", "deleting", "cancelling", "deleted",
                           "dialog"}, Managed)
  /\ manual \in Request({"none", "checking", "dialog"}, Urls)
  /\ dialog \in [owner : {"none", "activation", "creation", "deletion",
                          "manual"},
                 of : Callers \cup {None}, pc : {"none", "asking", "locating"}]
  /\ taps \in 0 .. MaxTaps
  /\ faults \in 0 .. MaxFaults

(* What the drawer lists is what getServerById finds, after any order of   *)
(* loads, creations, deletions and sign-outs: app.ts says of a server that *)
(* is tapped and not found that this should never happen.                  *)
ListedServersKnown == app.serverList = app.idServerMap

(* No server of a provider is listed while no account of it is connected,  *)
(* although the requests that add servers may be answered after a sign-out;*)
(* and the servers that are listed are those of the account that is, unless*)
(* its sign-in found servers or requests of another one still there: their *)
(* servers are then listed as if they were its own.                        *)
NoServerOfSignedOutAccount ==
  \A p \in Providers : \A s \in app.serverList \cap ServersOf(p) :
    /\ Connected(app, p)
    /\ Owner[s] = app.account[p] \/ p \in app.mixed

(* A start of the manager connects the accounts that are connected now: a  *)
(* sign-out outlives a restart, the token of older versions included.      *)
SignOutIsStored == LoadAccounts(app).account = app.account

(* The server that is selected is the one that is recorded for the next    *)
(* start, and is listed.  A manual server need not be listed: it is shown  *)
(* when its URL is entered again while it is checked, and stays selected   *)
(* if the check fails.                                                     *)
SelectionListed ==
  LET s == app.selectedServerId
  IN s # None =>
       /\ app.selectedServer = s /\ app.lastDisplayed = s
       /\ s \in app.serverList \cup Urls

(* Every manual server that is stored is listed, unless its check goes on: *)
(* a server that could not be reached leaves nothing behind.               *)
StoredManualServersListed ==
  app.manual \subseteq app.serverList \cup
                       (IF manual.pc = "checking" THEN {manual.id} ELSE {})
=============================================================================
